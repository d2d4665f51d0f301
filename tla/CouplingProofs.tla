--------------------------- MODULE CouplingProofs ---------------------------
(***************************************************************************)
(* How the scopes of kcc correspond to those of C, for the theorems about a*)
(* translation unit: Coupled says it part by part, and the lemmas say what *)
(* a lookup finds on both sides, what kcc and C each make of a declarator, *)
(* what a step leaves as it was and what a name that is entered changes.   *)
(* Then each action that declares, uses or nests, but makes no tag: it is  *)
(* Held, that is its verdicts agree and, where both go on, so do the scopes*)
(* after it.  DeclarationProofs has the actions for tags.                  *)
(***************************************************************************)
EXTENDS Declarations, ScopeProofs

---------------------------------------------------------------------------
(* How the scopes of kcc correspond to those of C.                           *)

\* The member lists that are open, and the scope they are in.
Lists == Len(members)
Around == ScopeAt(Lists + 1)

\* What the scopes of kcc enter, and where.
UsualAt(s, n) ==
  LET i == scopes[s].usual[n]
  IN  i # 0 =>
        /\ s \in ListScopes => idents[i].scope = s /\ idents[i].kind = "object"
        /\ scopes[s].type = "proto" => idents[i].kind \in {"object", "enumerator"}
        /\ scopes[s].type # "file" => idents[i].linkage = "none"

UsualOK == \A s \in DOMAIN scopes, n \in Names : UsualAt(s, n)
IsStructTag(i) == i # 0 /\ idents[i].kind = "tag" /\ idents[i].ty.k = "struct"
TypeOf(i) == idents[i].ty.n

TagTypeAt(s, t) ==
  LET i == scopes[s].tags[t]
  IN  IsStructTag(i) => s \in Within[types[TypeOf(i)].scope]

TagTypesOK == \A s \in DOMAIN scopes, t \in Tags : TagTypeAt(s, t)

\* A member list is empty until it is read.
Unopened(y) == ~types[y].complete /\ \A k \in 1 .. Lists : open[k].type # y

EmptyList(y) ==
  /\ \A n \in Names : scopes[types[y].scope].usual[n] = 0
  /\ \A t \in Tags : scopes[types[y].scope].tags[t] = 0

UnopenedOK == \A y \in DOMAIN types : Unopened(y) => EmptyList(y)

\* The member lists that are open are the innermost of what is, one inside
\* the other, and each is that of the struct C has; the tag of an open struct
\* is not in its list, and no tag is in two of the lists.
OpenList(k) ==
  /\ ScopeAt(k) = types[open[k].type].scope
  /\ members[k].ent \in DOMAIN ents /\ ents[members[k].ent].kind = "struct"
  /\ \A n \in Names : (n \in members[k].names) = (scopes[ScopeAt(k)].usual[n] # 0)
  /\ \A i \in DOMAIN idents :
       IsStructTag(i) => (TypeOf(i) = open[k].type) = (stands[i] = members[k].ent)
  /\ \A j \in 1 .. k, t \in Tags :
       IsStructTag(scopes[ScopeAt(j)].tags[t]) =>
         TypeOf(scopes[ScopeAt(j)].tags[t]) # open[k].type
  /\ \A j \in k .. Lists + 1 : ScopeAt(j) \in Within[ScopeAt(k)]
  /\ \A j \in k + 1 .. Lists + 1 :
       /\ ScopeAt(j) # ScopeAt(k)
       /\ \A t \in Tags : scopes[ScopeAt(k)].tags[t] = 0 \/ scopes[ScopeAt(j)].tags[t] = 0

OpenListsOK ==
  /\ Lists <= Len(open)
  /\ \A k \in DOMAIN open :
       /\ (open[k].what = "struct") = (k <= Lists)
       /\ open[k].what = "proto" => Kind(open[k].decl) = "func" /\ ~open[k].decl.init
  /\ Around \notin ListScopes
  /\ \A k \in 1 .. Lists : OpenList(k)

---------------------------------------------------------------------------
(* What they enter.                                                          *)

FileEntry(cs, n) == cs[Len(cs)].names[n]

Stands(i, entry) == entry.ent # 0 /\ stands[i] = entry.ent /\ idents[i].ty = entry.ty

\* An "extern" in a block enters the name there in C and not in kcc, where
\* the name is looked up in the file.
Extern(s, cs, j, n) ==
  /\ j < Len(cs) /\ scopes[scopes[s].chain[j]].type = "block"
  /\ cs[j].names[n] = FileEntry(cs, n)
  /\ LinkageOf(cs[j].names[n].ent) # "none"
  /\ \A k \in j .. Len(cs) - 1 : scopes[scopes[s].chain[k]].usual[n] = 0

NamesOK(s, cs) ==
  /\ Len(scopes[s].chain) = Len(cs)
  /\ \A j \in DOMAIN cs, n \in Names :
       LET i == scopes[scopes[s].chain[j]].usual[n]
       IN  IF i # 0 THEN Stands(i, cs[j].names[n])
           ELSE cs[j].names[n].ent = 0 \/ Extern(s, cs, j, n)

\* The tags of a member list are in C those of the scope around it.
TagsOK(s, cs) ==
  \A j \in DOMAIN cs, t \in Tags :
    /\ \A r \in DOMAIN scopes :
         scopes[s].chain[j] \in Within[r] /\ scopes[r].tags[t] # 0 =>
           stands[scopes[r].tags[t]] = cs[j].tags[t]
    /\ cs[j].tags[t] # 0 =>
         \/ scopes[scopes[s].chain[j]].tags[t] # 0
         \/ j = 1 /\ \E k \in 1 .. Lists : scopes[ScopeAt(k)].tags[t] # 0

\* What has linkage is an entity of the file, known there under its name.
LinkedAt(cs) ==
  \A e \in DOMAIN ents :
    ents[e].linkage # "none" =>
      /\ ents[e].name \in Names /\ ents[e].kind \in {"func", "object"}
      /\ e = FileEntry(cs, ents[e].name).ent
      /\ ents[e].ty = FileEntry(cs, ents[e].name).ty

LinkedOK == LinkedAt(cscopes)

\* The entity an identifier stands for is of its kind and linkage.
StandOK(i) ==
  /\ LinkageOf(stands[i]) = idents[i].linkage
  /\ idents[i].kind = "func" => idents[i].linkage # "none"
  /\ idents[i].kind = "enumerator" => stands[i] # 0 /\ ents[stands[i]].kind = "enumerator"
  /\ idents[i].kind = "tag" =>
       /\ stands[i] # 0
       /\ ents[stands[i]].kind = IF idents[i].ty.k = "struct" THEN "struct" ELSE "enum"
       /\ idents[i].ty.k = "struct" =>
            types[TypeOf(i)].complete = (ents[stands[i]].def = "yes")

StandsOK == \A i \in DOMAIN idents : StandOK(i)

\* A struct has one tag and one entity.
StructsOK ==
  /\ \A i \in DOMAIN idents : IsStructTag(i) => TypeOf(i) \in DOMAIN types
  /\ \A i, j \in DOMAIN idents :
       IsStructTag(i) /\ IsStructTag(j) => (TypeOf(i) = TypeOf(j)) = (stands[i] = stands[j])

\* The parameters of the function just declared.
ParamsOf(p) ==
  IF p = 0 THEN params = EmptyScope
  ELSE /\ scopes[p].type = "proto"
       /\ \A n \in Names : LET i == scopes[p].usual[n]
                           IN  IF i # 0 THEN Stands(i, params.names[n])
                               ELSE params.names[n].ent = 0

ParamsOK ==
  open = <<>> /\ last.act = "declare" /\ last.ident # 0 /\ idents[last.ident].kind = "func" =>
    meant = <<stands[last.ident]>> /\ ParamsOf(idents[last.ident].params)

---------------------------------------------------------------------------
(* The tables of C.                                                          *)

CScopeType == [names : [Names -> [ent : Nat, ty : Types]], tags : [Tags -> Nat]]

EntityType == [kind : {"typedef", "func", "object", "enumerator", "struct", "enum"},
               name : Names \cup Tags \cup {NoTag}, linkage : Linkages, ty : Types,
               static : BOOLEAN, def : {"no", "tentative", "yes"}]

InRange(c) ==
  /\ \A n \in Names : c.names[n].ent # 0 =>
       c.names[n].ent \in DOMAIN ents /\ ents[c.names[n].ent].name = n
  /\ \A t \in Tags : c.tags[t] # 0 => c.tags[t] \in DOMAIN ents

CTablesOK ==
  /\ cscopes \in Seq(CScopeType) /\ cscopes # <<>>
  /\ ents \in Seq(EntityType)
  /\ members \in Seq([ent : Nat, names : SUBSET Names])
  /\ params \in CScopeType
  /\ stands \in Seq(Nat) /\ Len(stands) = Len(idents)

RangesOK ==
  /\ \A j \in DOMAIN cscopes : InRange(cscopes[j])
  /\ InRange(params)
  /\ \A i \in DOMAIN stands : stands[i] # 0 => stands[i] \in DOMAIN ents

Coupled ==
  /\ CTablesOK /\ RangesOK
  /\ ChainsOK /\ UsualOK /\ TagTypesOK /\ UnopenedOK /\ OpenListsOK
  /\ NamesOK(Around, cscopes) /\ TagsOK(Around, cscopes)
  /\ LinkedOK /\ StandsOK /\ StructsOK /\ ParamsOK

---------------------------------------------------------------------------
(* Looking up: in both the innermost that knows the name.                    *)

\* So does that of C, in its stack of scopes.
LEMMA VisibleFound ==
  ASSUME NEW cs \in Seq(CScopeType), NEW n \in Names
  PROVE  LET entry == Visible(cs, n)
         IN  \/ entry.ent = 0 /\ \A j \in DOMAIN cs : cs[j].names[n].ent = 0
             \/ /\ entry.ent # 0
                /\ \E j \in DOMAIN cs : /\ cs[j].names[n] = entry
                                        /\ \A k \in 1 .. j - 1 : cs[k].names[n].ent = 0
<1> DEFINE at == {j \in DOMAIN cs : cs[j].names[n].ent # 0}
           f == First(at)
<1>1. DOMAIN cs = 1 .. Len(cs) /\ Len(cs) \in Nat
  OBVIOUS
<1>2. Visible(cs, n) = IF at = {} THEN NoEntry ELSE cs[f].names[n]
  BY DEF Visible, Innermost, First
<1>3. at \subseteq Nat
  BY <1>1
<1>4. CASE at = {}
  BY <1>2, <1>4 DEF NoEntry
<1>5. CASE at # {}
  <2>1. f \in at /\ \A q \in at : f <= q
    BY <1>3, <1>5, FirstIn
  <2> HIDE DEF f
  <2>2. \A q \in 1 .. f - 1 : cs[q].names[n].ent = 0
    BY <1>1, <2>1
  <2>3. f \in DOMAIN cs /\ cs[f].names[n].ent # 0
    BY <2>1
  <2> QED
    BY <1>2, <1>5, <2>2, <2>3
<1> QED
  BY <1>4, <1>5

LEMMA VisibleTagFound ==
  ASSUME NEW cs \in Seq(CScopeType), NEW t \in Tags
  PROVE  LET e == VisibleTag(cs, t)
         IN  \/ e = 0 /\ \A j \in DOMAIN cs : cs[j].tags[t] = 0
             \/ /\ e # 0
                /\ \E j \in DOMAIN cs : /\ cs[j].tags[t] = e
                                        /\ \A k \in 1 .. j - 1 : cs[k].tags[t] = 0
<1> DEFINE at == {j \in DOMAIN cs : cs[j].tags[t] # 0}
           f == First(at)
<1>1. DOMAIN cs = 1 .. Len(cs) /\ Len(cs) \in Nat
  OBVIOUS
<1>2. VisibleTag(cs, t) = IF at = {} THEN 0 ELSE cs[f].tags[t]
  BY DEF VisibleTag, Innermost, First
<1>3. at \subseteq Nat
  BY <1>1
<1>4. CASE at = {}
  BY <1>2, <1>4
<1>5. CASE at # {}
  <2>1. f \in at /\ \A q \in at : f <= q
    BY <1>3, <1>5, FirstIn
  <2> HIDE DEF f
  <2>2. \A q \in 1 .. f - 1 : cs[q].tags[t] = 0
    BY <1>1, <2>1
  <2>3. f \in DOMAIN cs /\ cs[f].tags[t] # 0
    BY <2>1
  <2> QED
    BY <1>2, <1>5, <2>2, <2>3
<1> QED
  BY <1>4, <1>5

\* A name, in a scope that C has too.
LEMMA NameAtBlock ==
  ASSUME TablesOK, NEW b \in DOMAIN scopes, NEW cs \in Seq(CScopeType), NamesOK(b, cs),
         NEW n \in Names
  PROVE  LET i == FindUsual(b, n)
             entry == Visible(cs, n)
         IN  \/ i = 0 /\ entry.ent = 0
             \/ i # 0 /\ Stands(i, entry)
<1> DEFINE c == scopes[b].chain
           u(j) == scopes[c[j]].usual[n]
           x(j) == cs[j].names[n]
           i == FindUsual(b, n)
           entry == Visible(cs, n)
<1>1. /\ Len(c) = Len(cs) /\ DOMAIN c = 1 .. Len(cs) /\ DOMAIN cs = 1 .. Len(cs)
      /\ Len(cs) \in Nat /\ Len(cs) >= 1
  BY Chains DEF NamesOK
<1>2. ASSUME NEW j \in DOMAIN cs, u(j) # 0
      PROVE  x(j).ent # 0 /\ Stands(u(j), x(j))
  BY <1>2 DEF NamesOK, Stands
<1>3. ASSUME NEW j \in DOMAIN cs, u(j) = 0, x(j).ent # 0
      PROVE  j < Len(cs) /\ x(j) = x(Len(cs)) /\ \A k \in j .. Len(cs) - 1 : u(k) = 0
  BY <1>3 DEF NamesOK, Extern, FileEntry
<1>4. \/ entry.ent = 0 /\ \A j \in DOMAIN cs : x(j).ent = 0
      \/ /\ entry.ent # 0
         /\ \E j \in DOMAIN cs : x(j) = entry /\ \A k \in 1 .. j - 1 : x(k).ent = 0
  BY VisibleFound
<1>5. \/ i = 0 /\ \A p \in DOMAIN c : u(p) = 0
      \/ i # 0 /\ \E p \in DOMAIN c : u(p) = i /\ \A q \in 1 .. p - 1 : u(q) = 0
  BY UsualFound
<1> HIDE DEF c, u, x, i, entry
<1>6. CASE i = 0
  <2>1. \A p \in DOMAIN c : u(p) = 0
    BY <1>5, <1>6
  <2>2. ASSUME NEW j \in DOMAIN cs, x(j).ent # 0 PROVE FALSE
    <3>1. j < Len(cs) /\ x(j) = x(Len(cs)) /\ Len(cs) \in DOMAIN cs
      BY <1>1, <1>3, <2>1, <2>2
    <3> QED
      BY <1>1, <1>3, <2>1, <2>2, <3>1
  <2> QED
    BY <1>4, <1>6, <2>2 DEF i, entry
<1>7. CASE i # 0
  <2>1. PICK p \in DOMAIN c : u(p) = i /\ \A q \in 1 .. p - 1 : u(q) = 0
    BY <1>5, <1>7
  <2>2. x(p).ent # 0 /\ Stands(i, x(p))
    BY <1>1, <1>2, <1>7, <2>1
  <2>3. PICK j \in DOMAIN cs : x(j) = entry /\ x(j).ent # 0 /\ \A k \in 1 .. j - 1 : x(k).ent = 0
    BY <1>1, <1>4, <2>1, <2>2
  <2>4. j <= p
    BY <1>1, <2>1, <2>2, <2>3
  <2>5. CASE j = p
    BY <1>7, <2>2, <2>3, <2>5 DEF i, entry
  <2>6. CASE j < p
    <3>1. u(j) = 0
      BY <1>1, <2>1, <2>6
    <3>2. j < Len(cs) /\ x(j) = x(Len(cs)) /\ \A k \in j .. Len(cs) - 1 : u(k) = 0
      BY <1>3, <2>3, <3>1
    <3>3. p = Len(cs)
      BY <1>1, <1>7, <2>1, <2>6, <3>2
    <3> QED
      BY <1>7, <2>2, <2>3, <3>2, <3>3 DEF i, entry
  <2> QED
    BY <1>1, <2>4, <2>5, <2>6
<1> QED
  BY <1>6, <1>7

\* A name, in a member list.
LEMMA NameAtList ==
  ASSUME TablesOK, ChainsOK, UsualOK, NEW r \in DOMAIN scopes, NEW b, b \in Within[r],
         NEW n \in Names
  PROVE  \/ FindUsual(r, n) = FindUsual(b, n)
         \/ FindUsual(r, n) # 0 /\ IsInStruct(FindUsual(r, n))
<1> DEFINE c == scopes[r].chain
           e == scopes[b].chain
           u(s) == scopes[s].usual[n]
           i == FindUsual(r, n)
           k == FindUsual(b, n)
<1>0. PICK m \in DOMAIN c : WayFrom(m, c, e)
  BY WayOut
<1>1. /\ \A p \in 1 .. m - 1 : c[p] \in ListScopes
      /\ \A p \in DOMAIN c : p >= m => p - m + 1 \in DOMAIN e /\ e[p - m + 1] = c[p]
      /\ \A q \in DOMAIN e : m + q - 1 \in DOMAIN c /\ e[q] = c[m + q - 1]
  BY <1>0 DEF WayFrom
<1>2. b \in DOMAIN scopes /\ DOMAIN c = 1 .. Len(c) /\ Len(c) \in Nat
      /\ DOMAIN e = 1 .. Len(e) /\ Len(e) \in Nat
      /\ \A p \in DOMAIN c : c[p] \in DOMAIN scopes
  BY WayOut, Chains
<1>3. \/ i = 0 /\ \A p \in DOMAIN c : u(c[p]) = 0
      \/ i # 0 /\ \E p \in DOMAIN c : u(c[p]) = i /\ \A q \in 1 .. p - 1 : u(c[q]) = 0
  BY UsualFound
<1>4. \/ k = 0 /\ \A p \in DOMAIN e : u(e[p]) = 0
      \/ k # 0 /\ \E p \in DOMAIN e : u(e[p]) = k /\ \A q \in 1 .. p - 1 : u(e[q]) = 0
  BY <1>2, UsualFound
<1>5. ASSUME NEW s \in DOMAIN scopes, s \in ListScopes, u(s) # 0 PROVE IsInStruct(u(s))
  BY <1>5 DEF UsualOK, UsualAt, IsInStruct, ListScopes
<1> HIDE DEF c, e, u, i, k
<1>6. CASE i = 0
  <2>1. \A q \in DOMAIN e : u(e[q]) = 0
    BY <1>1, <1>3, <1>6
  <2> QED
    BY <1>4, <1>6, <2>1 DEF i, k
<1>7. CASE i # 0
  <2>1. PICK p \in DOMAIN c : u(c[p]) = i /\ \A q \in 1 .. p - 1 : u(c[q]) = 0
    BY <1>3, <1>7
  <2>2. CASE p < m
    <3>1. p \in 1 .. m - 1 /\ c[p] \in DOMAIN scopes
      BY <1>2, <2>2
    <3>2. IsInStruct(u(c[p]))
      BY <1>1, <1>5, <1>7, <2>1, <3>1
    <3> QED
      BY <1>7, <2>1, <3>2 DEF i
  <2>3. CASE p >= m
    <3> DEFINE q == p - m + 1
    <3>1. q \in DOMAIN e /\ u(e[q]) = i /\ q \in Nat
      BY <1>1, <1>2, <2>1, <2>3
    <3>2. ASSUME NEW v \in 1 .. q - 1 PROVE u(e[v]) = 0
      <4>1. v \in DOMAIN e /\ m + v - 1 \in 1 .. p - 1
        BY <1>2, <3>1
      <4> QED
        BY <1>1, <2>1, <4>1
    <3> HIDE DEF q
    <3>3. k # 0
      BY <1>4, <1>7, <3>1
    <3>4. PICK w \in DOMAIN e : u(e[w]) = k /\ \A v \in 1 .. w - 1 : u(e[v]) = 0
      BY <1>4, <3>3
    <3>5. w = q
      <4>1. w \in Nat /\ w >= 1 /\ q >= 1
        BY <1>2, <3>1
      <4>2. ~(w < q)
        BY <3>1, <3>2, <3>3, <3>4, <4>1
      <4>3. ~(q < w)
        BY <1>7, <3>1, <3>4, <4>1
      <4> QED
        BY <3>1, <4>1, <4>2, <4>3
    <3> QED
      BY <3>1, <3>4, <3>5 DEF i, k
  <2> QED
    BY <1>2, <2>2, <2>3
<1> QED
  BY <1>6, <1>7

\* Where the scopes of the open lists are.
LEMMA ListsAround ==
  ASSUME TablesOK, StackOK, CTablesOK, OpenListsOK
  PROVE  /\ Lists \in Nat /\ Around \in DOMAIN scopes /\ Around \notin ListScopes
         /\ \A k \in 1 .. Lists + 1 : ScopeAt(k) \in DOMAIN scopes
         /\ \A k \in 1 .. Lists : ScopeAt(k) \in ListScopes
         /\ \A k \in 1 .. Lists + 1 : \A j \in k .. Lists + 1 : ScopeAt(j) \in Within[ScopeAt(k)]
         /\ scope = ScopeAt(1) /\ (Lists = 0 => Around = scope)
<1>1. Lists \in Nat /\ Lists <= Len(open) /\ Around \notin ListScopes
  BY DEF CTablesOK, OpenListsOK, Lists
<1>2. scope = ScopeAt(1) /\ (Lists = 0 => Around = scope)
  BY DEF ScopeAt, Around
<1>3. \A k \in 1 .. Lists + 1 : ScopeAt(k) \in DOMAIN scopes
  <2> TAKE k \in 1 .. Lists + 1
  <2>1. CASE k = 1
    BY <2>1 DEF ScopeAt, StackOK
  <2>2. CASE k # 1
    <3>1. open \in Seq(OpenType) /\ k - 1 \in 1 .. Len(open)
      BY <1>1, <2>2 DEF StackOK
    <3>2. k - 1 \in DOMAIN open
      <4> HIDE DEF OpenType
      <4> QED
        BY <3>1
    <3> QED
      BY <2>2, <3>2 DEF ScopeAt, StackOK, ScopeRestored
  <2> QED
    BY <2>1, <2>2
<1>4. Around \in DOMAIN scopes
  BY <1>1, <1>3 DEF Around
<1>5. \A k \in 1 .. Lists : open[k].type \in DOMAIN types
  <2> TAKE k \in 1 .. Lists
  <2>1. k \in 1 .. Len(open) /\ open \in Seq(OpenType)
    BY <1>1 DEF StackOK
  <2>2. k \in DOMAIN open
    <3> HIDE DEF OpenType
    <3> QED
      BY <2>1
  <2> QED
    BY <1>1, <2>2 DEF OpenListsOK, StackOK, OpenOK
<1>6. \A k \in 1 .. Lists : ScopeAt(k) \in ListScopes
  BY <1>5 DEF OpenListsOK, OpenList, ListScopes
<1>7. \A k \in 1 .. Lists + 1 : \A j \in k .. Lists + 1 : ScopeAt(j) \in Within[ScopeAt(k)]
  <2> TAKE k \in 1 .. Lists + 1
  <2> TAKE j \in k .. Lists + 1
  <2>1. CASE k = Lists + 1
    <3>1. j = k
      BY <1>1, <2>1
    <3> QED
      BY <1>3, <3>1, InsideSelf
  <2>2. CASE k # Lists + 1
    <3>1. k \in 1 .. Lists
      BY <1>1, <2>2
    <3> QED
      BY <3>1 DEF OpenListsOK, OpenList
  <2> QED
    BY <2>1, <2>2
<1> QED
  BY <1>1, <1>2, <1>3, <1>4, <1>6, <1>7

\* A tag, where the parser is.
LEMMA TagAtScope ==
  ASSUME TablesOK, StackOK, Coupled, NEW t \in Tags
  PROVE  LET i == FindTag(scope, t)
             e == VisibleTag(cscopes, t)
         IN  \/ i = 0 /\ e = 0
             \/ i # 0 /\ e # 0 /\ i \in DOMAIN idents /\ idents[i].kind = "tag" /\ stands[i] = e
<1> DEFINE c == scopes[scope].chain
           d == scopes[Around].chain
           g(s) == scopes[s].tags[t]
           x(j) == cscopes[j].tags[t]
           i == FindTag(scope, t)
           e == VisibleTag(cscopes, t)
<1>1. /\ ChainsOK /\ OpenListsOK /\ CTablesOK /\ NamesOK(Around, cscopes)
      /\ TagsOK(Around, cscopes) /\ StandsOK
  BY DEF Coupled
<1>2. /\ scope \in DOMAIN scopes /\ Around \in DOMAIN scopes /\ Around \in Within[scope]
      /\ Around \notin ListScopes /\ Lists \in Nat
      /\ \A k \in 1 .. Lists : ScopeAt(k) \in Within[scope] /\ ScopeAt(k) \in ListScopes
  <2>1. 1 \in 1 .. Lists + 1 /\ Lists + 1 \in 1 .. Lists + 1 /\ Lists \in Nat
    BY <1>1, ListsAround
  <2>2. \A k \in 1 .. Lists + 1 : ScopeAt(k) \in Within[ScopeAt(1)]
    BY <1>1, <2>1, ListsAround
  <2> QED
    BY <1>1, <2>1, <2>2, ListsAround DEF Around
<1>3. PICK m \in DOMAIN c : WayFrom(m, c, d)
  BY <1>1, <1>2, WayOut
<1>4. /\ DOMAIN c = 1 .. Len(c) /\ Len(c) \in Nat /\ m \in Nat
      /\ DOMAIN d = 1 .. Len(d) /\ Len(d) \in Nat /\ d[1] = Around
      /\ Len(cscopes) = Len(d) /\ DOMAIN cscopes = DOMAIN d /\ 1 \in DOMAIN d
      /\ cscopes \in Seq(CScopeType)
      /\ \A p \in DOMAIN c : c[p] \in DOMAIN scopes
  <2>1. Len(d) = Len(cscopes) /\ cscopes \in Seq(CScopeType)
    BY <1>1 DEF NamesOK, CTablesOK
  <2>2. DOMAIN cscopes = 1 .. Len(cscopes)
    BY <2>1
  <2> QED
    BY <1>2, <2>1, <2>2, Chains
<1>5. \A p \in 1 .. m - 1 : /\ g(c[p]) # 0 => stands[g(c[p])] = x(1)
  <2> TAKE p \in 1 .. m - 1
  <2>0. p \in 1 .. m /\ m \in DOMAIN scopes[scope].chain
    BY <1>3, <1>4
  <2>1. d[1] \in Within[c[p]]
    BY <1>1, <1>2, <1>3, <1>4, <2>0, WayWithin
  <2>2. c[p] \in DOMAIN scopes
    BY <1>4, <2>0
  <2> QED
    BY <1>1, <1>4, <2>1, <2>2 DEF TagsOK
<1>6. \A j \in DOMAIN d : g(d[j]) # 0 => stands[g(d[j])] = x(j)
  <2> TAKE j \in DOMAIN d
  <2>1. d[j] \in DOMAIN scopes /\ d[j] \in Within[d[j]]
    BY <1>2, Chains, InsideSelf
  <2> QED
    BY <1>1, <1>4, <2>1 DEF TagsOK
<1>7. \A p \in DOMAIN c : g(c[p]) # 0 =>
         g(c[p]) \in DOMAIN idents /\ idents[g(c[p])].kind = "tag" /\ stands[g(c[p])] # 0
  <2> TAKE p \in DOMAIN c
  <2>1. g(c[p]) # 0 => g(c[p]) \in DOMAIN idents /\ idents[g(c[p])].kind = "tag"
    BY <1>1, <1>4 DEF TablesOK, EntriesOK, EntriesOf
  <2>2. \A w \in DOMAIN idents : idents[w].kind = "tag" => stands[w] # 0
    BY <1>1 DEF StandsOK, StandOK
  <2> QED
    BY <2>1, <2>2
<1>8. \A k \in 1 .. Lists : \E p \in 1 .. m - 1 : c[p] = ScopeAt(k)
  <2> TAKE k \in 1 .. Lists
  <2>1. PICK p \in DOMAIN c : c[p] = ScopeAt(k) /\ \A q \in 1 .. p - 1 : c[q] \in ListScopes
    BY <1>2, InsideAt
  <2>2. c[m] = Around
    <3>1. d[1] = c[m + 1 - 1]
      BY <1>3, <1>4 DEF WayFrom
    <3>2. m + 1 - 1 = m
      BY <1>4
    <3> QED
      BY <1>4, <3>1, <3>2
  <2> HIDE DEF c
  <2>3. ~(m < p) /\ m # p
    BY <1>2, <1>4, <2>1, <2>2
  <2>4. p \in 1 .. m - 1
    BY <1>4, <2>1, <2>3
  <2> QED
    BY <2>1, <2>4
<1>9. \A j \in DOMAIN d : x(j) # 0 =>
         \/ g(d[j]) # 0
         \/ j = 1 /\ \E p \in 1 .. m - 1 : g(c[p]) # 0
  <2> TAKE j \in DOMAIN d
  <2>1. x(j) # 0 => \/ g(d[j]) # 0
                    \/ j = 1 /\ \E k \in 1 .. Lists : g(ScopeAt(k)) # 0
    BY <1>1, <1>4 DEF TagsOK
  <2> QED
    BY <1>8, <2>1
<1>10. \/ i = 0 /\ \A p \in DOMAIN c : g(c[p]) = 0
       \/ i # 0 /\ \E p \in DOMAIN c : g(c[p]) = i /\ \A q \in 1 .. p - 1 : g(c[q]) = 0
  BY <1>2, TagsFound
<1>11. \/ e = 0 /\ \A j \in DOMAIN d : x(j) = 0
       \/ e # 0 /\ \E j \in DOMAIN d : x(j) = e /\ \A k \in 1 .. j - 1 : x(k) = 0
  BY <1>4, VisibleTagFound
<1>12. /\ \A p \in DOMAIN c : p >= m => p - m + 1 \in DOMAIN d /\ d[p - m + 1] = c[p]
       /\ \A q \in DOMAIN d : m + q - 1 \in DOMAIN c /\ d[q] = c[m + q - 1]
  BY <1>3 DEF WayFrom
<1> HIDE DEF c, d, g, x, i, e
<1>13. CASE i = 0
  <2>1. \A p \in DOMAIN c : g(c[p]) = 0
    BY <1>10, <1>13
  <2>2. \A j \in DOMAIN d : x(j) = 0
    <3> TAKE j \in DOMAIN d
    <3>1. g(d[j]) = 0
      BY <1>12, <2>1
    <3>2. \A p \in 1 .. m - 1 : g(c[p]) = 0
      BY <1>3, <1>4, <2>1
    <3> QED
      BY <1>9, <3>1, <3>2
  <2> QED
    BY <1>11, <1>13, <2>2 DEF i, e
<1>14. CASE i # 0
  <2>1. PICK p \in DOMAIN c : g(c[p]) = i /\ \A q \in 1 .. p - 1 : g(c[q]) = 0
    BY <1>10, <1>14
  <2>2. i \in DOMAIN idents /\ idents[i].kind = "tag" /\ stands[i] # 0
    BY <1>7, <1>14, <2>1
  <2> SUFFICES e # 0 /\ stands[i] = e
    BY <1>14, <2>2 DEF i, e
  <2>3. CASE p < m
    <3>1. stands[i] = x(1)
      BY <1>4, <1>5, <1>14, <2>1, <2>3
    <3>2. e # 0
      BY <1>4, <1>11, <2>2, <3>1
    <3>3. PICK j \in DOMAIN d : x(j) = e /\ \A k \in 1 .. j - 1 : x(k) = 0
      BY <1>11, <3>2
    <3>4. j = 1
      BY <1>4, <2>2, <3>1, <3>3
    <3> QED
      BY <3>1, <3>2, <3>3, <3>4
  <2>4. CASE p >= m
    <3> DEFINE v == p - m + 1
    <3>1. v \in DOMAIN d /\ d[v] = c[p]
      BY <1>12, <2>1, <2>4
    <3>2. stands[i] = x(v)
      BY <1>6, <1>14, <2>1, <3>1
    <3>3. \A j \in 1 .. v - 1 : x(j) = 0
      <4> TAKE j \in 1 .. v - 1
      <4>1. j \in DOMAIN d /\ m + j - 1 \in 1 .. p - 1
        BY <1>4, <2>4, <3>1
      <4>2. g(d[j]) = 0
        BY <1>12, <2>1, <4>1
      <4>3. \A q \in 1 .. m - 1 : g(c[q]) = 0
        BY <1>4, <2>1, <2>4
      <4> QED
        BY <1>9, <4>1, <4>2, <4>3
    <3> HIDE DEF v
    <3>4. e # 0
      BY <1>11, <2>2, <3>1, <3>2
    <3>5. PICK j \in DOMAIN d : x(j) = e /\ \A k \in 1 .. j - 1 : x(k) = 0
      BY <1>11, <3>4
    <3>6. j = v
      <4>1. j \in Nat /\ v \in Nat /\ j >= 1 /\ v >= 1
        BY <1>4, <3>1, <3>5
      <4>2. ~(j < v)
        BY <3>3, <3>4, <3>5, <4>1
      <4>3. ~(v < j)
        BY <2>2, <3>2, <3>5, <4>1
      <4> QED
        BY <4>1, <4>2, <4>3
    <3> QED
      BY <3>2, <3>4, <3>5, <3>6
  <2> QED
    BY <1>4, <2>1, <2>3, <2>4
<1> QED
  BY <1>13, <1>14

\* The correspondence is enough for what is to be shown of lookups.
LEMMA CoupledLookup ==
  ASSUME SInv, Coupled
  PROVE  /\ \A n \in Names : NameAgrees(n)
         /\ \A t \in Tags : TagAgrees(t)
<1>1. /\ TablesOK /\ StackOK
  BY DEF SInv
<1>2. /\ ChainsOK /\ OpenListsOK /\ CTablesOK /\ NamesOK(Around, cscopes)
      /\ StandsOK /\ UsualOK
  BY DEF Coupled
<1>3. /\ scope \in DOMAIN scopes /\ Around \in DOMAIN scopes /\ Around \in Within[scope]
  <2>1. 1 \in 1 .. Lists + 1 /\ Lists + 1 \in 1 .. Lists + 1
    BY <1>1, <1>2, ListsAround
  <2> QED
    BY <1>1, <1>2, <2>1, ListsAround DEF Around
<1>4. cscopes \in Seq(CScopeType)
  BY <1>2 DEF CTablesOK
<1>5. ASSUME NEW n \in Names PROVE NameAgrees(n)
  <2>1. \/ FindUsual(scope, n) = FindUsual(Around, n)
        \/ FindUsual(scope, n) # 0 /\ IsInStruct(FindUsual(scope, n))
    BY <1>1, <1>2, <1>3, NameAtList
  <2>2. \/ FindUsual(Around, n) = 0 /\ Visible(cscopes, n).ent = 0
        \/ FindUsual(Around, n) # 0 /\ Stands(FindUsual(Around, n), Visible(cscopes, n))
    BY <1>1, <1>2, <1>3, <1>4, NameAtBlock
  <2> QED
    BY <2>1, <2>2 DEF NameAgrees, Stands
<1>6. ASSUME NEW t \in Tags PROVE TagAgrees(t)
  <2> DEFINE i == FindTag(scope, t)
             e == VisibleTag(cscopes, t)
  <2>1. \/ i = 0 /\ e = 0
        \/ i # 0 /\ e # 0 /\ i \in DOMAIN idents /\ idents[i].kind = "tag" /\ stands[i] = e
    BY <1>1, TagAtScope
  <2>2. i # 0 =>
          /\ (idents[i].ty.k = "struct") = (ents[e].kind = "struct")
          /\ idents[i].ty.k = "struct" =>
               types[idents[i].ty.n].complete = (ents[e].def = "yes")
    BY <1>2, <2>1 DEF StandsOK, StandOK, TypeOf
  <2> QED
    BY <2>1, <2>2 DEF TagAgrees
<1> QED
  BY <1>5, <1>6

---------------------------------------------------------------------------
(* A scope of kcc and the scopes of C that correspond to it.                 *)

At(s, cs) ==
  /\ s \in DOMAIN scopes /\ s \notin ListScopes
  /\ cs \in Seq(CScopeType) /\ cs # <<>>
  /\ NamesOK(s, cs) /\ TagsOK(s, cs) /\ LinkedAt(cs)
  /\ \A j \in DOMAIN cs : InRange(cs[j])

\* Around the lists, they correspond.
LEMMA AtAround ==
  ASSUME TablesOK, StackOK, Coupled
  PROVE  At(Around, cscopes)
BY ListsAround DEF Coupled, At, CTablesOK, LinkedOK, RangesOK

\* They are as many.
LEMMA AtDomains ==
  ASSUME TablesOK, NEW s, NEW cs, At(s, cs)
  PROVE  LET c == scopes[s].chain
         IN  /\ Len(cs) \in Nat /\ Len(cs) >= 1 /\ DOMAIN cs = 1 .. Len(cs)
             /\ Len(c) = Len(cs) /\ DOMAIN c = 1 .. Len(cs)
             /\ c[1] = s /\ \A j \in 1 .. Len(cs) : c[j] \in DOMAIN scopes /\ cs[j] \in CScopeType
<1>1. /\ cs \in Seq(CScopeType) /\ cs # <<>> /\ s \in DOMAIN scopes
      /\ Len(scopes[s].chain) = Len(cs)
  BY DEF At, NamesOK
<1>2. /\ Len(cs) \in Nat /\ Len(cs) >= 1 /\ DOMAIN cs = 1 .. Len(cs)
      /\ \A j \in 1 .. Len(cs) : cs[j] \in CScopeType
  <2> HIDE DEF CScopeType
  <2> QED
    BY <1>1
<1> QED
  BY <1>1, <1>2, Chains

\* Outside a member list, a scope that is not the file's has a parent.
LEMMA AtParent ==
  ASSUME TablesOK, StackOK, Coupled, Lists = 0, open # <<>>
  PROVE  LET s == Parent(scope)
             cs == Tail(cscopes)
         IN  /\ At(s, cs) /\ s = ScopeAt(2) /\ s # scope
             /\ Len(cscopes) = Len(cs) + 1
             /\ \A j \in DOMAIN cs : cs[j] = cscopes[j + 1]
<1> DEFINE s == Parent(scope)
           cs == Tail(cscopes)
           c == scopes[scope].chain
           e == scopes[s].chain
<1>1. At(scope, cscopes) /\ scope \in DOMAIN scopes /\ ChainsOK /\ OpenListsOK
      /\ StackOK /\ cscopes \in Seq(CScopeType)
  BY AtAround, ListsAround DEF Coupled, CTablesOK
<1>2. 1 \in DOMAIN open /\ open[1].what # "struct" /\ open \in Seq(OpenType)
  <2>1. open \in Seq(OpenType)
    BY DEF StackOK
  <2>2. 1 \in DOMAIN open
    <3> HIDE DEF OpenType
    <3> QED
      BY <2>1
  <2> QED
    BY <1>1, <2>1, <2>2 DEF OpenListsOK
<1>3. scopes[scope].type # "file" /\ s = ScopeAt(2)
  BY <1>2 DEF StackOK, ScopeRestored, ScopeAt
<1>4. /\ Len(cscopes) \in Nat /\ DOMAIN cscopes = 1 .. Len(cscopes) /\ Len(c) = Len(cscopes)
      /\ DOMAIN c = 1 .. Len(c) /\ c[1] = scope /\ \A j \in DOMAIN c : c[j] \in DOMAIN scopes
      /\ Len(cscopes) >= 1
  BY <1>1, AtDomains
<1>5. Len(c) # 1
  <2>0. 1 \in DOMAIN c
    BY <1>4
  <2>1. (scopes[c[1]].type = "file") = (1 = Len(c))
    BY <1>1, <2>0, Rest
  <2> QED
    BY <1>3, <1>4, <2>1
<1>6. /\ Len(cs) = Len(cscopes) - 1 /\ DOMAIN cs = 1 .. Len(cs) /\ cs # <<>>
      /\ \A j \in DOMAIN cs : cs[j] = cscopes[j + 1]
      /\ cs \in Seq(CScopeType)
  <2>1. cscopes # <<>> /\ Len(cscopes) # 1
    BY <1>4, <1>5
  <2> HIDE DEF c, CScopeType
  <2>2. /\ cs \in Seq(CScopeType) /\ Len(cs) = Len(cscopes) - 1
        /\ \A j \in 1 .. Len(cs) : cs[j] = cscopes[j + 1]
    BY <1>1, <2>1, HeadTailProperties
  <2> HIDE DEF cs
  <2>3. DOMAIN cs = 1 .. Len(cs)
    BY <2>2
  <2>4. cs # <<>>
    BY <1>4, <2>1, <2>2
  <2> QED
    BY <2>2, <2>3, <2>4
<1>7. /\ s \in DOMAIN scopes /\ Len(e) = Len(c) - 1 /\ DOMAIN e = 1 .. Len(e)
      /\ \A j \in DOMAIN e : e[j] = c[j + 1]
      /\ s \notin ListScopes
  <2>1. 2 \in DOMAIN c /\ s = c[2]
    BY <1>4, <1>5 DEF Parent
  <2>2. scope \notin ListScopes
    BY <1>1 DEF At
  <2>3. /\ s \in DOMAIN scopes /\ Len(e) = Len(c) - 2 + 1
        /\ \A q \in 1 .. Len(e) : e[q] = c[2 + q - 1]
        /\ s \notin ListScopes
    <3>1. TablesOK /\ ChainsOK /\ scope \in DOMAIN scopes /\ 2 \in DOMAIN scopes[scope].chain
      BY <1>1, <2>1
    <3> QED
      BY <2>1, <2>2, <3>1, Rest
  <2>4. DOMAIN e = 1 .. Len(e)
    BY <2>3, Chains
  <2> HIDE DEF c, e, s
  <2>5. \A j \in DOMAIN e : 2 + j - 1 = j + 1
    BY <2>4
  <2> QED
    BY <1>4, <2>3, <2>4, <2>5
<1> HIDE DEF c, e, s, cs
<1>8. \A j \in DOMAIN cs : j \in DOMAIN e /\ j + 1 \in DOMAIN cscopes /\ j + 1 \in DOMAIN c
  BY <1>4, <1>6, <1>7
<1>9. s # scope
  <2>1. s = scope => e = c
    BY DEF e, c
  <2> QED
    BY <1>4, <1>7, <2>1
<1>10. \A n \in Names : FileEntry(cs, n) = FileEntry(cscopes, n)
  <2>1. Len(cs) \in DOMAIN cs /\ Len(cs) + 1 = Len(cscopes)
    BY <1>4, <1>5, <1>6
  <2> QED
    BY <1>6, <2>1 DEF FileEntry
<1>11. NamesOK(s, cs)
  <2>1. Len(e) = Len(cs)
    BY <1>4, <1>6, <1>7
  <2>2. ASSUME NEW j \in DOMAIN cs, NEW n \in Names
        PROVE  LET i == scopes[e[j]].usual[n]
               IN  IF i # 0 THEN Stands(i, cs[j].names[n])
                   ELSE cs[j].names[n].ent = 0 \/ Extern(s, cs, j, n)
    <3> DEFINE k == j + 1
               i == scopes[c[k]].usual[n]
    <3>1. k \in DOMAIN cscopes /\ e[j] = c[k] /\ cs[j] = cscopes[k] /\ j \in Nat
      BY <1>6, <1>7, <1>8
    <3>2. IF i # 0 THEN Stands(i, cscopes[k].names[n])
          ELSE cscopes[k].names[n].ent = 0 \/ Extern(scope, cscopes, k, n)
      BY <1>1, <3>1 DEF At, NamesOK, c
    <3>3. ASSUME Extern(scope, cscopes, k, n) PROVE Extern(s, cs, j, n)
      <4>1. /\ k < Len(cscopes) /\ scopes[c[k]].type = "block"
            /\ cscopes[k].names[n] = FileEntry(cscopes, n)
            /\ LinkageOf(cscopes[k].names[n].ent) # "none"
            /\ \A p \in k .. Len(cscopes) - 1 : scopes[c[p]].usual[n] = 0
        BY <3>3 DEF Extern, c
      <4> HIDE DEF k, i
      <4>2. \A p \in j .. Len(cs) - 1 : scopes[e[p]].usual[n] = 0
        <5> TAKE p \in j .. Len(cs) - 1
        <5>1. p \in DOMAIN e /\ p + 1 \in k .. Len(cscopes) - 1
          BY <1>4, <1>6, <1>7, <3>1 DEF k
        <5> QED
          BY <1>7, <4>1, <5>1
      <4>3. j < Len(cs)
        BY <1>4, <1>6, <3>1, <4>1 DEF k
      <4> QED
        BY <1>10, <3>1, <4>1, <4>2, <4>3 DEF Extern, e
    <3> QED
      BY <3>1, <3>2, <3>3
  <2> QED
    BY <2>1, <2>2 DEF NamesOK, e
<1>12. TagsOK(s, cs)
  <2>1. ASSUME NEW j \in DOMAIN cs, NEW t \in Tags
        PROVE  /\ \A r \in DOMAIN scopes :
                    e[j] \in Within[r] /\ scopes[r].tags[t] # 0 =>
                      stands[scopes[r].tags[t]] = cs[j].tags[t]
               /\ cs[j].tags[t] # 0 => scopes[e[j]].tags[t] # 0
    <3> DEFINE k == j + 1
    <3>1. k \in DOMAIN cscopes /\ e[j] = c[k] /\ cs[j] = cscopes[k] /\ j \in Nat
      BY <1>6, <1>7, <1>8
    <3> HIDE DEF k
    <3>2. /\ \A r \in DOMAIN scopes :
               c[k] \in Within[r] /\ scopes[r].tags[t] # 0 =>
                 stands[scopes[r].tags[t]] = cscopes[k].tags[t]
          /\ cscopes[k].tags[t] # 0 =>
               scopes[c[k]].tags[t] # 0 \/ \E p \in 1 .. Lists : scopes[ScopeAt(p)].tags[t] # 0
      BY <1>1, <3>1 DEF At, TagsOK, c
    <3>3. 1 .. Lists = {}
      OBVIOUS
    <3> QED
      BY <3>1, <3>2, <3>3
  <2> QED
    BY <2>1 DEF TagsOK, e
<1>13. LinkedAt(cs)
  BY <1>1, <1>10 DEF At, LinkedAt
<1>14. \A j \in DOMAIN cs : InRange(cs[j])
  BY <1>1, <1>6, <1>8 DEF At
<1>15. At(s, cs)
  BY <1>6, <1>7, <1>11, <1>12, <1>13, <1>14 DEF At
<1>16. Len(cscopes) = Len(cs) + 1
  BY <1>4, <1>6
<1> QED
  BY <1>3, <1>6, <1>9, <1>15, <1>16 DEF s, cs

---------------------------------------------------------------------------
(* What is known of a name that is declared at scope s.                      *)

\* i is the identifier of the entry.
IdentFor(i, entry) ==
  /\ i # 0 /\ i \in DOMAIN idents /\ Stands(i, entry)
  /\ idents[i].linkage = LinkageOf(entry.ent)

\* The entry is for an entity of that name.
EntryOf(entry, n) ==
  entry.ent # 0 =>
    /\ entry.ent \in DOMAIN ents /\ ents[entry.ent].name = n
    /\ LinkageOf(entry.ent) = ents[entry.ent].linkage
    /\ LinkageOf(entry.ent) # "none" => entry.ent \in Linked(n)

\* The name is known in this scope, here and around.
KnownHere(s, cs, n) ==
  LET here == scopes[s].usual[n]
      entry == cs[1].names[n]
  IN  /\ here # 0 => IdentFor(here, entry)
      /\ here = 0 /\ entry.ent # 0 => ~AtFile(cs) /\ LinkageOf(entry.ent) # "none"
      /\ here # 0 /\ ~AtFile(cs) => LinkageOf(entry.ent) = "none"
      /\ EntryOf(entry, n)
      /\ entry.ent # 0 => Visible(cs, n) = entry

KnownAround(s, cs, n) ==
  LET i == FindUsual(s, n)
      entry == Visible(cs, n)
  IN  /\ \/ i = 0 /\ entry.ent = 0
         \/ IdentFor(i, entry)
      /\ EntryOf(entry, n)
      /\ AtFile(cs) => i = scopes[s].usual[n]
      /\ LinkageOf(entry.ent) # "none" =>
           /\ entry = FileEntry(cs, n)
           /\ ~AtFile(cs) => \A k \in 1 .. Len(cs) - 1 : scopes[scopes[s].chain[k]].usual[n] = 0

KnownLinked(cs, n) ==
  LET file == FileEntry(cs, n)
  IN  Linked(n) # {} =>
        /\ Linked(n) = {file.ent} /\ file.ent \in DOMAIN ents /\ file.ent # 0
        /\ ents[file.ent].ty = file.ty /\ ents[file.ent].linkage # "none"

\* What an entry of kcc stands for.
LEMMA IdentStands ==
  ASSUME TablesOK, Coupled, NEW s \in DOMAIN scopes, NEW n \in Names, NEW entry,
         scopes[s].usual[n] # 0, Stands(scopes[s].usual[n], entry)
  PROVE  IdentFor(scopes[s].usual[n], entry)
<1> DEFINE i == scopes[s].usual[n]
<1>1. i \in DOMAIN idents
  BY Domains, LookUp
<1>2. StandOK(i)
  BY <1>1 DEF Coupled, StandsOK
<1> QED
  BY <1>1, <1>2 DEF IdentFor, Stands, StandOK

\* What an entry of C is for.
LEMMA EntriesIn ==
  ASSUME Coupled, NEW cs \in Seq(CScopeType), NEW j \in DOMAIN cs, InRange(cs[j]), NEW n \in Names
  PROVE  EntryOf(cs[j].names[n], n)
<1> DEFINE e == cs[j].names[n].ent
<1>1. ASSUME e # 0 PROVE e \in DOMAIN ents /\ ents[e].name = n
  BY <1>1 DEF InRange
<1>2. ASSUME e # 0, LinkageOf(e) # "none" PROVE e \in Linked(n)
  BY <1>1, <1>2 DEF LinkageOf, Linked
<1> QED
  BY <1>1, <1>2 DEF EntryOf, LinkageOf

\* The three hold wherever the scopes correspond.
LEMMA NameHere ==
  ASSUME TablesOK, Coupled, NEW s, NEW cs, At(s, cs), NEW n \in Names
  PROVE  KnownHere(s, cs, n) /\ IsFileScope(s) = AtFile(cs)
<1> DEFINE here == scopes[s].usual[n]
           entry == cs[1].names[n]
           c == scopes[s].chain
<1>1. /\ Len(cs) \in Nat /\ Len(cs) >= 1 /\ DOMAIN cs = 1 .. Len(cs) /\ Len(c) = Len(cs)
      /\ c[1] = s /\ 1 \in DOMAIN c /\ 1 \in DOMAIN cs
  BY AtDomains
<1>2. s \in DOMAIN scopes /\ NamesOK(s, cs) /\ cs \in Seq(CScopeType) /\ InRange(cs[1])
  BY <1>1 DEF At
<1>3. ChainsOK /\ UsualOK
  BY DEF Coupled
<1>4. IsFileScope(s) = AtFile(cs)
  <2>1. (scopes[c[1]].type = "file") = (1 = Len(c))
    BY <1>1, <1>2, <1>3, Rest
  <2> QED
    BY <1>1, <2>1 DEF IsFileScope, AtFile
<1>5. IF here # 0 THEN Stands(here, entry) ELSE entry.ent = 0 \/ Extern(s, cs, 1, n)
  BY <1>1, <1>2 DEF NamesOK
<1>6. here # 0 => IdentFor(here, entry)
  BY <1>2, <1>5, IdentStands
<1>7. ASSUME here = 0, entry.ent # 0 PROVE ~AtFile(cs) /\ LinkageOf(entry.ent) # "none"
  <2>1. Extern(s, cs, 1, n)
    BY <1>5, <1>7
  <2> QED
    BY <1>1, <2>1 DEF Extern, AtFile
<1>8. ASSUME here # 0, ~AtFile(cs) PROVE LinkageOf(entry.ent) = "none"
  BY <1>2, <1>3, <1>4, <1>6, <1>8 DEF UsualOK, UsualAt, IsFileScope, IdentFor
<1>9. EntryOf(entry, n)
  BY <1>1, <1>2, EntriesIn
<1>10. ASSUME entry.ent # 0 PROVE Visible(cs, n) = entry
  <2> DEFINE v == Visible(cs, n)
  <2>1. \/ v.ent = 0 /\ \A j \in DOMAIN cs : cs[j].names[n].ent = 0
        \/ v.ent # 0 /\ \E j \in DOMAIN cs : /\ cs[j].names[n] = v
                                             /\ \A k \in 1 .. j - 1 : cs[k].names[n].ent = 0
    BY <1>2, VisibleFound
  <2> HIDE DEF v
  <2>2. PICK j \in DOMAIN cs : cs[j].names[n] = v /\ \A k \in 1 .. j - 1 : cs[k].names[n].ent = 0
    BY <1>1, <1>10, <2>1
  <2>3. j = 1
    BY <1>1, <1>10, <2>2
  <2> QED
    BY <2>2, <2>3 DEF v
<1> QED
  BY <1>4, <1>6, <1>7, <1>8, <1>9, <1>10 DEF KnownHere

LEMMA NameAround ==
  ASSUME TablesOK, Coupled, NEW s, NEW cs, At(s, cs), NEW n \in Names
  PROVE  KnownAround(s, cs, n)
<1> DEFINE i == FindUsual(s, n)
           entry == Visible(cs, n)
           c == scopes[s].chain
           u(j) == scopes[c[j]].usual[n]
<1>1. /\ Len(cs) \in Nat /\ Len(cs) >= 1 /\ DOMAIN cs = 1 .. Len(cs) /\ Len(c) = Len(cs)
      /\ DOMAIN c = 1 .. Len(cs)
      /\ c[1] = s /\ \A j \in DOMAIN c : c[j] \in DOMAIN scopes
  BY AtDomains
<1>2. s \in DOMAIN scopes /\ NamesOK(s, cs) /\ cs \in Seq(CScopeType)
      /\ \A j \in DOMAIN cs : InRange(cs[j])
  BY DEF At
<1>3. ChainsOK /\ UsualOK
  BY DEF Coupled
<1>4. \/ i = 0 /\ entry.ent = 0
      \/ i # 0 /\ Stands(i, entry)
  BY <1>2, NameAtBlock
<1>5. i \in 0 .. Len(idents)
  BY <1>2, LookUp
<1>6. i # 0 => IdentFor(i, entry)
  <2> SUFFICES ASSUME i # 0 PROVE IdentFor(i, entry)
    OBVIOUS
  <2>1. i \in DOMAIN idents
    BY <1>5, Domains
  <2>2. StandOK(i)
    BY <2>1 DEF Coupled, StandsOK
  <2> QED
    BY <1>4, <2>1, <2>2 DEF IdentFor, Stands, StandOK
<1>7. \/ entry.ent = 0 /\ \A j \in DOMAIN cs : cs[j].names[n].ent = 0
      \/ entry.ent # 0 /\ \E j \in DOMAIN cs : /\ cs[j].names[n] = entry
                                               /\ \A k \in 1 .. j - 1 : cs[k].names[n].ent = 0
  BY <1>2, VisibleFound
<1>8. EntryOf(entry, n)
  <2>1. CASE entry.ent = 0
    BY <2>1 DEF EntryOf
  <2>2. CASE entry.ent # 0
    BY <1>2, <1>7, <2>2, EntriesIn
  <2> QED
    BY <2>1, <2>2
<1>9. \/ i = 0 /\ \A p \in DOMAIN c : u(p) = 0
      \/ i # 0 /\ \E p \in DOMAIN c : u(p) = i /\ \A q \in 1 .. p - 1 : u(q) = 0
  BY <1>2, UsualFound
<1>10. AtFile(cs) => i = scopes[s].usual[n]
  <2> SUFFICES ASSUME Len(cs) = 1 PROVE i = u(1)
    BY <1>1 DEF AtFile
  <2> HIDE DEF c, u, i
  <2>1. DOMAIN c = {1}
    BY <1>1
  <2> QED
    BY <1>9, <2>1
<1>11. ASSUME LinkageOf(entry.ent) # "none"
       PROVE  /\ entry = FileEntry(cs, n)
              /\ ~AtFile(cs) => \A k \in 1 .. Len(cs) - 1 : u(k) = 0
  <2>1. entry.ent # 0
    BY <1>11 DEF LinkageOf
  <2>2. PICK j \in DOMAIN cs : cs[j].names[n] = entry /\ \A k \in 1 .. j - 1 : cs[k].names[n].ent = 0
    BY <1>7, <2>1
  <2>3. \A k \in DOMAIN cs : u(k) # 0 /\ k < Len(cs) => LinkageOf(cs[k].names[n].ent) = "none"
    <3> TAKE k \in DOMAIN cs
    <3> HAVE u(k) # 0 /\ k < Len(cs)
    <3>1. Stands(u(k), cs[k].names[n]) /\ c[k] \in DOMAIN scopes
      BY <1>1, <1>2 DEF NamesOK
    <3>2. IdentFor(u(k), cs[k].names[n])
      BY <3>1, IdentStands
    <3>3. scopes[c[k]].type # "file"
      <4>1. k \in DOMAIN c /\ k # Len(c)
        BY <1>1
      <4>2. (scopes[c[k]].type = "file") = (k = Len(c))
        BY <1>2, <1>3, <4>1, Rest
      <4> QED
        BY <4>1, <4>2
    <3>4. idents[u(k)].linkage = "none"
      BY <1>3, <3>1, <3>3 DEF UsualOK, UsualAt
    <3> QED
      BY <3>2, <3>4 DEF IdentFor
  <2>4. \A k \in DOMAIN cs : k < j /\ k < Len(cs) => u(k) = 0
    <3> TAKE k \in DOMAIN cs
    <3> HAVE k < j /\ k < Len(cs)
    <3>1. k \in 1 .. j - 1
      BY <1>1, <2>2
    <3>2. cs[k].names[n].ent = 0
      BY <2>2, <3>1
    <3>3. u(k) # 0 => Stands(u(k), cs[k].names[n])
      BY <1>1, <1>2 DEF NamesOK
    <3> QED
      BY <3>2, <3>3 DEF Stands
  <2>5. CASE j = Len(cs)
    <3>1. entry = FileEntry(cs, n)
      BY <2>2, <2>5 DEF FileEntry
    <3> HIDE DEF u, entry
    <3> QED
      BY <1>1, <2>4, <2>5, <3>1
  <2>6. CASE j # Len(cs)
    <3>1. j < Len(cs) /\ u(j) = 0
      BY <1>1, <1>11, <2>2, <2>3, <2>6
    <3>2. cs[j].names[n].ent = 0 \/ Extern(s, cs, j, n)
      BY <1>1, <1>2, <2>2, <3>1 DEF NamesOK
    <3>3. /\ cs[j].names[n] = FileEntry(cs, n)
          /\ \A k \in j .. Len(cs) - 1 : u(k) = 0
      BY <2>1, <2>2, <3>2 DEF Extern
    <3> HIDE DEF u, entry
    <3>4. \A k \in 1 .. Len(cs) - 1 : u(k) = 0
      <4> TAKE k \in 1 .. Len(cs) - 1
      <4>1. k \in DOMAIN cs /\ (k < j \/ k \in j .. Len(cs) - 1)
        BY <1>1
      <4> QED
        BY <1>1, <2>4, <3>3, <4>1
    <3> QED
      BY <2>2, <3>3, <3>4
  <2> QED
    BY <2>5, <2>6
<1> QED
  BY <1>4, <1>6, <1>8, <1>10, <1>11 DEF KnownAround

LEMMA NameLinked ==
  ASSUME Coupled, NEW s, NEW cs, At(s, cs), NEW n \in Names
  PROVE  KnownLinked(cs, n)
<1> DEFINE file == FileEntry(cs, n)
<1>0. LinkedAt(cs)
  BY DEF At
<1>1. \A e \in Linked(n) : e = file.ent /\ e \in DOMAIN ents /\ ents[e].ty = file.ty /\ ents[e].linkage # "none"
  BY <1>0 DEF LinkedAt, Linked
<1>2. \A e \in DOMAIN ents : e # 0
  <2>1. ents \in Seq(EntityType)
    BY DEF Coupled, CTablesOK
  <2> HIDE DEF EntityType
  <2> QED
    BY <2>1
<1> HIDE DEF file
<1>3. Linked(n) # {} => /\ Linked(n) = {file.ent} /\ file.ent \in DOMAIN ents /\ file.ent # 0
                        /\ ents[file.ent].ty = file.ty /\ ents[file.ent].linkage # "none"
  BY <1>1, <1>2
<1> QED
  BY <1>3 DEF KnownLinked, file

---------------------------------------------------------------------------
(* What kcc says of a declarator.                                            *)

\* None of the differences that are known.
Plain(cs, d) ==
  LET entry == Visible(cs, d.name)
      here == Here(cs, d.name).ent
      linked == LinkageOf(entry.ent) # "none"
  IN  /\ ~AtFile(cs) =>
           /\ Kind(d) = "func" => d.storage = "static"
           /\ Kind(d) = "object" /\ d.storage = "extern" =>
                /\ linked
                /\ d.init => LinkageOf(entry.ent) # "internal"
                /\ IsComplete(d.ty) => IsComplete(entry.ty)
           /\ LinkageOf(here) = "none"
      /\ AtFile(cs) =>
           /\ Kind(d) = "func" /\ d.storage # "static" => LinkageOf(here) # "internal"
           /\ d.init => ~(here # 0 /\ ents[here].def = "yes")

\* A declarator that shows no difference that is known.
LEMMA PlainDeclarator ==
  ASSUME NEW cs, NEW d, DeclareDiffers(cs, d) = {}
  PROVE  Plain(cs, d)
<1>1. \A what, holds : Known(what, holds) = {} => ~holds
  BY DEF Known
<1> DEFINE entry == Visible(cs, d.name)
           prior == entry.ent
           here == Here(cs, d.name).ent
           inner == ~AtFile(cs)
           object == Kind(d) = "object"
           linked == LinkageOf(prior) # "none"
<1>2. /\ ~(inner /\ Kind(d) = "func" /\ d.storage # "static")
      /\ ~(inner /\ object /\ d.storage = "extern" /\ ~linked)
      /\ ~(~AtFile(cs) /\ LinkageOf(here) # "none")
      /\ ~(inner /\ object /\ d.storage = "extern" /\ d.init /\ LinkageOf(prior) = "internal")
      /\ ~(/\ inner /\ object /\ d.storage = "extern" /\ linked
           /\ IsComplete(d.ty) /\ ~IsComplete(entry.ty))
      /\ ~(/\ ~inner /\ Kind(d) = "func" /\ d.storage # "static"
           /\ LinkageOf(here) = "internal")
      /\ ~(~inner /\ d.init /\ here # 0 /\ ents[here].def = "yes")
  <2> HIDE DEF entry, prior, here, inner, object, linked
  <2>1. /\ Known("function in a block", inner /\ Kind(d) = "func" /\ d.storage # "static") = {}
        /\ Known("extern in a block", inner /\ object /\ d.storage = "extern" /\ ~linked) = {}
        /\ Known("extern forgotten", ~AtFile(cs) /\ LinkageOf(here) # "none") = {}
        /\ Known("extern initialised",
             inner /\ object /\ d.storage = "extern" /\ d.init /\ LinkageOf(prior) = "internal") = {}
        /\ Known("array completed in a block",
             /\ inner /\ object /\ d.storage = "extern" /\ linked
             /\ IsComplete(d.ty) /\ ~IsComplete(entry.ty)) = {}
        /\ Known("function made external",
             /\ ~inner /\ Kind(d) = "func" /\ d.storage # "static"
             /\ LinkageOf(here) = "internal") = {}
        /\ Known("defined twice", ~inner /\ d.init /\ here # 0 /\ ents[here].def = "yes") = {}
    <3> USE DEF entry, prior, here, inner, object, linked
    <3> QED
      BY DEF DeclareDiffers, Forgotten
  <2> QED
    BY <1>1, <2>1
<1> QED
  BY <1>2 DEF Plain

\* What C has of a declarator that is no typedef.
LEMMA OrdinaryLinkage ==
  ASSUME Coupled, NEW s, NEW cs, At(s, cs), NEW d \in Decls, d.storage # "typedef"
  PROVE  LET linkage == CLinkage(cs, d)
             prior == LinkageOf(Visible(cs, d.name).ent)
             old == Again(cs, d)
             file == FileEntry(cs, d.name)
         IN  /\ AtFile(cs) => linkage # "none"
             /\ AtFile(cs) /\ d.storage = "static" => linkage = "internal"
             /\ AtFile(cs) /\ d.storage # "static" => linkage = "external" \/ linkage = prior
             /\ AtFile(cs) /\ d.storage # "static" /\ prior = "none" => linkage = "external"
             /\ ~AtFile(cs) /\ d.storage = "extern" /\ prior # "none" => linkage = prior
             /\ ~AtFile(cs) /\ Kind(d) = "object" /\ d.storage # "extern" => linkage = "none"
             /\ old = 0 \/ (old = file.ent /\ Linked(d.name) # {})
             /\ old = 0 <=> linkage = "none" \/ Linked(d.name) = {}
<1>1. Kind(d) # "typedef" /\ Kind(d) \in {"func", "object"}
  BY DEF Kind
<1>2. d.storage \in {"", "extern", "static"}
  BY DEF Decls, Storages
<1>3. KnownLinked(cs, d.name)
  BY NameLinked DEF Decls
<1> DEFINE linkage == CLinkage(cs, d)
           old == Again(cs, d)
<1>4. old = IF linkage = "none" \/ Linked(d.name) = {} THEN 0 ELSE CHOOSE e \in Linked(d.name) : TRUE
  BY <1>1 DEF Again
<1>5. LET prior == LinkageOf(Visible(cs, d.name).ent)
      IN  /\ AtFile(cs) => linkage # "none"
          /\ AtFile(cs) /\ d.storage = "static" => linkage = "internal"
          /\ AtFile(cs) /\ d.storage # "static" => linkage = "external" \/ linkage = prior
          /\ AtFile(cs) /\ d.storage # "static" /\ prior = "none" => linkage = "external"
          /\ ~AtFile(cs) /\ d.storage = "extern" /\ prior # "none" => linkage = prior
          /\ ~AtFile(cs) /\ Kind(d) = "object" /\ d.storage # "extern" => linkage = "none"
  BY <1>1, <1>2 DEF CLinkage
<1>6. /\ old = 0 \/ (old = FileEntry(cs, d.name).ent /\ Linked(d.name) # {})
      /\ old = 0 <=> linkage = "none" \/ Linked(d.name) = {}
  <2> HIDE DEF linkage
  <2>1. CASE linkage = "none" \/ Linked(d.name) = {}
    <3>1. old = 0
      BY <1>4, <2>1
    <3> HIDE DEF old
    <3> QED
      BY <2>1, <3>1
  <2>2. CASE ~(linkage = "none" \/ Linked(d.name) = {})
    <3>1. (CHOOSE e \in Linked(d.name) : TRUE) = FileEntry(cs, d.name).ent /\ FileEntry(cs, d.name).ent # 0
      BY <1>3, <2>2 DEF KnownLinked
    <3>2. old = FileEntry(cs, d.name).ent /\ old # 0
      BY <1>4, <2>2, <3>1
    <3> QED
      BY <2>2, <3>2
  <2> QED
    BY <2>1, <2>2
<1> QED
  BY <1>5, <1>6

\* Outside the file's scope only objects without linkage and "extern"s of what
\* the file knows are left, and they are new there.
LEMMA InnerDeclarator ==
  ASSUME TablesOK, KindsOK, Coupled, NEW s, NEW cs, At(s, cs), NEW d \in Decls,
         Plain(cs, d), ~AtFile(cs), d.storage # "typedef"
  PROVE  LET here == scopes[s].usual[d.name]
             i == FindUsual(s, d.name)
             entry == Visible(cs, d.name)
         IN  /\ here # 0 => CConstraint(cs, d) /\ LinkageConflict(d, s)
             /\ here = 0 => Here(cs, d.name).ent = 0
             /\ Kind(d) = "func" => CConstraint(cs, d) /\ d.ty.k = "func"
             /\ d.storage = "extern" /\ Kind(d) = "object" =>
                  /\ entry = FileEntry(cs, d.name) /\ IdentFor(i, entry) /\ entry.ent # 0
                  /\ LinkageOf(entry.ent) # "none" /\ here = 0
                  /\ Again(cs, d) = entry.ent /\ ents[entry.ent].ty = entry.ty
                  /\ CLinkage(cs, d) = LinkageOf(entry.ent)
                  /\ \A k \in 1 .. Len(cs) - 1 : scopes[scopes[s].chain[k]].usual[d.name] = 0
<1> DEFINE n == d.name
           here == scopes[s].usual[n]
           i == FindUsual(s, n)
           entry == Visible(cs, n)
<1>1. /\ n \in Names /\ Kind(d) # "typedef"
  BY DEF Decls, Kind
<1>2. KnownHere(s, cs, n) /\ KnownAround(s, cs, n) /\ KnownLinked(cs, n)
      /\ IsFileScope(s) = AtFile(cs)
  BY <1>1, NameHere, NameAround, NameLinked
<1>3. LinkageOf(Here(cs, n).ent) = "none"
  BY DEF Plain
<1>4. here # 0 => CConstraint(cs, d) /\ LinkageConflict(d, s)
  <2> SUFFICES ASSUME here # 0 PROVE CConstraint(cs, d) /\ LinkageConflict(d, s)
    OBVIOUS
  <2>1. Here(cs, n).ent # 0
    BY <1>2 DEF KnownHere, IdentFor, Stands, Here
  <2>2. DeclaredLinkage(d, s) = "none"
    BY <1>2 DEF DeclaredLinkage
  <2> QED
    BY <1>1, <1>3, <2>1, <2>2 DEF CConstraint, LinkageConflict, FindUsualInCurrScope
<1>5. here = 0 => Here(cs, n).ent = 0
  BY <1>2, <1>3 DEF KnownHere, Here
<1>6. Kind(d) = "func" => CConstraint(cs, d) /\ d.ty.k = "func"
  <2> SUFFICES ASSUME Kind(d) = "func" PROVE CConstraint(cs, d) /\ d.ty.k = "func"
    OBVIOUS
  <2>1. d.storage = "static"
    BY DEF Plain
  <2> QED
    BY <2>1 DEF CConstraint, Kind
<1>7. ASSUME d.storage = "extern", Kind(d) = "object"
      PROVE  /\ entry = FileEntry(cs, n) /\ IdentFor(i, entry) /\ entry.ent # 0
             /\ LinkageOf(entry.ent) # "none" /\ here = 0
             /\ Again(cs, d) = entry.ent /\ ents[entry.ent].ty = entry.ty
             /\ CLinkage(cs, d) = LinkageOf(entry.ent)
             /\ \A k \in 1 .. Len(cs) - 1 : scopes[scopes[s].chain[k]].usual[n] = 0
  <2>1. LinkageOf(entry.ent) # "none"
    BY <1>7 DEF Plain
  <2>2. entry.ent # 0 /\ IdentFor(i, entry)
    BY <1>2, <2>1 DEF KnownAround, LinkageOf
  <2>3. /\ entry = FileEntry(cs, n)
        /\ \A k \in 1 .. Len(cs) - 1 : scopes[scopes[s].chain[k]].usual[n] = 0
    BY <1>2, <2>1 DEF KnownAround
  <2>4. here = 0
    <3> DEFINE k == Len(cs)
    <3>1. scopes[s].chain[1] = s /\ k \in Nat /\ k >= 1
      BY AtDomains
    <3>2. k # 1
      BY DEF AtFile
    <3>3. 1 \in 1 .. k - 1
      <4> HIDE DEF k
      <4> QED
        BY <3>1, <3>2
    <3> QED
      BY <2>3, <3>1, <3>3
  <2>5. CLinkage(cs, d) = LinkageOf(entry.ent) /\ (Again(cs, d) = 0 \/ Again(cs, d) = entry.ent)
        /\ (Again(cs, d) = 0 => Linked(n) = {})
    BY <1>7, <2>1, <2>3, OrdinaryLinkage
  <2>6. entry.ent \in Linked(n)
    BY <1>2, <2>1, <2>2 DEF KnownAround, EntryOf
  <2>7. ents[entry.ent].ty = entry.ty
    BY <1>2, <2>3, <2>6 DEF KnownLinked
  <2> QED
    BY <2>1, <2>2, <2>3, <2>4, <2>5, <2>6, <2>7
<1> HIDE DEF here, i, entry, n
<1>8. d.storage = "extern" /\ Kind(d) = "object" =>
             /\ entry = FileEntry(cs, n) /\ IdentFor(i, entry) /\ entry.ent # 0
             /\ LinkageOf(entry.ent) # "none" /\ here = 0
             /\ Again(cs, d) = entry.ent /\ ents[entry.ent].ty = entry.ty
             /\ CLinkage(cs, d) = LinkageOf(entry.ent)
             /\ \A k \in 1 .. Len(cs) - 1 : scopes[scopes[s].chain[k]].usual[n] = 0
  BY <1>7
<1> QED
  BY <1>4, <1>5, <1>6, <1>8 DEF here, i, entry, n

\* What keeps the rules is not refused.
LEMMA ValidNotRefused ==
  ASSUME TablesOK, KindsOK, Coupled, NEW s, NEW cs, At(s, cs), NEW d \in Decls,
         d.init => Kind(d) = "object",
         Plain(cs, d), ~CConstraint(cs, d), ~CUndefined(cs, d)
  PROVE  ~Refused(d, s)
<1> DEFINE n == d.name
           here == scopes[s].usual[n]
           entry == cs[1].names[n]
           old == Again(cs, d)
<1>1. /\ n \in Names /\ d.ty \in Types
  BY DEF Decls
<1>2. KnownHere(s, cs, n) /\ KnownAround(s, cs, n) /\ KnownLinked(cs, n)
      /\ IsFileScope(s) = AtFile(cs)
  BY <1>1, NameHere, NameAround, NameLinked
<1>3. here # 0 => entry.ent # 0 /\ idents[here].ty = entry.ty /\ idents[here].linkage = LinkageOf(entry.ent)
  BY <1>2 DEF KnownHere, IdentFor, Stands
<1>4. Here(cs, n) = entry
  BY DEF Here
<1>5. CASE d.storage = "typedef"
  <2>1. Kind(d) = "typedef"
    BY <1>5 DEF Kind
  <2>2. here # 0 => idents[here].ty = d.ty
    BY <1>3, <1>4, <2>1 DEF CConstraint
  <2>3. ~Mismatch(d, here)
    BY <2>2 DEF Mismatch, Compatible
  <2> QED
    BY <1>5, <2>3 DEF Refused, FindUsualInCurrScope
<1>6. CASE d.storage # "typedef" /\ AtFile(cs)
  <2>1. Kind(d) # "typedef" /\ d.storage \in {"", "extern", "static"}
    BY <1>6 DEF Kind, Decls, Storages
  <2>2. ~(d.ty.k = "func" /\ ~IsFileScope(s))
    BY <1>2, <1>6
  <2>3. ~Mismatch(d, here)
    <3>1. here # 0 => Compatible(entry.ty, d.ty)
      BY <1>3, <1>4, <2>1 DEF CConstraint
    <3> QED
      BY <1>3, <3>1 DEF Mismatch, Compatible
  <2>4. here # 0 => LinkageOf(entry.ent) # "none"
    BY <1>3, <1>4, <2>1 DEF CConstraint
  <2>5. ~LinkageConflict(d, s)
    <3> SUFFICES ASSUME here # 0, DeclaredLinkage(d, s) = "internal", idents[here].linkage # "internal"
                 PROVE  FALSE
      BY <1>2, <1>3, <1>6, <2>4 DEF LinkageConflict, DeclaredLinkage, FindUsualInCurrScope
    <3>1. d.storage = "static" /\ CLinkage(cs, d) = "internal"
      BY <1>2, <1>6, OrdinaryLinkage DEF DeclaredLinkage
    <3>2. entry.ent \in Linked(n) /\ LinkageOf(entry.ent) = ents[entry.ent].linkage
      BY <1>2, <1>3, <2>4 DEF KnownHere, EntryOf
    <3>3. old = entry.ent /\ old # 0
      <4>1. old # 0 /\ old = FileEntry(cs, n).ent
        BY <1>6, <3>1, <3>2, OrdinaryLinkage
      <4> QED
        BY <1>2, <3>2, <4>1 DEF KnownLinked
    <3> QED
      BY <1>3, <2>1, <3>1, <3>2, <3>3 DEF CUndefined
  <2>6. ~Mismatch(d, Outer(d, s))
    <3>1. FindUsual(s, n) = here
      BY <1>2, <1>6 DEF KnownAround
    <3> QED
      BY <2>3, <3>1 DEF Outer, Mismatch
  <2>7. ~InitRefused(d, s)
    BY <1>2, <1>6 DEF InitRefused, StaticInit
  <2> QED
    BY <1>6, <2>2, <2>3, <2>5, <2>6, <2>7 DEF Refused, FindUsualInCurrScope
<1>7. CASE d.storage # "typedef" /\ ~AtFile(cs)
  <2> DEFINE i == FindUsual(s, n)
             v == Visible(cs, n)
  <2>1. /\ here = 0 /\ Kind(d) = "object" /\ d.ty.k # "func"
    BY <1>7, InnerDeclarator DEF Kind
  <2>2. ~Mismatch(d, here) /\ ~LinkageConflict(d, s)
    BY <2>1 DEF Mismatch, LinkageConflict, FindUsualInCurrScope
  <2>3. ASSUME d.storage = "extern"
        PROVE  ~Mismatch(d, i) /\ ~d.init
    <3>1. /\ IdentFor(i, v) /\ old = v.ent /\ v.ent # 0 /\ ents[v.ent].ty = v.ty
          /\ CLinkage(cs, d) = LinkageOf(v.ent) /\ LinkageOf(v.ent) # "none"
      BY <1>7, <2>1, <2>3, InnerDeclarator
    <3>2. Compatible(ents[old].ty, d.ty)
      BY <2>1, <3>1 DEF CUndefined
    <3>3. ~d.init
      BY <1>7, <3>1 DEF CConstraint
    <3> QED
      BY <3>1, <3>2, <3>3 DEF Mismatch, Compatible, IdentFor, Stands
  <2>4. ~Mismatch(d, Outer(d, s))
    BY <2>3 DEF Outer, Mismatch
  <2>5. ~InitRefused(d, s)
    BY <2>1, <2>3 DEF InitRefused, Redeclared, Outer, IsObject, FindUsualInCurrScope
  <2> QED
    BY <1>7, <2>1, <2>2, <2>4, <2>5 DEF Refused, FindUsualInCurrScope
<1> QED
  BY <1>5, <1>6, <1>7

\* What breaks a constraint is refused, or it is a typedef that is there.
LEMMA InvalidRefused ==
  ASSUME TablesOK, KindsOK, Coupled, NEW s, NEW cs, At(s, cs), NEW d \in Decls,
         d.init => Kind(d) = "object",
         Plain(cs, d), CConstraint(cs, d)
  PROVE  Refused(d, s) \/ (d.storage = "typedef" /\ scopes[s].usual[d.name] # 0)
<1> DEFINE n == d.name
           here == scopes[s].usual[n]
           entry == cs[1].names[n]
           old == Again(cs, d)
           linkage == CLinkage(cs, d)
<1>1. /\ n \in Names /\ d.ty \in Types
  BY DEF Decls
<1>2. KnownHere(s, cs, n) /\ KnownAround(s, cs, n) /\ KnownLinked(cs, n)
      /\ IsFileScope(s) = AtFile(cs)
  BY <1>1, NameHere, NameAround, NameLinked
<1>3. here # 0 => entry.ent # 0 /\ idents[here].ty = entry.ty /\ idents[here].linkage = LinkageOf(entry.ent)
  BY <1>2 DEF KnownHere, IdentFor, Stands
<1>4. Here(cs, n) = entry
  BY DEF Here
<1>5. CASE d.storage = "typedef"
  <2>1. Kind(d) = "typedef" /\ linkage = "none" /\ ~d.init
    BY <1>5 DEF Kind, CLinkage
  <2>2. entry.ent # 0
    BY <1>4, <2>1 DEF CConstraint
  <2>3. here # 0
    BY <1>2, <1>4, <2>2 DEF KnownHere, Plain
  <2> QED
    BY <1>5, <2>3
<1>6. CASE d.storage # "typedef" /\ AtFile(cs)
  <2>1. Kind(d) # "typedef"
    BY <1>6 DEF Kind
  <2>2. linkage # "none" /\ (old = 0 \/ old = FileEntry(cs, n).ent)
    BY <1>6, OrdinaryLinkage
  <2>3. FileEntry(cs, n) = entry
    BY <1>6 DEF FileEntry, AtFile
  <2>4. CASE d.init /\ linkage = "internal" /\ old # 0 /\ ents[old].def = "yes"
    BY <1>4, <1>6, <2>2, <2>3, <2>4 DEF Plain
  <2>5. CASE entry.ent # 0 /\ (LinkageOf(entry.ent) = "none" \/ ~Compatible(entry.ty, d.ty))
    <3>1. here # 0
      BY <1>2, <1>6, <2>5 DEF KnownHere
    <3>2. CASE ~Compatible(entry.ty, d.ty)
      <4>1. Mismatch(d, here)
        BY <1>3, <3>1, <3>2 DEF Mismatch, Compatible
      <4> QED
        BY <1>6, <4>1 DEF Refused, FindUsualInCurrScope
    <3>3. CASE LinkageOf(entry.ent) = "none"
      <4>1. LinkageConflict(d, s)
        BY <1>2, <1>3, <1>6, <3>1, <3>3 DEF LinkageConflict, DeclaredLinkage, FindUsualInCurrScope
      <4> QED
        BY <1>6, <4>1 DEF Refused
    <3> QED
      BY <2>5, <3>2, <3>3
  <2> QED
    BY <1>4, <1>6, <2>1, <2>2, <2>4, <2>5 DEF CConstraint
<1>7. CASE d.storage # "typedef" /\ ~AtFile(cs)
  <2> DEFINE i == FindUsual(s, n)
             v == Visible(cs, n)
  <2>1. CASE here # 0
    <3>1. LinkageConflict(d, s)
      BY <1>7, <2>1, InnerDeclarator
    <3> QED
      BY <1>7, <3>1 DEF Refused
  <2>2. CASE d.ty.k = "func"
    BY <1>2, <1>7, <2>2 DEF Refused
  <2>3. CASE here = 0 /\ d.ty.k # "func"
    <3>1. Kind(d) = "object" /\ entry.ent = 0
      BY <1>4, <1>7, <2>3, InnerDeclarator DEF Kind
    <3>2. d.init /\ linkage # "none"
      BY <1>4, <1>7, <3>1 DEF CConstraint
    <3>3. d.storage = "extern"
      BY <1>7, <3>1, <3>2, OrdinaryLinkage
    <3>4. /\ IdentFor(i, v) /\ LinkageOf(v.ent) # "none" /\ LinkageOf(v.ent) # "internal"
      BY <1>7, <3>1, <3>2, <3>3, InnerDeclarator DEF Plain
    <3>5. idents[i].linkage \in Linkages
      BY <3>4, Domains DEF IdentFor, IdentType
    <3>6. i # 0 /\ i \in DOMAIN idents /\ idents[i].linkage = "external" /\ idents[i].kind \in {"func", "object"}
      BY <3>4, <3>5 DEF IdentFor, KindsOK, Linkages
    <3>7. Outer(d, s) = i /\ ~IsObject(here)
      BY <2>3, <3>3 DEF Outer, IsObject
    <3>8. CASE idents[i].kind = "func"
      <4>1. Mismatch(d, Outer(d, s))
        BY <2>3, <3>6, <3>7, <3>8 DEF KindsOK, Mismatch, Compatible
      <4> QED
        BY <1>7, <3>7, <4>1 DEF Refused, FindUsualInCurrScope
    <3>9. CASE idents[i].kind = "object"
      <4>1. Redeclared(d, s) = i
        BY <3>6, <3>7, <3>9 DEF Redeclared, IsObject, FindUsualInCurrScope
      <4>2. ~StaticInit(d, s)
        BY <1>2, <1>7, <3>3 DEF StaticInit
      <4>3. InitRefused(d, s)
        BY <3>2, <3>6, <4>1, <4>2 DEF InitRefused
      <4> QED
        BY <1>7, <4>3 DEF Refused
    <3> QED
      BY <3>6, <3>8, <3>9
  <2> QED
    BY <2>1, <2>2, <2>3
<1> QED
  BY <1>5, <1>6, <1>7

---------------------------------------------------------------------------
(* What a step leaves as it was.                                             *)

IdentsCarried ==
  \A i \in DOMAIN idents :
    /\ i \in DOMAIN idents' /\ stands'[i] = stands[i]
    /\ idents'[i].kind = idents[i].kind /\ idents'[i].linkage = idents[i].linkage
    /\ idents'[i].scope = idents[i].scope
    /\ idents[i].kind = "tag" => idents'[i].ty = idents[i].ty

EntsCarried ==
  \A e \in DOMAIN ents :
    /\ e \in DOMAIN ents' /\ ents'[e].kind = ents[e].kind
    /\ ents'[e].name = ents[e].name /\ ents'[e].linkage = ents[e].linkage

ScopesCarried ==
  \A r \in DOMAIN scopes :
    /\ r \in DOMAIN scopes' /\ scopes'[r].type = scopes[r].type
    /\ (r \in ListScopes') = (r \in ListScopes) /\ Within'[r] = Within[r]

TypesCarried ==
  \A y \in DOMAIN types : y \in DOMAIN types' /\ types'[y].scope = types[y].scope

\* Entities are numbered from 1.
LEMMA EntNumbers ==
  ASSUME Coupled
  PROVE  /\ \A e \in DOMAIN ents : e \in Nat /\ e # 0
         /\ Len(ents) \in Nat /\ DOMAIN ents = 1 .. Len(ents)
         /\ ents \in Seq(EntityType) /\ \A e \in DOMAIN ents : ents[e] \in EntityType
<1>1. ents \in Seq(EntityType)
  BY DEF Coupled, CTablesOK
<1> HIDE DEF EntityType
<1> QED
  BY <1>1

\* Then the conjuncts of the correspondence are kept where nothing is entered.
LEMMA SameCarried ==
  ASSUME TablesOK, TablesOK', SameChains
  PROVE  ScopesCarried /\ TypesCarried
BY SameLists DEF ScopesCarried, TypesCarried, SameChains

LEMMA GrownCarried ==
  ASSUME TablesOK, TablesOK', ChainsOK, NEW s \in DOMAIN scopes, Grown(s),
         \A r \in DOMAIN scopes : (r \in ListScopes') = (r \in ListScopes),
         Len(scopes) + 1 \notin ListScopes' => s \notin ListScopes
  PROVE  ScopesCarried
<1>1. /\ DOMAIN scopes' = DOMAIN scopes \cup {Len(scopes) + 1}
      /\ \A r \in DOMAIN scopes : Within'[r] = Within[r]
  BY GrownWithin
<1> QED
  BY <1>1 DEF ScopesCarried, Grown

LEMMA UsualCarried ==
  ASSUME TablesOK, UsualOK, ScopesCarried, IdentsCarried,
         \A r \in DOMAIN scopes', n \in Names :
           \/ r \in DOMAIN scopes /\ scopes'[r].usual[n] = scopes[r].usual[n]
           \/ UsualAt(r, n)'
  PROVE  UsualOK'
<1>1. ASSUME NEW r \in DOMAIN scopes', NEW n \in Names, r \in DOMAIN scopes,
             scopes'[r].usual[n] = scopes[r].usual[n]
      PROVE  UsualAt(r, n)'
  <2> DEFINE i == scopes[r].usual[n]
  <2>1. i # 0 => i \in DOMAIN idents
    BY <1>1, Domains, LookUp
  <2>2. i # 0 => /\ r \in ListScopes => idents[i].scope = r /\ idents[i].kind = "object"
                 /\ scopes[r].type = "proto" => idents[i].kind \in {"object", "enumerator"}
                 /\ scopes[r].type # "file" => idents[i].linkage = "none"
    BY <1>1 DEF UsualOK, UsualAt
  <2>3. scopes'[r].usual[n] = i /\ scopes'[r].type = scopes[r].type
        /\ (r \in ListScopes') = (r \in ListScopes)
    BY <1>1 DEF ScopesCarried
  <2> HIDE DEF i
  <2> QED
    BY <2>1, <2>2, <2>3 DEF UsualAt, IdentsCarried
<1> QED
  BY <1>1 DEF UsualOK

LEMMA StructTags ==
  ASSUME TablesOK, NEW r \in DOMAIN scopes, NEW t \in Tags
  PROVE  LET i == scopes[r].tags[t]
         IN  /\ i # 0 => i \in DOMAIN idents /\ idents[i].kind = "tag"
             /\ IsStructTag(i) => TypeOf(i) \in DOMAIN types
                                  /\ types[TypeOf(i)].scope \in DOMAIN scopes
                                  /\ types[TypeOf(i)].scope \in ListScopes
<1>1. EntriesOf(r)
  BY DEF TablesOK, EntriesOK
<1>2. \A y \in DOMAIN types : types[y].scope \in DOMAIN scopes /\ types[y].scope \in ListScopes
  BY Domains DEF ListScopes
<1> QED
  BY <1>1, <1>2 DEF EntriesOf, IsStructTag, TypeOf

LEMMA TagTypesCarried ==
  ASSUME TablesOK, TagTypesOK, ScopesCarried, IdentsCarried, TypesCarried,
         \A r \in DOMAIN scopes', t \in Tags :
           \/ r \in DOMAIN scopes /\ scopes'[r].tags[t] = scopes[r].tags[t]
           \/ TagTypeAt(r, t)'
  PROVE  TagTypesOK'
<1>1. ASSUME NEW r \in DOMAIN scopes', NEW t \in Tags, r \in DOMAIN scopes,
             scopes'[r].tags[t] = scopes[r].tags[t]
      PROVE  TagTypeAt(r, t)'
  <2> DEFINE i == scopes[r].tags[t]
  <2>1. /\ i # 0 => i \in DOMAIN idents /\ idents[i].kind = "tag"
        /\ IsStructTag(i) => TypeOf(i) \in DOMAIN types /\ types[TypeOf(i)].scope \in DOMAIN scopes
    BY <1>1, StructTags
  <2>2. IsStructTag(i) => r \in Within[types[TypeOf(i)].scope]
    BY <1>1 DEF TagTypesOK, TagTypeAt
  <2>3. scopes'[r].tags[t] = i
    BY <1>1
  <2> HIDE DEF i
  <2>4. i # 0 => idents'[i].ty = idents[i].ty /\ idents'[i].kind = idents[i].kind
    BY <2>1 DEF IdentsCarried
  <2> SUFFICES ASSUME i # 0, idents'[i].kind = "tag", idents'[i].ty.k = "struct"
               PROVE  r \in Within'[types'[idents'[i].ty.n].scope]
    BY <2>3 DEF TagTypeAt, IsStructTag, TypeOf
  <2>5. IsStructTag(i) /\ TypeOf(i) = idents'[i].ty.n
    BY <2>4 DEF IsStructTag, TypeOf
  <2>6. types'[TypeOf(i)].scope = types[TypeOf(i)].scope
    BY <2>1, <2>5 DEF TypesCarried
  <2>7. Within'[types[TypeOf(i)].scope] = Within[types[TypeOf(i)].scope]
    BY <2>1, <2>5 DEF ScopesCarried
  <2> QED
    BY <2>2, <2>5, <2>6, <2>7
<1> QED
  BY <1>1 DEF TagTypesOK

LEMMA StandCarried ==
  ASSUME TablesOK, Coupled, IdentsCarried, EntsCarried, NEW i \in DOMAIN idents,
         idents[i].kind = "tag" =>
           /\ ents'[stands[i]].def = ents[stands[i]].def
           /\ idents[i].ty.k = "struct" =>
                types'[TypeOf(i)].complete = types[TypeOf(i)].complete
  PROVE  StandOK(i)'
<1> DEFINE e == stands[i]
<1>1. StandOK(i)
  BY DEF Coupled, StandsOK
<1>2. e # 0 => e \in DOMAIN ents
  BY DEF Coupled, RangesOK, CTablesOK
<1>3. /\ stands'[i] = e /\ idents'[i].kind = idents[i].kind /\ idents'[i].linkage = idents[i].linkage
      /\ idents[i].kind = "tag" => idents'[i].ty = idents[i].ty
  BY DEF IdentsCarried
<1>4. e # 0 => ents'[e].kind = ents[e].kind /\ ents'[e].linkage = ents[e].linkage
  BY <1>2 DEF EntsCarried
<1> HIDE DEF e
<1>5. /\ (IF e = 0 THEN "none" ELSE ents'[e].linkage) = idents'[i].linkage
      /\ idents'[i].kind = "func" => idents'[i].linkage # "none"
      /\ idents'[i].kind = "enumerator" => e # 0 /\ ents'[e].kind = "enumerator"
  BY <1>1, <1>3, <1>4 DEF StandOK, LinkageOf, e
<1>6. ASSUME idents'[i].kind = "tag"
      PROVE  /\ e # 0
             /\ ents'[e].kind = IF idents'[i].ty.k = "struct" THEN "struct" ELSE "enum"
             /\ idents'[i].ty.k = "struct" => types'[idents'[i].ty.n].complete = (ents'[e].def = "yes")
  <2>1. idents[i].kind = "tag" /\ idents'[i].ty = idents[i].ty
    BY <1>3, <1>6
  <2>2. /\ e # 0 /\ ents[e].kind = IF idents[i].ty.k = "struct" THEN "struct" ELSE "enum"
        /\ idents[i].ty.k = "struct" => types[TypeOf(i)].complete = (ents[e].def = "yes")
    BY <1>1, <2>1 DEF StandOK, e
  <2>3. ents'[e].def = ents[e].def /\ ents'[e].kind = ents[e].kind
    BY <1>4, <2>1, <2>2 DEF e
  <2> QED
    BY <2>1, <2>2, <2>3 DEF TypeOf
<1> QED
  BY <1>3, <1>5, <1>6 DEF StandOK, LinkageOf, TypeOf

LEMMA StructsCarried ==
  ASSUME StructsOK, IdentsCarried, TypesCarried,
         \A i \in DOMAIN idents' :
           i \in DOMAIN idents \/ idents'[i].kind # "tag" \/ idents'[i].ty.k # "struct"
  PROVE  StructsOK'
<1>1. ASSUME NEW i \in DOMAIN idents', idents'[i].kind = "tag", idents'[i].ty.k = "struct"
      PROVE  /\ i \in DOMAIN idents /\ i # 0 => IsStructTag(i)
             /\ idents'[i].ty.n = TypeOf(i) /\ stands'[i] = stands[i]
  BY <1>1 DEF IdentsCarried, IsStructTag, TypeOf
<1>2. \A i \in DOMAIN idents' :
        IsStructTag(i)' => /\ i \in DOMAIN idents /\ IsStructTag(i)
                           /\ idents'[i].ty.n = TypeOf(i) /\ stands'[i] = stands[i]
  BY <1>1 DEF IsStructTag
<1>3. \A i \in DOMAIN idents' : IsStructTag(i)' => idents'[i].ty.n \in DOMAIN types'
  BY <1>2 DEF StructsOK, TypesCarried
<1>4. \A i, j \in DOMAIN idents' :
        IsStructTag(i)' /\ IsStructTag(j)' =>
          (idents'[i].ty.n = idents'[j].ty.n) = (stands'[i] = stands'[j])
  BY <1>2 DEF StructsOK
<1> QED
  BY <1>3, <1>4 DEF StructsOK, TypeOf

LEMMA InRangeCarried ==
  ASSUME EntsCarried, NEW c, InRange(c)
  PROVE  InRange(c)'
BY DEF InRange, EntsCarried

\* Outside a member list.
FlatOpen ==
  /\ members = <<>> /\ scope \notin ListScopes
  /\ \A k \in DOMAIN open : /\ open[k].what # "struct"
                            /\ open[k].what = "proto" => Kind(open[k].decl) = "func" /\ ~open[k].decl.init

\* Then there are no lists, before the step or behind it.
LEMMA FlatLists ==
  ASSUME FlatOpen', StackOK'
  PROVE  OpenListsOK' /\ Lists' = 0 /\ Around' = scope'
<1>1. Lists' = 0 /\ Around' = scope'
  BY DEF FlatOpen, Lists, Around, ScopeAt
<1>2. Len(open') \in Nat /\ DOMAIN open' = 1 .. Len(open')
  <2>1. open' \in Seq(OpenType)
    BY DEF StackOK
  <2> HIDE DEF OpenType
  <2> QED
    BY <2>1
<1>3. ~ \E k \in 1 .. Lists' : TRUE
  BY <1>1
<1> QED
  BY <1>1, <1>2, <1>3 DEF OpenListsOK, FlatOpen

LEMMA FlatIn ==
  ASSUME StackOK, Coupled, ~In("struct")
  PROVE  FlatOpen /\ Lists = 0 /\ Around = scope
<1>1. OpenListsOK /\ CTablesOK /\ open \in Seq(OpenType)
  BY DEF Coupled, StackOK
<1>2. Len(open) \in Nat /\ DOMAIN open = 1 .. Len(open) /\ (open = <<>> <=> Len(open) = 0)
  <2> HIDE DEF OpenType
  <2> QED
    BY <1>1
<1>3. Lists \in Nat /\ Lists <= Len(open) /\ (Lists = 0 => members = <<>>)
  BY <1>1 DEF OpenListsOK, CTablesOK, Lists
<1>4. Lists = 0
  <2> SUFFICES ASSUME Lists # 0 PROVE FALSE
    OBVIOUS
  <2>1. 1 \in DOMAIN open /\ 1 <= Lists /\ open # <<>>
    BY <1>2, <1>3
  <2> QED
    BY <1>1, <2>1 DEF OpenListsOK, In
<1>5. Around = scope /\ scope \notin ListScopes
  BY <1>1, <1>4 DEF Around, ScopeAt, OpenListsOK
<1>6. \A k \in DOMAIN open : /\ open[k].what # "struct"
                             /\ open[k].what = "proto" => Kind(open[k].decl) = "func" /\ ~open[k].decl.init
  <2> TAKE k \in DOMAIN open
  <2>1. (open[k].what = "struct") = (k <= Lists) /\ ~(k <= Lists)
    BY <1>1, <1>2, <1>4 DEF OpenListsOK
  <2> QED
    BY <1>1, <2>1 DEF OpenListsOK
<1> QED
  BY <1>3, <1>4, <1>5, <1>6 DEF FlatOpen

LEMMA FlatUnopened ==
  ASSUME TablesOK, UnopenedOK, Lists = 0, types' = types, Lists' = 0,
         \A r \in ListScopes :
           scopes'[r].usual = scopes[r].usual /\ scopes'[r].tags = scopes[r].tags
  PROVE  UnopenedOK'
<1>1. ASSUME NEW y \in DOMAIN types, ~types[y].complete PROVE EmptyList(y)'
  <2>1. Unopened(y)
    BY <1>1 DEF Unopened
  <2>2. EmptyList(y) /\ types[y].scope \in ListScopes
    BY <2>1 DEF UnopenedOK, ListScopes
  <2> QED
    BY <2>2 DEF EmptyList
<1> QED
  BY <1>1 DEF UnopenedOK, Unopened

---------------------------------------------------------------------------
(* What both enter for a declarator.                                         *)

Denotee(cs, d) == IF Again(cs, d) = 0 THEN NewEntity ELSE Again(cs, d)

SeenType(cs, d) ==
  IF Visible(cs, d.name).ent = Denotee(cs, d)
  THEN Composite(Visible(cs, d.name).ty, DeclaredType(d)) ELSE DeclaredType(d)

\* The name n of the innermost of cs is entered for e, an old entity or one more.
CEntered(cs, n, e, ty) ==
  /\ cscopes' \in Seq(CScopeType) /\ Len(cscopes') = Len(cs)
  /\ \A j \in DOMAIN cs :
       /\ cscopes'[j].tags = cs[j].tags
       /\ \A m \in Names :
            cscopes'[j].names[m] = IF j = 1 /\ m = n THEN [ent |-> e, ty |-> ty]
                                   ELSE cs[j].names[m]
  /\ ents' \in Seq(EntityType) /\ EntsCarried
  /\ \A k \in DOMAIN ents : k # e => ents'[k] = ents[k]
  /\ e # 0 /\ e \in DOMAIN ents' /\ ents'[e].name = n
  /\ DOMAIN ents' = DOMAIN ents \cup {e}

\* The type a declarator gives.
LEMMA DeclaredTypes ==
  ASSUME NEW d \in Decls
  PROVE  /\ d.ty \in Types /\ DeclaredType(d) \in Types /\ DeclaredType(d).k = d.ty.k
         /\ ~d.init => DeclaredType(d) = d.ty
         /\ IsComplete(d.ty) => DeclaredType(d) = d.ty
         /\ \A ty \in Types : ty.k = "func" => ty = [k |-> "func", n |-> 0]
         /\ \A a, b \in Types : ~IsComplete(a) /\ ~IsComplete(b) => a = b
<1>1. d.ty \in Types
  BY DEF Decls
<1>2. ASSUME ~IsComplete(d.ty)
      PROVE  [d.ty EXCEPT !.n = InitLength] \in Types /\ [d.ty EXCEPT !.n = InitLength].k = d.ty.k
  <2>1. d.ty \in [k : {"array", "struct"}, n : Nat]
    BY <1>1, <1>2 DEF IsComplete, Types
  <2>2. [d.ty EXCEPT !.n = InitLength] \in [k : {"array", "struct"}, n : Nat]
    BY <2>1, DeclaratorsAssumption
  <2> QED
    BY <2>1, <2>2 DEF Types
<1>3. \A ty \in Types : ty.k = "func" => ty = [k |-> "func", n |-> 0]
  BY DEF Types
<1>4. \A a, b \in Types : ~IsComplete(a) /\ ~IsComplete(b) => a = b
  <2> TAKE a, b \in Types
  <2> HAVE ~IsComplete(a) /\ ~IsComplete(b)
  <2>1. a \in [k : {"array", "struct"}, n : Nat] /\ b \in [k : {"array", "struct"}, n : Nat]
    BY DEF IsComplete, Types
  <2>2. a.k = "array" /\ b.k = "array" /\ a.n = 0 /\ b.n = 0
    BY DEF IsComplete
  <2> QED
    BY <2>1, <2>2
<1> QED
  BY <1>1, <1>2, <1>3, <1>4 DEF DeclaredType

\* The entity that is declared once more.
LEMMA AgainEntity ==
  ASSUME TablesOK, Coupled, NEW s, NEW cs, At(s, cs), NEW d \in Decls, Again(cs, d) # 0
  PROVE  /\ Again(cs, d) \in DOMAIN ents /\ ents[Again(cs, d)].name = d.name
         /\ d.storage = "typedef" => Again(cs, d) = cs[1].names[d.name].ent
         /\ d.storage # "typedef" =>
              /\ Again(cs, d) = FileEntry(cs, d.name).ent
              /\ ents[Again(cs, d)].ty = FileEntry(cs, d.name).ty
              /\ ents[Again(cs, d)].linkage # "none"
<1> DEFINE n == d.name
           old == Again(cs, d)
<1>1. n \in Names
  BY DEF Decls
<1>2. KnownHere(s, cs, n) /\ KnownLinked(cs, n)
  BY <1>1, NameHere, NameLinked
<1>3. CASE d.storage = "typedef"
  <2>1. old = cs[1].names[n].ent
    BY <1>3 DEF Again, Kind, Here
  <2> QED
    BY <1>2, <1>3, <2>1 DEF KnownHere, EntryOf
<1>4. CASE d.storage # "typedef"
  <2>1. old = FileEntry(cs, n).ent /\ Linked(n) # {}
    BY <1>4, OrdinaryLinkage
  <2>2. old \in Linked(n)
    BY <1>2, <2>1 DEF KnownLinked
  <2> QED
    BY <1>2, <1>4, <2>1, <2>2 DEF KnownLinked, Linked
<1> QED
  BY <1>3, <1>4

\* What C enters is the entity, with the type that is seen.
LEMMA EnteredInC ==
  ASSUME TablesOK, Coupled, NEW s, NEW cs, At(s, cs), NEW d \in Decls, Enter(cs, d)
  PROVE  LET old == Again(cs, d)
             e == Denotee(cs, d)
         IN  /\ CEntered(cs, d.name, e, SeenType(cs, d)) /\ meant' = <<e>>
             /\ old = 0 => /\ e \notin DOMAIN ents /\ e = Len(ents) + 1
                           /\ ents'[e].kind = Kind(d) /\ ents'[e].linkage = CLinkage(cs, d)
                           /\ ents'[e].ty = Composite(d.ty, DeclaredType(d))
             /\ old # 0 => /\ e \in DOMAIN ents
                           /\ ents'[e].ty = Composite(ents[e].ty, DeclaredType(d))
             /\ SeenType(cs, d) \in Types
<1> DEFINE n == d.name
           old == Again(cs, d)
           e == Denotee(cs, d)
           seen == Visible(cs, n)
           ty == SeenType(cs, d)
           was == IF old = 0 THEN Entity(Kind(d), n, CLinkage(cs, d), d.ty) ELSE ents[old]
           now == [was EXCEPT !.ty = Composite(@, DeclaredType(d)),
                              !.def = Defined(cs, d, @),
                              !.static = @ \/ was.linkage # "none" \/ d.storage = "static"]
           entry == [ent |-> e, ty |-> ty]
<1>1. /\ ents' = IF old = 0 THEN Append(ents, now) ELSE [ents EXCEPT ![e] = now]
      /\ cscopes' = [cs EXCEPT ![1].names[n] = entry]
      /\ meant' = <<e>>
  BY DEF Enter, Denotee, SeenType
<1>2. n \in Names /\ d.ty \in Types /\ DeclaredType(d) \in Types
  BY DeclaredTypes DEF Decls
<1>3. /\ cs \in Seq(CScopeType) /\ 1 \in DOMAIN cs /\ Len(cs) \in Nat /\ DOMAIN cs = 1 .. Len(cs)
      /\ \A j \in 1 .. Len(cs) : cs[j] \in CScopeType
  BY AtDomains DEF At
<1>4. old # 0 => old \in DOMAIN ents /\ ents[old].name = n
  BY AgainEntity
<1>5. /\ \A k \in DOMAIN ents : k \in Nat /\ k # 0
      /\ Len(ents) \in Nat /\ DOMAIN ents = 1 .. Len(ents)
      /\ ents \in Seq(EntityType) /\ \A k \in DOMAIN ents : ents[k] \in EntityType
  BY EntNumbers
<1>6. ty \in Types
  <2>1. \/ seen.ent = 0
        \/ \E j \in DOMAIN cs : cs[j].names[n] = seen
    BY <1>2, <1>3, VisibleFound
  <2>2. seen.ent # 0 => seen.ty \in Types
    BY <1>2, <1>3, <2>1 DEF CScopeType
  <2>3. e # 0
    BY <1>5 DEF Denotee, NewEntity
  <2> QED
    BY <1>2, <2>2, <2>3 DEF SeenType, Composite
<1>7. CLinkage(cs, d) \in Linkages
  <2>1. KnownAround(s, cs, n)
    BY <1>2, NameAround
  <2>2. LinkageOf(Visible(cs, n).ent) \in Linkages
    BY <1>5, <2>1 DEF KnownAround, EntryOf, LinkageOf, EntityType, Linkages
  <2> QED
    BY <2>2 DEF CLinkage, Linkages
<1>8. was \in EntityType
  <2>1. CASE old = 0
    <3>1. was = Entity(Kind(d), n, CLinkage(cs, d), d.ty)
      BY <2>1
    <3>2. Kind(d) \in {"typedef", "func", "object"}
      BY DEF Kind
    <3> DEFINE kind == Kind(d)
               linkage == CLinkage(cs, d)
               t0 == d.ty
    <3>3. was = [kind |-> kind, name |-> n, linkage |-> linkage, ty |-> t0,
                 static |-> FALSE, def |-> "no"]
      BY <3>1 DEF Entity
    <3>4. kind \in {"typedef", "func", "object"} /\ linkage \in Linkages /\ t0 \in Types /\ n \in Names
      BY <1>2, <1>7, <3>2
    <3> HIDE DEF kind, linkage, t0, n, was
    <3> QED
      BY <3>3, <3>4 DEF EntityType
  <2>2. CASE old # 0
    BY <1>4, <1>5, <2>2
  <2> QED
    BY <2>1, <2>2
<1>9. /\ now \in EntityType /\ now.kind = was.kind /\ now.name = was.name
      /\ now.linkage = was.linkage /\ now.ty = Composite(was.ty, DeclaredType(d))
  <2> DEFINE t2 == Composite(was.ty, DeclaredType(d))
             d2 == Defined(cs, d, was.def)
             s2 == was.static \/ was.linkage # "none" \/ d.storage = "static"
  <2>1. t2 \in Types
    BY <1>2, <1>8 DEF Composite, EntityType
  <2>2. d2 \in {"no", "tentative", "yes"}
    BY <1>8 DEF Defined, EntityType
  <2>3. s2 \in BOOLEAN
    OBVIOUS
  <2>4. now = [was EXCEPT !.ty = t2, !.def = d2, !.static = s2]
    OBVIOUS
  <2> HIDE DEF t2, d2, s2, now, was
  <2>5. now \in EntityType
    BY <1>8, <2>1, <2>2, <2>3, <2>4 DEF EntityType
  <2>6. now.kind = was.kind /\ now.name = was.name /\ now.linkage = was.linkage /\ now.ty = t2
    BY <1>8, <2>4 DEF EntityType
  <2> QED
    BY <2>5, <2>6 DEF t2
<1>10. /\ was.name = n
       /\ old = 0 => was.kind = Kind(d) /\ was.linkage = CLinkage(cs, d) /\ was.ty = d.ty
       /\ old # 0 => was = ents[old]
  BY <1>4 DEF Entity
<1>11. e = IF old = 0 THEN Len(ents) + 1 ELSE old
  BY DEF Denotee, NewEntity
<1>12. /\ cscopes' \in Seq(CScopeType) /\ Len(cscopes') = Len(cs)
       /\ \A j \in DOMAIN cs :
            /\ cscopes'[j].tags = cs[j].tags
            /\ \A m \in Names :
                 cscopes'[j].names[m] = IF j = 1 /\ m = n THEN entry ELSE cs[j].names[m]
  <2> DEFINE top == [cs[1] EXCEPT !.names[n] = entry]
  <2>1. entry \in [ent : Nat, ty : Types]
    BY <1>4, <1>5, <1>6, <1>11
  <2>2. cs[1] \in CScopeType
    BY <1>3
  <2>3. cscopes' = [cs EXCEPT ![1] = top]
    BY <1>1
  <2> HIDE DEF entry
  <2>4. /\ top \in CScopeType /\ top.tags = cs[1].tags
        /\ \A m \in Names : top.names[m] = IF m = n THEN entry ELSE cs[1].names[m]
    BY <1>2, <2>1, <2>2 DEF CScopeType
  <2> HIDE DEF top
  <2>5. /\ cscopes' \in Seq(CScopeType) /\ Len(cscopes') = Len(cs)
        /\ \A j \in DOMAIN cs : cscopes'[j] = IF j = 1 THEN top ELSE cs[j]
    <3> HIDE DEF CScopeType
    <3> QED
      BY <1>3, <2>3, <2>4, Replaced
  <2> QED
    BY <2>4, <2>5
<1> HIDE DEF now, was, e, old, entry, ty, n
<1>13. CASE old = 0
  <2>1. ents' = Append(ents, now) /\ e = Len(ents) + 1
    BY <1>1, <1>11, <1>13
  <2>2. /\ ents' \in Seq(EntityType) /\ Len(ents') = Len(ents) + 1
        /\ DOMAIN ents' = 1 .. Len(ents) + 1 /\ ents'[e] = now
        /\ \A k \in DOMAIN ents : k \in DOMAIN ents' /\ ents'[k] = ents[k]
    <3> HIDE DEF EntityType
    <3> QED
      BY <1>5, <1>9, <2>1, Appended
  <2>3. e \notin DOMAIN ents /\ DOMAIN ents' = DOMAIN ents \cup {e} /\ e # 0
    BY <1>5, <2>1, <2>2
  <2>4. EntsCarried
    BY <2>2 DEF EntsCarried
  <2>5. CEntered(cs, n, e, ty)
    BY <1>9, <1>10, <1>12, <2>2, <2>3, <2>4 DEF CEntered, entry
  <2> QED
    BY <1>1, <1>6, <1>9, <1>10, <1>13, <2>1, <2>2, <2>3, <2>5 DEF e, old, ty, n
<1>14. CASE old # 0
  <2>1. ents' = [ents EXCEPT ![e] = now] /\ e = old /\ e \in DOMAIN ents
    BY <1>1, <1>4, <1>11, <1>14
  <2>2. /\ ents' \in Seq(EntityType) /\ DOMAIN ents' = DOMAIN ents
        /\ \A k \in DOMAIN ents : ents'[k] = IF k = e THEN now ELSE ents[k]
    <3> HIDE DEF EntityType
    <3> QED
      BY <1>5, <1>9, <2>1, Replaced
  <2>3. EntsCarried
    BY <1>9, <1>10, <1>14, <2>1, <2>2 DEF EntsCarried
  <2>4. e # 0 /\ DOMAIN ents' = DOMAIN ents \cup {e}
    BY <1>5, <2>1, <2>2
  <2>5. CEntered(cs, n, e, ty)
    BY <1>9, <1>10, <1>12, <2>1, <2>2, <2>3, <2>4 DEF CEntered, entry
  <2> QED
    BY <1>1, <1>6, <1>9, <1>10, <1>14, <2>1, <2>2, <2>5 DEF e, old, ty, n
<1> QED
  BY <1>13, <1>14

LinkageIn(d, s) == IF d.storage = "typedef" THEN "none" ELSE DeclaredLinkage(d, s)

\* A declarator that both take.
Taken(s, cs, d) ==
  /\ At(s, cs) /\ d \in Decls /\ (d.init => Kind(d) = "object")
  /\ Plain(cs, d) /\ ~CConstraint(cs, d) /\ ~CUndefined(cs, d) /\ ~Refused(d, s)

\* A new identifier has the type and the linkage of the entity.
LEMMA NewAgrees ==
  ASSUME TablesOK, KindsOK, Coupled, NEW s, NEW cs, NEW d, Taken(s, cs, d),
         d.storage = "typedef" => scopes[s].usual[d.name] = 0,
         d.storage # "typedef" => Redeclared(d, s) = 0
  PROVE  LET old == Again(cs, d)
             linkage == LinkageIn(d, s)
         IN  /\ linkage = IF old = 0 THEN CLinkage(cs, d) ELSE ents[old].linkage
             /\ SeenType(cs, d) = DeclaredType(d)
             /\ old # 0 => AtFile(cs) /\ Composite(ents[old].ty, DeclaredType(d)) = DeclaredType(d)
             /\ linkage # "none" => AtFile(cs) /\ Kind(d) \in {"func", "object"}
             /\ old # 0 => linkage # "none"
<1> DEFINE n == d.name
           here == scopes[s].usual[n]
           entry == cs[1].names[n]
           old == Again(cs, d)
           seen == Visible(cs, n)
<1>1. /\ n \in Names /\ d \in Decls /\ At(s, cs) /\ Plain(cs, d) /\ ~CConstraint(cs, d)
      /\ ~CUndefined(cs, d) /\ ~Refused(d, s) /\ (d.init => Kind(d) = "object")
  BY DEF Taken, Decls
<1>2. KnownHere(s, cs, n) /\ KnownAround(s, cs, n) /\ KnownLinked(cs, n)
      /\ IsFileScope(s) = AtFile(cs)
  BY <1>1, NameHere, NameAround, NameLinked
<1>3. old = 0 => SeenType(cs, d) = DeclaredType(d)
  <2> SUFFICES ASSUME old = 0 PROVE SeenType(cs, d) = DeclaredType(d)
    OBVIOUS
  <2>1. Denotee(cs, d) = Len(ents) + 1
    BY DEF Denotee, NewEntity
  <2>2. seen.ent # Len(ents) + 1
    <3>1. seen.ent = 0 \/ seen.ent \in DOMAIN ents
      BY <1>2 DEF KnownAround, EntryOf
    <3> HIDE DEF seen
    <3> QED
      BY <3>1, EntNumbers
  <2> QED
    BY <2>1, <2>2 DEF SeenType
<1>4. CASE d.storage = "typedef"
  <2>1. entry.ent = 0
    BY <1>1, <1>2, <1>4 DEF KnownHere, Plain, Here
  <2>2. old = 0 /\ CLinkage(cs, d) = "none"
    BY <1>4, <2>1 DEF Again, Kind, Here, CLinkage
  <2> QED
    BY <1>3, <1>4, <2>2 DEF LinkageIn
<1>5. CASE d.storage # "typedef" /\ AtFile(cs)
  <2>1. Kind(d) # "typedef" /\ Kind(d) \in {"func", "object"} /\ LinkageIn(d, s) = DeclaredLinkage(d, s)
        /\ FileEntry(cs, n) = entry
    BY <1>5 DEF Kind, LinkageIn, FileEntry, AtFile
  <2>2. DeclaredLinkage(d, s) = IF d.storage = "static" THEN "internal" ELSE "external"
    BY <1>2, <1>5 DEF DeclaredLinkage
  <2>3. CASE here = 0
    <3>1. entry.ent = 0 /\ seen.ent = 0
      BY <1>2, <1>5, <2>3 DEF KnownHere, KnownAround, IdentFor
    <3>2. Linked(n) = {}
      BY <1>2, <2>1, <3>1 DEF KnownLinked
    <3>3. old = 0 /\ LinkageOf(seen.ent) = "none"
      BY <1>1, <1>5, <3>1, <3>2, OrdinaryLinkage DEF LinkageOf
    <3>4. CLinkage(cs, d) = IF d.storage = "static" THEN "internal" ELSE "external"
      BY <1>1, <1>5, <3>3, OrdinaryLinkage
    <3> QED
      BY <1>3, <1>5, <2>1, <2>2, <3>3, <3>4
  <2>4. CASE here # 0
    <3>1. /\ here \in DOMAIN idents /\ Stands(here, entry) /\ idents[here].linkage = LinkageOf(entry.ent)
          /\ entry.ent # 0 /\ seen = entry /\ idents[here].ty = entry.ty
          /\ entry.ent \in DOMAIN ents /\ LinkageOf(entry.ent) = ents[entry.ent].linkage
      BY <1>2, <2>4 DEF KnownHere, IdentFor, Stands, EntryOf
    <3>2. LinkageOf(entry.ent) # "none" /\ Compatible(entry.ty, d.ty)
      BY <1>1, <2>1, <3>1 DEF CConstraint, Here
    <3>3. ~IsObject(here)
      BY <1>5, <2>4 DEF Redeclared, FindUsualInCurrScope
    <3>4. idents[here].kind = "func" /\ idents[here].ty.k = "func"
      BY <3>1, <3>2, <3>3, <2>4 DEF KindsOK, IsObject
    <3>5. d.ty.k = "func" /\ Kind(d) = "func" /\ ~d.init
      BY <1>1, <1>5, <3>1, <3>2, <3>4 DEF Compatible, Kind
    <3>6. d.ty = [k |-> "func", n |-> 0] /\ entry.ty = d.ty /\ DeclaredType(d) = d.ty
      <4>1. idents[here].ty \in Types
        BY <3>1, Domains DEF IdentType
      <4> QED
        BY <1>1, <3>1, <3>4, <3>5, <4>1, DeclaredTypes
    <3>7. old = entry.ent
      <4>1. entry.ent \in Linked(n)
        BY <1>2, <3>1, <3>2 DEF KnownHere, EntryOf
      <4>2. old # 0 /\ old = FileEntry(cs, n).ent
        BY <1>1, <1>5, <4>1, OrdinaryLinkage
      <4> QED
        BY <2>1, <4>2
    <3>8. ents[old].ty = d.ty /\ old # 0
      <4>1. Linked(n) # {}
        BY <1>2, <3>1, <3>2 DEF KnownHere, EntryOf
      <4> QED
        BY <1>2, <2>1, <3>1, <3>6, <3>7, <4>1 DEF KnownLinked
    <3>9. Denotee(cs, d) = old
      BY <3>8 DEF Denotee
    <3>10. SeenType(cs, d) = DeclaredType(d) /\ Composite(ents[old].ty, DeclaredType(d)) = DeclaredType(d)
      BY <3>1, <3>6, <3>7, <3>8, <3>9 DEF SeenType, Composite
    <3>11. ents[old].linkage = CLinkage(cs, d)
      BY <1>1, <2>1, <3>8 DEF CUndefined
    <3>12. ents[old].linkage = LinkageOf(entry.ent) /\ ents[old].linkage \in Linkages
      BY <3>1, <3>7, EntNumbers DEF EntityType
    <3>13. d.storage # "static" => LinkageOf(entry.ent) # "internal"
      BY <1>1, <1>5, <3>5 DEF Plain, Here
    <3>14. DeclaredLinkage(d, s) = ents[old].linkage
      <4>1. CASE d.storage = "static"
        BY <1>1, <1>5, <2>2, <3>11, <4>1, OrdinaryLinkage
      <4>2. CASE d.storage # "static"
        BY <2>2, <3>2, <3>12, <3>13, <4>2 DEF Linkages
      <4> QED
        BY <4>1, <4>2
    <3> QED
      BY <1>5, <2>1, <3>2, <3>8, <3>10, <3>12, <3>14
  <2> QED
    BY <2>3, <2>4
<1>6. CASE d.storage # "typedef" /\ ~AtFile(cs)
  <2> DEFINE i == FindUsual(s, n)
  <2>1. here = 0 /\ Kind(d) = "object" /\ d.ty.k # "func"
    BY <1>1, <1>6, InnerDeclarator DEF Kind
  <2>2. d.storage # "extern"
    <3> SUFFICES ASSUME d.storage = "extern" PROVE FALSE
      OBVIOUS
    <3>1. IdentFor(i, seen) /\ LinkageOf(seen.ent) # "none"
      BY <1>1, <1>6, <2>1, InnerDeclarator
    <3>2. i # 0 /\ idents[i].kind \in {"func", "object"} /\ i \in DOMAIN idents
      BY <3>1 DEF IdentFor, KindsOK
    <3>3. Outer(d, s) = i
      BY DEF Outer
    <3>4. ~IsObject(i)
      BY <1>6, <2>1, <3>2, <3>3 DEF Redeclared, FindUsualInCurrScope, IsObject
    <3>5. idents[i].ty.k = "func"
      BY <3>2, <3>4 DEF IsObject, KindsOK
    <3>6. Mismatch(d, Outer(d, s)) /\ ~IsObject(here)
      BY <2>1, <3>2, <3>3, <3>5 DEF Mismatch, Compatible, IsObject
    <3> QED
      BY <1>1, <1>6, <3>6 DEF Refused, FindUsualInCurrScope
  <2>3. CLinkage(cs, d) = "none" /\ old = 0
    BY <1>1, <1>6, <2>1, <2>2, OrdinaryLinkage
  <2>4. LinkageIn(d, s) = "none"
    BY <1>2, <1>6 DEF LinkageIn, DeclaredLinkage
  <2> QED
    BY <1>3, <2>3, <2>4
<1> QED
  BY <1>4, <1>5, <1>6

\* The object that is declared once more is that entity.
LEMMA RedeclaredAgrees ==
  ASSUME TablesOK, KindsOK, Coupled, NEW s, NEW cs, NEW d, Taken(s, cs, d),
         d.storage # "typedef", Redeclared(d, s) # 0
  PROVE  LET old == Again(cs, d)
             i == Redeclared(d, s)
             entry == Visible(cs, d.name)
         IN  /\ i \in DOMAIN idents /\ idents[i].kind = "object"
             /\ old # 0 /\ IdentFor(i, entry) /\ old = entry.ent
             /\ ents[old].ty = entry.ty /\ ents[old].linkage # "none"
             /\ entry = FileEntry(cs, d.name) /\ SeenType(cs, d) = Composite(entry.ty, DeclaredType(d))
             /\ AtFile(cs) => i = scopes[s].usual[d.name]
             /\ ~AtFile(cs) =>
                  /\ ~d.init /\ (IsComplete(d.ty) => IsComplete(entry.ty))
                  /\ scopes[s].usual[d.name] = 0
                  /\ d.storage = "extern"
                  /\ \A k \in 1 .. Len(cs) - 1 : scopes[scopes[s].chain[k]].usual[d.name] = 0
<1> DEFINE n == d.name
           here == scopes[s].usual[n]
           entry == Visible(cs, n)
           old == Again(cs, d)
           i == Redeclared(d, s)
<1>1. /\ n \in Names /\ d \in Decls /\ At(s, cs) /\ Plain(cs, d) /\ ~CConstraint(cs, d)
      /\ ~CUndefined(cs, d) /\ (d.init => Kind(d) = "object")
  BY DEF Taken, Decls
<1>2. KnownHere(s, cs, n) /\ KnownAround(s, cs, n) /\ KnownLinked(cs, n)
      /\ IsFileScope(s) = AtFile(cs)
  BY <1>1, NameHere, NameAround, NameLinked
<1>3. idents[i].kind = "object" /\ (i = here \/ (d.storage = "extern" /\ i = FindUsual(s, n)))
  BY DEF Redeclared, IsObject, Outer, FindUsualInCurrScope
<1>4. CASE AtFile(cs)
  <2>1. i = here /\ IdentFor(here, cs[1].names[n]) /\ entry = cs[1].names[n] /\ entry.ent # 0
    BY <1>2, <1>3, <1>4 DEF KnownHere, KnownAround, IdentFor, Stands
  <2>2. entry = FileEntry(cs, n)
    BY <1>4, <2>1 DEF FileEntry, AtFile
  <2>3. Kind(d) # "typedef"
    BY DEF Kind
  <2>4. LinkageOf(entry.ent) # "none"
    BY <1>1, <2>1, <2>3 DEF CConstraint, Here
  <2>5. entry.ent \in Linked(n)
    BY <1>2, <2>1, <2>4 DEF KnownAround, EntryOf
  <2>6. old # 0 /\ old = entry.ent /\ ents[old].ty = entry.ty /\ ents[old].linkage # "none"
    <3>1. old # 0 /\ old = FileEntry(cs, n).ent
      BY <1>1, <1>4, <2>5, OrdinaryLinkage
    <3> QED
      BY <1>2, <2>2, <2>5, <3>1 DEF KnownLinked
  <2>7. SeenType(cs, d) = Composite(entry.ty, DeclaredType(d))
    BY <2>6 DEF SeenType, Denotee
  <2> HIDE DEF entry
  <2>8. i \in DOMAIN idents /\ IdentFor(i, entry)
    BY <2>1 DEF IdentFor
  <2> QED
    BY <1>3, <1>4, <2>1, <2>2, <2>6, <2>7, <2>8 DEF entry
<1>5. CASE ~AtFile(cs)
  <2>1. here = 0
    BY <1>1, <1>5, InnerDeclarator
  <2>2. d.storage = "extern" /\ i = FindUsual(s, n)
    BY <1>3, <2>1
  <2>3. Kind(d) = "object"
    <3>1. Kind(d) # "func"
      BY <1>1, <1>5, InnerDeclarator
    <3> QED
      BY <3>1 DEF Kind
  <2>4. /\ entry = FileEntry(cs, n) /\ IdentFor(i, entry) /\ entry.ent # 0
        /\ LinkageOf(entry.ent) # "none"
        /\ old = entry.ent /\ ents[entry.ent].ty = entry.ty
        /\ CLinkage(cs, d) = LinkageOf(entry.ent)
        /\ \A k \in 1 .. Len(cs) - 1 : scopes[scopes[s].chain[k]].usual[n] = 0
    BY <1>1, <1>5, <2>2, <2>3, InnerDeclarator
  <2>5. ~d.init /\ (IsComplete(d.ty) => IsComplete(entry.ty))
    BY <1>1, <1>5, <2>2, <2>3, <2>4 DEF CConstraint, Plain
  <2>6. SeenType(cs, d) = Composite(entry.ty, DeclaredType(d))
    BY <2>4 DEF SeenType, Denotee
  <2>7. ents[old].linkage # "none" /\ i \in DOMAIN idents
    BY <2>4 DEF LinkageOf, IdentFor
  <2> HIDE DEF entry, old, i, here, n
  <2> QED
    BY <1>3, <1>5, <2>1, <2>2, <2>4, <2>5, <2>6, <2>7 DEF entry, old, i, here, n
<1> QED
  BY <1>4, <1>5

---------------------------------------------------------------------------
(* A name is entered in both.                                                *)

LEMMA NamesMoved ==
  ASSUME NEW s, s = Around', NamesOK(s, cscopes)', TagsOK(s, cscopes)'
  PROVE  NamesOK(Around, cscopes)' /\ TagsOK(Around, cscopes)'
BY DEF NamesOK, TagsOK, Extern

\* Where nothing is entered, they correspond as they did.
LEMMA NamesStay ==
  ASSUME NEW s, NEW cs, NamesOK(s, cs), cs = cscopes', stands' = stands,
         UNCHANGED <<scopes, idents, ents>>
  PROVE  NamesOK(s, cscopes)'
<1>1. \A e : LinkageOf(e)' = LinkageOf(e)
  BY DEF LinkageOf
<1>2. \A j \in DOMAIN cs, n \in Names : Extern(s, cscopes, j, n)' = Extern(s, cs, j, n)
  BY <1>1 DEF Extern, FileEntry
<1>3. /\ Len(scopes'[s].chain) = Len(cscopes')
      /\ \A j \in DOMAIN cs, n \in Names :
           LET i == scopes'[scopes'[s].chain[j]].usual[n]
               x == cs[j].names[n]
           IN  IF i # 0 THEN x.ent # 0 /\ stands'[i] = x.ent /\ idents'[i].ty = x.ty
               ELSE x.ent = 0 \/ Extern(s, cs, j, n)
  BY DEF NamesOK, Stands
<1> QED
  BY <1>2, <1>3 DEF NamesOK, Stands

\* What an entry says after the step.
EntryAfter(s, cs, n, e, ty) ==
  LET i == scopes'[s].usual[n]
  IN  \/ i # 0 /\ e # 0 /\ stands'[i] = e /\ idents'[i].ty = ty
      \/ /\ i = 0 /\ 1 < Len(cs) /\ scopes[s].type = "block"
         /\ [ent |-> e, ty |-> ty] = FileEntry(cs, n) /\ ents'[e].linkage # "none"
         /\ \A k \in 1 .. Len(cs) - 1 : scopes[scopes[s].chain[k]].usual[n] = 0

\* One name of scope s may be new, the others are as they were.
OnlyName(s, n) ==
  \A r \in DOMAIN scopes :
    /\ scopes'[r].tags = scopes[r].tags
    /\ \A m \in Names : r # s \/ m # n => scopes'[r].usual[m] = scopes[r].usual[m]

TypesChanged(cs, e) ==
  \A i \in DOMAIN idents :
    idents'[i].ty # idents[i].ty => AtFile(cs) /\ stands[i] = e

\* The same, of the names alone.
OneUsual(s, n) ==
  \A r \in DOMAIN scopes, m \in Names :
    r # s \/ m # n => scopes'[r].usual[m] = scopes[r].usual[m]

CNamed(cs, n, e, ty) ==
  /\ cscopes' \in Seq(CScopeType) /\ Len(cscopes') = Len(cs) /\ EntsCarried /\ ents'[e].name = n /\ e # 0
  /\ \A j \in DOMAIN cs, m \in Names :
       cscopes'[j].names[m] = IF j = 1 /\ m = n THEN [ent |-> e, ty |-> ty] ELSE cs[j].names[m]

LEMMA EnteredAlone ==
  ASSUME NEW s, NEW n, OnlyName(s, n), NEW cs, NEW e, NEW ty, CEntered(cs, n, e, ty)
  PROVE  OneUsual(s, n) /\ CNamed(cs, n, e, ty)
BY DEF OnlyName, OneUsual, CEntered, CNamed

\* Then the names correspond behind the step, and so do the tags and what
\* has linkage.
LEMMA EnteredNames ==
  ASSUME TablesOK, Coupled, NEW s, NEW cs, At(s, cs), NEW n \in Names, NEW e, NEW ty,
         SameChains, CNamed(cs, n, e, ty), IdentsCarried, OneUsual(s, n), TypesChanged(cs, e),
         EntryAfter(s, cs, n, e, ty)
  PROVE  NamesOK(s, cscopes)'
<1> DEFINE c == scopes[s].chain
<1>1. /\ Len(cs) \in Nat /\ Len(cs) >= 1 /\ DOMAIN cs = 1 .. Len(cs)
      /\ Len(c) = Len(cs) /\ DOMAIN c = 1 .. Len(cs)
      /\ c[1] = s /\ \A j \in 1 .. Len(cs) : c[j] \in DOMAIN scopes /\ cs[j] \in CScopeType
  BY AtDomains
<1>2. /\ s \in DOMAIN scopes /\ cs \in Seq(CScopeType) /\ NamesOK(s, cs)
      /\ \A j \in DOMAIN cs : InRange(cs[j])
  BY DEF At
<1>3. ChainsOK
  BY DEF Coupled
<1>4. scopes'[s].chain = c /\ \A r \in DOMAIN scopes : scopes'[r].type = scopes[r].type
  BY <1>2 DEF SameChains
<1>5. /\ Len(cscopes') = Len(cs) /\ DOMAIN cscopes' = DOMAIN cs
      /\ \A j \in DOMAIN cs, m \in Names :
           cscopes'[j].names[m] = IF j = 1 /\ m = n THEN [ent |-> e, ty |-> ty] ELSE cs[j].names[m]
  <2>1. cscopes' \in Seq(CScopeType) /\ Len(cscopes') = Len(cs)
    BY DEF CNamed
  <2>2. DOMAIN cscopes' = 1 .. Len(cs)
    <3> HIDE DEF CScopeType
    <3> QED
      BY <2>1
  <2> QED
    BY <1>1, <2>1, <2>2 DEF CNamed
<1> DEFINE old(j, m) == scopes[c[j]].usual[m]
           new(j, m) == scopes'[c[j]].usual[m]
<1>6. \A j \in DOMAIN cs, m \in Names : j # 1 \/ m # n => new(j, m) = old(j, m)
  <2> TAKE j \in DOMAIN cs, m \in Names
  <2> HAVE j # 1 \/ m # n
  <2>1. c[j] # s \/ m # n
    <3>1. c[j] = c[1] => j = 1
      BY <1>1, <1>2, <1>3, ChainDistinct
    <3> QED
      BY <1>1, <3>1
  <2> QED
    BY <1>1, <2>1 DEF OneUsual
<1>7. ASSUME NEW j \in DOMAIN cs, NEW m \in Names, j # 1 \/ m # n, old(j, m) # 0
      PROVE  LET i == new(j, m)
                 x == cscopes'[j].names[m]
             IN  i # 0 /\ x.ent # 0 /\ stands'[i] = x.ent /\ idents'[i].ty = x.ty
  <2> DEFINE i == old(j, m)
             x == cs[j].names[m]
  <2>1. new(j, m) = i /\ cscopes'[j].names[m] = x
    BY <1>5, <1>6, <1>7
  <2>2. Stands(i, x) /\ i \in DOMAIN idents
    <3>1. c[j] \in DOMAIN scopes
      BY <1>1, <1>7
    <3>2. i \in DOMAIN idents
      BY <1>7, <3>1, EntryIdent
    <3>3. Stands(i, x)
      BY <1>2, <1>7 DEF NamesOK
    <3> QED
      BY <3>2, <3>3
  <2>3. x.ent # 0 /\ stands'[i] = x.ent /\ idents[i].ty = x.ty
    BY <2>2 DEF Stands, IdentsCarried
  <2>4. idents'[i].ty = idents[i].ty
    <3> SUFFICES ASSUME idents'[i].ty # idents[i].ty PROVE FALSE
      OBVIOUS
    <3>1. AtFile(cs) /\ x.ent = e
      BY <2>2 DEF TypesChanged, Stands
    <3>2. ents[x.ent].name = m /\ x.ent \in DOMAIN ents
      BY <1>2, <2>3 DEF InRange
    <3>3. ents'[e].name = n /\ ents'[x.ent].name = ents[x.ent].name
      BY <3>2 DEF CNamed, EntsCarried
    <3>4. m = n
      BY <3>1, <3>2, <3>3
    <3>5. j = 1
      BY <1>1, <3>1 DEF AtFile
    <3> QED
      BY <1>7, <3>4, <3>5
  <2> QED
    BY <1>7, <2>1, <2>3, <2>4
<1>8. ASSUME NEW j \in DOMAIN cs, NEW m \in Names, j # 1 \/ m # n, old(j, m) = 0
      PROVE  new(j, m) = 0 /\ (cscopes'[j].names[m].ent = 0 \/ Extern(s, cscopes, j, m)')
  <2> DEFINE x == cs[j].names[m]
  <2>1. new(j, m) = 0 /\ cscopes'[j].names[m] = x
    BY <1>5, <1>6, <1>8
  <2>2. ASSUME x.ent # 0 PROVE Extern(s, cscopes, j, m)'
    <3>1. Extern(s, cs, j, m)
      BY <1>2, <1>8, <2>2 DEF NamesOK
    <3>2. /\ j < Len(cs) /\ scopes[c[j]].type = "block" /\ x = FileEntry(cs, m)
          /\ LinkageOf(x.ent) # "none" /\ \A k \in j .. Len(cs) - 1 : old(k, m) = 0
      BY <3>1 DEF Extern
    <3>3. FileEntry(cs, m) = cscopes'[Len(cs)].names[m]
      BY <1>1, <1>5, <3>2 DEF FileEntry
    <3>4. ents'[x.ent].linkage # "none"
      <4>1. x.ent \in DOMAIN ents /\ ents[x.ent].linkage # "none"
        BY <1>2, <2>2, <3>2 DEF InRange, LinkageOf
      <4> QED
        BY <4>1 DEF CNamed, EntsCarried
    <3>5. \A k \in j .. Len(cs) - 1 : new(k, m) = 0
      <4> TAKE k \in j .. Len(cs) - 1
      <4>1. k \in DOMAIN cs /\ (k # 1 \/ m # n)
        BY <1>1, <1>8
      <4> QED
        BY <1>6, <3>2, <4>1
    <3>6. scopes'[c[j]].type = "block"
      BY <1>1, <1>4, <3>2
    <3> HIDE DEF new, old
    <3>7. /\ j < Len(cscopes') /\ scopes'[c[j]].type = "block"
          /\ cscopes'[j].names[m] = cscopes'[Len(cscopes')].names[m]
          /\ ents'[cscopes'[j].names[m].ent].linkage # "none"
          /\ \A k \in j .. Len(cscopes') - 1 : new(k, m) = 0
      BY <1>5, <2>1, <3>2, <3>3, <3>4, <3>5, <3>6
    <3> QED
      BY <1>4, <2>1, <2>2, <3>7 DEF Extern, FileEntry, LinkageOf, new
  <2> QED
    BY <2>1, <2>2
<1>9. LET i == new(1, n)
          x == cscopes'[1].names[n]
      IN  IF i # 0 THEN x.ent # 0 /\ stands'[i] = x.ent /\ idents'[i].ty = x.ty
          ELSE Extern(s, cscopes, 1, n)'
  <2>1. cscopes'[1].names[n] = [ent |-> e, ty |-> ty] /\ cscopes'[1].names[n].ent = e
        /\ cscopes'[1].names[n].ty = ty
    BY <1>1, <1>5
  <2>2. CASE new(1, n) # 0
    <3>1. stands'[new(1, n)] = e /\ idents'[new(1, n)].ty = ty /\ e # 0
      BY <1>1, <2>2 DEF EntryAfter
    <3> HIDE DEF new
    <3> QED
      BY <2>1, <2>2, <3>1
  <2>3. CASE new(1, n) = 0
    <3>1. /\ 1 < Len(cs) /\ scopes[s].type = "block"
          /\ [ent |-> e, ty |-> ty] = FileEntry(cs, n) /\ ents'[e].linkage # "none"
          /\ \A k \in 1 .. Len(cs) - 1 : old(k, n) = 0
      BY <1>1, <2>3 DEF EntryAfter
    <3>2. FileEntry(cs, n) = cscopes'[Len(cs)].names[n]
      BY <1>1, <1>5, <3>1 DEF FileEntry
    <3>3. \A k \in 1 .. Len(cs) - 1 : new(k, n) = 0
      <4> TAKE k \in 1 .. Len(cs) - 1
      <4>1. k \in DOMAIN cs
        BY <1>1
      <4> QED
        BY <1>6, <2>3, <3>1, <4>1
    <3>4. e # 0
      BY DEF CNamed
    <3> HIDE DEF new, old
    <3>5. /\ 1 < Len(cscopes') /\ scopes'[c[1]].type = "block"
          /\ cscopes'[1].names[n] = cscopes'[Len(cscopes')].names[n]
          /\ ents'[cscopes'[1].names[n].ent].linkage # "none"
          /\ \A k \in 1 .. Len(cscopes') - 1 : new(k, n) = 0
      BY <1>1, <1>2, <1>4, <1>5, <2>1, <3>1, <3>2, <3>3
    <3> QED
      BY <1>4, <2>1, <2>3, <3>4, <3>5 DEF Extern, FileEntry, LinkageOf, new
  <2> QED
    BY <2>2, <2>3
<1>10. ASSUME NEW j \in DOMAIN cscopes', NEW m \in Names
       PROVE  LET i == new(j, m)
                  x == cscopes'[j].names[m]
              IN  IF i # 0 THEN x.ent # 0 /\ stands'[i] = x.ent /\ idents'[i].ty = x.ty
                  ELSE x.ent = 0 \/ Extern(s, cscopes, j, m)'
  <2>1. j \in DOMAIN cs
    BY <1>5
  <2>2. CASE j # 1 \/ m # n
    <3> HIDE DEF new, old
    <3> QED
      BY <1>7, <1>8, <2>1, <2>2
  <2>3. CASE j = 1 /\ m = n
    <3> HIDE DEF new, old
    <3> QED
      BY <1>9, <2>3
  <2> QED
    BY <2>2, <2>3
<1>11. Len(c) = Len(cscopes') /\ scopes'[s].chain = c
  BY <1>1, <1>4, <1>5
<1> QED
  BY <1>10, <1>11 DEF NamesOK, Stands

LEMMA EnteredTags ==
  ASSUME TablesOK, TablesOK', Coupled, NEW s, NEW cs, At(s, cs), NEW n \in Names, NEW e, NEW ty,
         Lists = 0, SameChains, CEntered(cs, n, e, ty), IdentsCarried, OnlyName(s, n)
  PROVE  TagsOK(s, cscopes)'
<1> DEFINE c == scopes[s].chain
<1>1. /\ DOMAIN cs = 1 .. Len(cs) /\ Len(cs) \in Nat /\ TagsOK(s, cs) /\ s \in DOMAIN scopes
      /\ \A j \in 1 .. Len(cs) : c[j] \in DOMAIN scopes
  BY AtDomains DEF At
<1>2. /\ DOMAIN cscopes' = DOMAIN cs
      /\ \A j \in DOMAIN cs : cscopes'[j].tags = cs[j].tags
  <2>1. cscopes' \in Seq(CScopeType) /\ Len(cscopes') = Len(cs)
    BY DEF CEntered
  <2>2. DOMAIN cscopes' = 1 .. Len(cs)
    <3> HIDE DEF CScopeType
    <3> QED
      BY <2>1
  <2> QED
    BY <1>1, <2>2 DEF CEntered
<1>3. DOMAIN scopes' = DOMAIN scopes /\ Within' = Within /\ scopes'[s].chain = c
      /\ \A r \in DOMAIN scopes : scopes'[r].tags = scopes[r].tags
  BY <1>1, SameLists DEF SameChains, OnlyName
<1>4. ASSUME NEW j \in DOMAIN cs, NEW t \in Tags
      PROVE  /\ \A r \in DOMAIN scopes :
                  c[j] \in Within[r] /\ scopes[r].tags[t] # 0 =>
                    stands'[scopes[r].tags[t]] = cs[j].tags[t]
             /\ cs[j].tags[t] # 0 => scopes[c[j]].tags[t] # 0
  <2>1. ~ \E k \in 1 .. Lists : TRUE
    OBVIOUS
  <2>2. cs[j].tags[t] # 0 => scopes[c[j]].tags[t] # 0
    BY <1>1, <2>1 DEF TagsOK
  <2>3. ASSUME NEW r \in DOMAIN scopes, c[j] \in Within[r], scopes[r].tags[t] # 0
        PROVE  stands'[scopes[r].tags[t]] = cs[j].tags[t]
    <3>1. stands[scopes[r].tags[t]] = cs[j].tags[t]
      BY <1>1, <2>3 DEF TagsOK
    <3>2. scopes[r].tags[t] \in DOMAIN idents
      BY <2>3, StructTags
    <3> QED
      BY <3>1, <3>2 DEF IdentsCarried
  <2> QED
    BY <2>2, <2>3
<1>5. \A j \in DOMAIN cs : c[j] \in DOMAIN scopes
  BY <1>1
<1> HIDE DEF c
<1> QED
  BY <1>2, <1>3, <1>4, <1>5 DEF TagsOK

LEMMA EnteredLinked ==
  ASSUME TablesOK, Coupled, NEW s, NEW cs, At(s, cs), NEW n \in Names, NEW e, NEW ty,
         CEntered(cs, n, e, ty),
         AtFile(cs) => \A k \in Linked(n) : k = e,
         ents'[e].linkage # "none" =>
           /\ ents'[e].kind \in {"func", "object"}
           /\ ents'[e].ty = cscopes'[Len(cs)].names[n].ty
           /\ e = cscopes'[Len(cs)].names[n].ent
  PROVE  LinkedOK'
<1>1. /\ LinkedAt(cs) /\ Len(cs) \in DOMAIN cs /\ Len(cscopes') = Len(cs)
  BY AtDomains DEF At, CEntered
<1>2. ASSUME NEW k \in DOMAIN ents', ents'[k].linkage # "none", k # e
      PROVE  /\ ents'[k].name \in Names /\ ents'[k].kind \in {"func", "object"}
             /\ k = cscopes'[Len(cs)].names[ents'[k].name].ent
             /\ ents'[k].ty = cscopes'[Len(cs)].names[ents'[k].name].ty
  <2> DEFINE m == ents[k].name
  <2>1. k \in DOMAIN ents /\ ents'[k] = ents[k]
    BY <1>2 DEF CEntered
  <2>2. /\ m \in Names /\ ents[k].kind \in {"func", "object"}
        /\ k = cs[Len(cs)].names[m].ent /\ ents[k].ty = cs[Len(cs)].names[m].ty
    BY <1>1, <1>2, <2>1 DEF LinkedAt, FileEntry
  <2>3. ~(Len(cs) = 1 /\ m = n)
    BY <1>2, <2>1 DEF AtFile, Linked
  <2>4. cscopes'[Len(cs)].names[m] = cs[Len(cs)].names[m]
    BY <1>1, <2>2, <2>3 DEF CEntered
  <2> QED
    BY <2>1, <2>2, <2>4
<1>3. ents'[e].name = n
  BY DEF CEntered
<1> QED
  BY <1>1, <1>2, <1>3 DEF LinkedOK, LinkedAt, FileEntry

TablesAfter ==
  /\ stands' \in Seq(Nat) /\ Len(stands') = Len(idents')
  /\ \A i \in DOMAIN stands' : stands'[i] # 0 => stands'[i] \in DOMAIN ents'
  /\ params' \in CScopeType /\ InRange(params)'

\* The tables of C are in order behind it.
LEMMA EnteredRanges ==
  ASSUME TablesOK, Coupled, NEW s, NEW cs, At(s, cs), NEW n \in Names, NEW e, NEW ty,
         CEntered(cs, n, e, ty), members' = members, TablesAfter
  PROVE  CTablesOK' /\ RangesOK'
<1>1. /\ Len(cs) \in Nat /\ Len(cs) >= 1 /\ DOMAIN cs = 1 .. Len(cs)
      /\ \A j \in DOMAIN cs : InRange(cs[j])
  BY AtDomains DEF At
<1>2. /\ cscopes' \in Seq(CScopeType) /\ Len(cscopes') = Len(cs) /\ ents' \in Seq(EntityType)
  BY DEF CEntered
<1>3. DOMAIN cscopes' = DOMAIN cs /\ cscopes' # <<>>
  <2> HIDE DEF CScopeType
  <2> QED
    BY <1>1, <1>2
<1>4. CTablesOK'
  <2>1. members' \in Seq([ent : Nat, names : SUBSET Names])
    BY DEF Coupled, CTablesOK
  <2> QED
    BY <1>2, <1>3, <2>1 DEF CTablesOK, TablesAfter, CScopeType, EntityType
<1>5. ASSUME NEW j \in DOMAIN cs
      PROVE  /\ \A m \in Names : cscopes'[j].names[m].ent # 0 =>
                  /\ cscopes'[j].names[m].ent \in DOMAIN ents'
                  /\ ents'[cscopes'[j].names[m].ent].name = m
             /\ \A t \in Tags : cscopes'[j].tags[t] # 0 => cscopes'[j].tags[t] \in DOMAIN ents'
  <2>1. /\ \A m \in Names : cs[j].names[m].ent # 0 =>
             /\ cs[j].names[m].ent \in DOMAIN ents'
             /\ ents'[cs[j].names[m].ent].name = m
        /\ \A t \in Tags : cs[j].tags[t] # 0 => cs[j].tags[t] \in DOMAIN ents'
    BY <1>1 DEF InRange, CEntered, EntsCarried
  <2>2. ASSUME NEW m \in Names, cscopes'[j].names[m].ent # 0
        PROVE  /\ cscopes'[j].names[m].ent \in DOMAIN ents'
               /\ ents'[cscopes'[j].names[m].ent].name = m
    <3>1. cscopes'[j].names[m] = IF j = 1 /\ m = n THEN [ent |-> e, ty |-> ty] ELSE cs[j].names[m]
      BY DEF CEntered
    <3>2. e \in DOMAIN ents' /\ ents'[e].name = n
      BY DEF CEntered
    <3>3. CASE j = 1 /\ m = n
      BY <3>1, <3>2, <3>3
    <3>4. CASE ~(j = 1 /\ m = n)
      BY <2>1, <2>2, <3>1, <3>4
    <3> QED
      BY <3>3, <3>4
  <2>3. cscopes'[j].tags = cs[j].tags
    BY DEF CEntered
  <2> QED
    BY <2>1, <2>2, <2>3
<1> QED
  BY <1>3, <1>4, <1>5 DEF RangesOK, InRange, TablesAfter

\* All of it, of a name that is entered outside a member list.
LEMMA EnterCoupled ==
  ASSUME SInv, SInv', Coupled, FlatOpen, FlatOpen', NEW s, scope' = s, NEW cs, At(s, cs),
         types' = types, members' = members, SameChains,
         NEW n \in Names, NEW e, NEW ty, CEntered(cs, n, e, ty),
         IdentsCarried, TablesAfter, OnlyName(s, n), TypesChanged(cs, e),
         EntryAfter(s, cs, n, e, ty),
         scopes'[s].usual[n] = scopes[s].usual[n] \/ UsualAt(s, n)',
         e \in DOMAIN ents => ents[e].kind \notin {"struct", "enum"},
         AtFile(cs) => \A k \in Linked(n) : k = e,
         ents'[e].linkage # "none" =>
           /\ ents'[e].kind \in {"func", "object"}
           /\ ents'[e].ty = cscopes'[Len(cs)].names[n].ty
           /\ e = cscopes'[Len(cs)].names[n].ent,
         \A i \in DOMAIN idents' :
           i \in DOMAIN idents \/ (StandOK(i)' /\ idents'[i].kind # "tag"),
         ParamsOK'
  PROVE  Coupled'
<1>1. TablesOK /\ TablesOK' /\ StackOK /\ StackOK'
  BY DEF SInv
<1>2. /\ ChainsOK /\ UsualOK /\ TagTypesOK /\ UnopenedOK
  BY DEF Coupled
<1>3. Lists = 0 /\ Lists' = 0 /\ Around' = s /\ OpenListsOK'
  BY <1>1, FlatLists DEF FlatOpen, Lists
<1>4. ScopesCarried /\ TypesCarried /\ DOMAIN scopes' = DOMAIN scopes
      /\ ListScopes' = ListScopes
  BY <1>1, SameCarried, SameLists
<1>5. s \notin ListScopes /\ s \in DOMAIN scopes
  BY DEF At
<1>6. CTablesOK' /\ RangesOK'
  BY <1>1, EnteredRanges
<1>7. ChainsOK'
  BY <1>1, <1>2, KeptChains
<1>8. UsualOK'
  <2>1. \A r \in DOMAIN scopes', m \in Names :
          \/ r \in DOMAIN scopes /\ scopes'[r].usual[m] = scopes[r].usual[m]
          \/ UsualAt(r, m)'
    <3> SUFFICES ASSUME NEW r \in DOMAIN scopes', NEW m \in Names
                 PROVE  \/ r \in DOMAIN scopes /\ scopes'[r].usual[m] = scopes[r].usual[m]
                        \/ UsualAt(r, m)'
      OBVIOUS
    <3>1. CASE r = s /\ m = n
      BY <1>4, <3>1 DEF UsualAt
    <3>2. CASE ~(r = s /\ m = n)
      BY <1>4, <3>2 DEF OnlyName
    <3> QED
      BY <3>1, <3>2
  <2> QED
    BY <1>1, <1>2, <1>4, <2>1, UsualCarried
<1>9. TagTypesOK'
  <2>1. \A r \in DOMAIN scopes', t \in Tags :
          r \in DOMAIN scopes /\ scopes'[r].tags[t] = scopes[r].tags[t]
    BY <1>4 DEF OnlyName
  <2> QED
    BY <1>1, <1>2, <1>4, <2>1, TagTypesCarried
<1>10. UnopenedOK'
  <2>1. ASSUME NEW r \in ListScopes
        PROVE  scopes'[r].usual = scopes[r].usual /\ scopes'[r].tags = scopes[r].tags
    <3>1. r \in DOMAIN scopes /\ r # s
      BY <1>1, <1>5, Domains DEF ListScopes
    <3>2. scopes'[r].tags = scopes[r].tags /\ \A m \in Names : scopes'[r].usual[m] = scopes[r].usual[m]
      BY <3>1 DEF OnlyName
    <3>3. scopes[r].usual \in [Names -> Nat] /\ scopes'[r].usual \in [Names -> Nat]
      <4>1. scopes[r] \in ScopeType
        BY <1>1, <3>1, Domains
      <4>2. scopes'[r] \in ScopeType
        <5>1. scopes' \in Seq(ScopeType) /\ r \in DOMAIN scopes'
          BY <1>1, <1>4, <3>1 DEF TablesOK, ScopeType
        <5> HIDE DEF ScopeType
        <5> QED
          BY <5>1
      <4> QED
        BY <4>1, <4>2 DEF ScopeType
    <3> QED
      BY <3>2, <3>3
  <2> QED
    BY <1>1, <1>2, <1>3, <2>1, FlatUnopened
<1>11. NamesOK(Around, cscopes)' /\ TagsOK(Around, cscopes)'
  <2>1. NamesOK(s, cscopes)'
    BY <1>1, EnteredAlone, EnteredNames
  <2>2. TagsOK(s, cscopes)'
    BY <1>1, <1>3, EnteredTags
  <2> QED
    BY <1>3, <2>1, <2>2, NamesMoved
<1>12. LinkedOK'
  BY <1>1, EnteredLinked
<1>13. StandsOK'
  <2>1. ASSUME NEW i \in DOMAIN idents PROVE StandOK(i)'
    <3>1. idents[i].kind = "tag" =>
            /\ ents'[stands[i]].def = ents[stands[i]].def
            /\ idents[i].ty.k = "struct" =>
                 types'[TypeOf(i)].complete = types[TypeOf(i)].complete
      <4> SUFFICES ASSUME idents[i].kind = "tag" PROVE ents'[stands[i]].def = ents[stands[i]].def
        OBVIOUS
      <4>1. stands[i] # 0 /\ ents[stands[i]].kind \in {"struct", "enum"}
        BY DEF Coupled, StandsOK, StandOK
      <4>2. stands[i] \in DOMAIN ents
        <5>1. stands \in Seq(Nat) /\ Len(stands) = Len(idents) /\ DOMAIN idents = 1 .. Len(idents)
          BY <1>1, Domains DEF Coupled, CTablesOK
        <5> QED
          BY <4>1, <5>1 DEF Coupled, RangesOK
      <4>3. stands[i] # e
        BY <4>1, <4>2
      <4> QED
        BY <4>2, <4>3 DEF CEntered
    <3> QED
      BY <1>1, <3>1, StandCarried DEF CEntered
  <2> QED
    BY <2>1 DEF StandsOK
<1>14. StructsOK'
  BY <1>4, StructsCarried DEF Coupled
<1> QED
  BY <1>3, <1>6, <1>7, <1>8, <1>9, <1>10, <1>11, <1>12, <1>13, <1>14 DEF Coupled

NewStand ==
  LET new == Len(idents') - Len(idents)
  IN  stands' = stands \o SubSeq(meant', Len(meant') - new + 1, Len(meant'))

\* The new identifiers stand for what the step meant: there is none, or one.
LEMMA StandsSame ==
  ASSUME TablesOK, Coupled, NewStand, Len(idents') = Len(idents)
  PROVE  stands' = stands
<1>1. Len(idents) \in Nat /\ stands \in Seq(Nat)
  BY Domains DEF Coupled, CTablesOK
<1>2. stands' = stands \o SubSeq(meant', Len(meant') - 0 + 1, Len(meant'))
  BY <1>1 DEF NewStand
<1>3. ASSUME NEW m PROVE SubSeq(m, Len(m) - 0 + 1, Len(m)) = <<>>
  <2>1. 1 .. (1 + Len(m) - (Len(m) - 0 + 1)) = {}
    OBVIOUS
  <2> QED
    BY <2>1 DEF SubSeq
<1> QED
  BY <1>1, <1>2, <1>3

LEMMA StandsOne ==
  ASSUME TablesOK, Coupled, NewStand, Len(idents') = Len(idents) + 1,
         NEW e \in Nat, meant' = <<e>>
  PROVE  stands' = Append(stands, e)
<1>1. Len(idents) \in Nat /\ stands \in Seq(Nat)
  BY Domains DEF Coupled, CTablesOK
<1>2. Len(idents') - Len(idents) = 1
  BY <1>1
<1>3. SubSeq(<<e>>, 1, 1) = <<e>>
  <2> DEFINE q == SubSeq(<<e>>, 1, 1)
  <2>1. Len(q) = 1 /\ q[1] = e /\ q \in Seq(Nat)
    OBVIOUS
  <2> HIDE DEF q
  <2>2. q = <<e>>
    BY <2>1
  <2> QED
    BY <2>2 DEF q
<1>4. stands' = stands \o <<e>>
  <2>1. Len(meant') = 1 /\ 1 - 1 + 1 = 1
    OBVIOUS
  <2> QED
    BY <1>2, <1>3, <2>1 DEF NewStand
<1> QED
  BY <1>1, <1>4

\* The identifier of an object declared once more, and that of a new name.
LEMMA MergedIdent ==
  ASSUME TablesOK, NEW i \in DOMAIN idents, NEW d \in Decls, NEW s
  PROVE  LET id == Initialised(Merged(i, d, s), d, s)
         IN  /\ id.kind = idents[i].kind /\ id.linkage = idents[i].linkage
             /\ id.scope = idents[i].scope
             /\ id.ty = Composite(idents[i].ty, DeclaredType(d))
<1> DEFINE m == Merged(i, d, s)
           id == Initialised(m, d, s)
<1>1. idents[i] \in IdentType
  BY Domains DEF TablesOK
<1>2. m \in IdentType /\ m.kind = idents[i].kind /\ m.linkage = idents[i].linkage
  BY <1>1, MergedType
<1>3. m.scope = idents[i].scope
      /\ m.ty = IF IsComplete(idents[i].ty) THEN idents[i].ty ELSE d.ty
  BY <1>1 DEF Merged, IdentType
<1> HIDE DEF m
<1>4. id.kind = m.kind /\ id.linkage = m.linkage
  BY <1>2, InitialisedType
<1>5. id.scope = m.scope
      /\ id.ty = IF d.init /\ ~IsComplete(m.ty) THEN [m.ty EXCEPT !.n = InitLength] ELSE m.ty
  BY <1>2 DEF Initialised, IdentType
<1> HIDE DEF id
<1>6. id.ty = Composite(idents[i].ty, DeclaredType(d))
  BY <1>3, <1>5 DEF Composite, DeclaredType
<1> QED
  BY <1>2, <1>3, <1>4, <1>5, <1>6 DEF id, m

LEMMA NewIdentifier ==
  ASSUME TablesOK, NEW d \in Decls, NEW s \in DOMAIN scopes, NEW p \in 0 .. Len(scopes)
  PROVE  LET id == Initialised([Ident(Kind(d), d.name, d.ty, LinkageIn(d, s), d.storage, s)
                                  EXCEPT !.params = p], d, s)
         IN  /\ id.kind = Kind(d) /\ id.linkage = LinkageIn(d, s)
             /\ id.scope = s /\ id.params = p /\ id.ty = DeclaredType(d)
<1> DEFINE m == [Ident(Kind(d), d.name, d.ty, LinkageIn(d, s), d.storage, s) EXCEPT !.params = p]
           id == Initialised(m, d, s)
<1>1. /\ m.kind = Kind(d) /\ m.linkage = LinkageIn(d, s) /\ m.scope = s /\ m.params = p
      /\ m.ty = d.ty
  BY DEF Ident
<1>2. m \in IdentType
  <2>1. LinkageIn(d, s) \in Linkages
    BY DEF LinkageIn, DeclaredLinkage, Linkages
  <2> QED
    BY <2>1 DEF Ident, IdentType, IdentKinds, Kind, Decls, Linkages
<1> HIDE DEF m
<1>3. /\ id.kind = m.kind /\ id.linkage = m.linkage /\ id.scope = m.scope /\ id.params = m.params
      /\ id.ty = IF d.init /\ ~IsComplete(m.ty) THEN [m.ty EXCEPT !.n = InitLength] ELSE m.ty
  <2>1. CASE ~d.init
    BY <2>1 DEF Initialised
  <2>2. CASE d.init
    BY <1>2, <2>2 DEF Initialised, IdentType
  <2> QED
    BY <2>1, <2>2
<1> QED
  BY <1>1, <1>3 DEF DeclaredType, m

\* A typedef of a name that is one of the same type.
LEMMA TypedefCoupled ==
  ASSUME SInv, SInv', Coupled, FlatOpen, FlatOpen', NEW s, scope' = s, NEW cs, NEW d,
         Taken(s, cs, d), d.storage = "typedef", scopes[s].usual[d.name] # 0,
         RedeclareTypedef(d, s), Enter(cs, d), NewStand,
         types' = types, members' = members, params' \in CScopeType, InRange(params)'
  PROVE  Coupled'
<1> DEFINE n == d.name
           here == scopes[s].usual[n]
           e == Denotee(cs, d)
<1>1. TablesOK /\ KindsOK /\ TablesOK' /\ At(s, cs) /\ d \in Decls /\ n \in Names
      /\ ~CConstraint(cs, d) /\ Kind(d) = "typedef"
  BY DEF SInv, Taken, Decls, Kind
<1>2. KnownHere(s, cs, n) /\ KnownLinked(cs, n) /\ Len(cs) \in Nat /\ Len(cs) >= 1
      /\ DOMAIN cs = 1 .. Len(cs)
  BY <1>1, NameHere, NameLinked, AtDomains
<1>3. /\ idents' = idents /\ scopes' = scopes /\ last'.act = "warn"
  BY DEF RedeclareTypedef, Denotes
<1>4. Again(cs, d) = cs[1].names[n].ent /\ cs[1].names[n].ent # 0
      /\ IdentFor(here, cs[1].names[n]) /\ Visible(cs, n) = cs[1].names[n]
      /\ cs[1].names[n].ent \in DOMAIN ents
  BY <1>1, <1>2 DEF KnownHere, IdentFor, Stands, Again, Here, EntryOf
<1>5. e = cs[1].names[n].ent /\ e # 0 /\ e \in DOMAIN ents
  BY <1>4 DEF Denotee
<1>6. ents[e].kind = "typedef" /\ cs[1].names[n].ty = d.ty /\ ents[e].linkage = "none"
  <2>1. ents[e].kind = "typedef" /\ cs[1].names[n].ty = d.ty
    BY <1>1, <1>5 DEF CConstraint, Here
  <2> QED
    BY <1>5, <2>1 DEF Coupled, LinkedOK, LinkedAt
<1>7. SeenType(cs, d) = d.ty
  <2>1. SeenType(cs, d) = Composite(d.ty, DeclaredType(d))
    BY <1>4, <1>5, <1>6 DEF SeenType
  <2>2. ~d.init
    BY <1>1 DEF Taken
  <2> QED
    BY <1>1, <2>1, <2>2, DeclaredTypes DEF Composite
<1>8. CEntered(cs, n, e, d.ty) /\ meant' = <<e>>
  BY <1>1, <1>7, EnteredInC
<1>9. stands' = stands
  BY <1>1, <1>3, StandsSame
<1>10. IdentsCarried
  BY <1>1, <1>3, <1>9 DEF IdentsCarried
<1>11. TablesAfter
  <2>1. EntsCarried
    BY <1>8 DEF CEntered
  <2> QED
    BY <1>3, <1>9, <2>1 DEF TablesAfter, Coupled, CTablesOK, RangesOK, EntsCarried
<1>12. SameChains /\ OnlyName(s, n) /\ TypesChanged(cs, e)
  BY <1>3 DEF SameChains, OnlyName, TypesChanged
<1>13. EntryAfter(s, cs, n, e, d.ty)
  BY <1>3, <1>4, <1>5, <1>6, <1>9 DEF EntryAfter, IdentFor, Stands
<1>14. ents'[e].linkage = "none" /\ ents'[e].kind = "typedef"
  BY <1>5, <1>6, <1>8 DEF CEntered, EntsCarried
<1>15. AtFile(cs) => \A k \in Linked(n) : k = e
  BY <1>2, <1>5 DEF KnownLinked, AtFile, FileEntry
<1>16. ParamsOK'
  BY <1>3 DEF ParamsOK
<1> HIDE DEF e
<1> QED
  BY <1>1, <1>3, <1>6, <1>8, <1>10, <1>11, <1>12, <1>13, <1>14, <1>15, <1>16, EnterCoupled

\* An object that is declared once more.
LEMMA RedeclareCoupled ==
  ASSUME SInv, SInv', Coupled, FlatOpen, FlatOpen', NEW s, scope' = s, NEW cs, NEW d,
         Taken(s, cs, d), d.storage # "typedef", Redeclared(d, s) # 0,
         Redeclare(d, s), Enter(cs, d), NewStand,
         ~AtFile(cs) => d.storage # "extern" \/ scopes[s].type = "block",
         types' = types, members' = members, params' \in CScopeType, InRange(params)'
  PROVE  Coupled'
<1> DEFINE n == d.name
           i == Redeclared(d, s)
           e == Denotee(cs, d)
           entry == Visible(cs, n)
           ty == SeenType(cs, d)
           id == Initialised(Merged(i, d, s), d, s)
<1>1. TablesOK /\ KindsOK /\ TablesOK' /\ At(s, cs) /\ d \in Decls /\ n \in Names
      /\ Len(cs) \in Nat /\ Len(cs) >= 1 /\ DOMAIN cs = 1 .. Len(cs) /\ d.ty \in Types
  BY AtDomains, DeclaredTypes DEF SInv, Taken, Decls
<1>2. /\ i \in DOMAIN idents /\ idents[i].kind = "object"
      /\ Again(cs, d) # 0 /\ IdentFor(i, entry) /\ Again(cs, d) = entry.ent
      /\ ents[entry.ent].ty = entry.ty /\ ents[entry.ent].linkage # "none"
      /\ entry = FileEntry(cs, n) /\ ty = Composite(entry.ty, DeclaredType(d))
  BY <1>1, RedeclaredAgrees
<1>3. /\ AtFile(cs) => i = scopes[s].usual[n]
      /\ ~AtFile(cs) =>
           /\ ~d.init /\ (IsComplete(d.ty) => IsComplete(entry.ty))
           /\ scopes[s].usual[n] = 0 /\ d.storage = "extern"
           /\ \A k \in 1 .. Len(cs) - 1 : scopes[scopes[s].chain[k]].usual[n] = 0
  BY <1>1, RedeclaredAgrees
<1>4. e = entry.ent /\ e # 0 /\ stands[i] = e /\ idents[i].ty = entry.ty
  BY <1>2 DEF Denotee, IdentFor, Stands
<1>5. CEntered(cs, n, e, ty) /\ meant' = <<e>> /\ e \in DOMAIN ents
      /\ ents'[e].ty = Composite(ents[e].ty, DeclaredType(d))
  BY <1>1, <1>2, EnteredInC
<1>6. id.kind = idents[i].kind /\ id.linkage = idents[i].linkage /\ id.scope = idents[i].scope
      /\ id.ty = Composite(idents[i].ty, DeclaredType(d))
  BY <1>1, <1>2, MergedIdent
<1>7. scopes' = scopes /\ last'.ident = i /\ idents' = [idents EXCEPT ![i] = id]
  BY DEF Redeclare, Denotes
<1> HIDE DEF i, e, entry, ty, id, n
<1>8. /\ DOMAIN idents' = DOMAIN idents /\ Len(idents') = Len(idents) /\ idents'[i] = id
      /\ \A j \in DOMAIN idents : j # i => idents'[j] = idents[j]
  BY <1>2, <1>7, Domains
<1>9. id.ty = ty
  BY <1>2, <1>4, <1>6
<1>10. stands' = stands
  BY <1>1, <1>8, StandsSame
<1>11. IdentsCarried
  <2> SUFFICES ASSUME NEW j \in DOMAIN idents
               PROVE  /\ j \in DOMAIN idents' /\ stands'[j] = stands[j]
                      /\ idents'[j].kind = idents[j].kind /\ idents'[j].linkage = idents[j].linkage
                      /\ idents'[j].scope = idents[j].scope
                      /\ idents[j].kind = "tag" => idents'[j].ty = idents[j].ty
    BY DEF IdentsCarried
  <2>1. CASE j = i
    BY <1>2, <1>6, <1>8, <1>10, <2>1
  <2>2. CASE j # i
    BY <1>8, <1>10, <2>2
  <2> QED
    BY <2>1, <2>2
<1>12. TablesAfter
  <2>1. EntsCarried
    BY <1>5 DEF CEntered
  <2> QED
    BY <1>8, <1>10, <2>1 DEF TablesAfter, Coupled, CTablesOK, RangesOK, EntsCarried
<1>13. SameChains /\ OnlyName(s, n)
  BY <1>7 DEF SameChains, OnlyName
<1>14. ~AtFile(cs) => ty = entry.ty
  <2> SUFFICES ASSUME ~AtFile(cs) PROVE ty = entry.ty
    OBVIOUS
  <2>1. DeclaredType(d) = d.ty
    BY <1>1, <1>3, DeclaredTypes
  <2>2. entry.ty \in Types
    <3>1. idents[i].ty \in Types
      BY <1>1, <1>2, Domains DEF IdentType
    <3> QED
      BY <1>4, <3>1
  <2> QED
    BY <1>1, <1>2, <1>3, <2>1, <2>2, DeclaredTypes DEF Composite
<1>15. TypesChanged(cs, e)
  <2> SUFFICES ASSUME NEW j \in DOMAIN idents, idents'[j].ty # idents[j].ty
               PROVE  AtFile(cs) /\ stands[j] = e
    BY DEF TypesChanged
  <2>1. j = i
    BY <1>8
  <2> QED
    BY <1>4, <1>8, <1>9, <1>14, <2>1
<1>16. EntryAfter(s, cs, n, e, ty)
  <2>1. CASE AtFile(cs)
    <3>1. scopes'[s].usual[n] = i /\ i # 0
      BY <1>2, <1>3, <1>7, <2>1 DEF IdentFor
    <3> QED
      BY <1>4, <1>8, <1>9, <1>10, <3>1 DEF EntryAfter
  <2>2. CASE ~AtFile(cs)
    <3>1. [ent |-> e, ty |-> ty] = FileEntry(cs, n)
      <4>1. entry = [ent |-> entry.ent, ty |-> entry.ty]
        <5>1. cs[Len(cs)] \in CScopeType
          BY <1>1, AtDomains
        <5>2. FileEntry(cs, n) \in [ent : Nat, ty : Types]
          BY <1>1, <5>1 DEF FileEntry, CScopeType, n
        <5> QED
          BY <1>2, <5>2
      <4> QED
        BY <1>2, <1>4, <1>14, <2>2, <4>1
    <3>2. ents'[e].linkage # "none"
      BY <1>2, <1>4, <1>5 DEF CEntered, EntsCarried
    <3>3. scopes[s].type = "block" /\ scopes'[s].usual[n] = 0 /\ 1 < Len(cs)
      BY <1>1, <1>3, <1>7, <2>2 DEF AtFile, n
    <3> QED
      BY <1>3, <2>2, <3>1, <3>2, <3>3 DEF EntryAfter
  <2> QED
    BY <2>1, <2>2
<1>17. /\ ents'[e].kind \in {"func", "object"}
       /\ ents'[e].ty = cscopes'[Len(cs)].names[n].ty
       /\ e = cscopes'[Len(cs)].names[n].ent
  <2>1. ents'[e].kind \in {"func", "object"} /\ ents[e].kind \in {"func", "object"}
    BY <1>2, <1>4, <1>5 DEF Coupled, LinkedOK, LinkedAt, CEntered, EntsCarried
  <2>2. ents'[e].ty = ty
    BY <1>2, <1>4, <1>5
  <2>3. CASE AtFile(cs)
    BY <1>1, <1>5, <2>1, <2>2, <2>3 DEF CEntered, AtFile, n
  <2>4. CASE ~AtFile(cs)
    <3>1. cscopes'[Len(cs)].names[n] = cs[Len(cs)].names[n]
      <4>1. Len(cs) \in DOMAIN cs /\ Len(cs) # 1 /\ n \in Names
        BY <1>1, <2>4 DEF AtFile
      <4> QED
        BY <1>5, <4>1 DEF CEntered
    <3> QED
      BY <1>2, <1>4, <1>14, <2>1, <2>2, <2>4, <3>1 DEF FileEntry
  <2> QED
    BY <2>3, <2>4
<1>18. AtFile(cs) => \A k \in Linked(n) : k = e
  <2>1. KnownLinked(cs, n)
    BY <1>1, NameLinked DEF n
  <2> QED
    BY <1>2, <1>4, <2>1 DEF KnownLinked
<1>19. ParamsOK'
  <2>1. idents'[i].kind = "object"
    BY <1>2, <1>6, <1>8
  <2> QED
    BY <1>7, <2>1 DEF ParamsOK
<1>20. e \in DOMAIN ents => ents[e].kind \notin {"struct", "enum"}
  BY <1>5, <1>17 DEF CEntered, EntsCarried
<1>21. /\ n \in Names /\ scopes'[s].usual[n] = scopes[s].usual[n]
       /\ \A j \in DOMAIN idents' :
            j \in DOMAIN idents \/ (StandOK(j)' /\ idents'[j].kind # "tag")
  BY <1>1, <1>7, <1>8 DEF n
<1> QED
  BY <1>1, <1>5, <1>11, <1>12, <1>13, <1>15, <1>16, <1>17, <1>18, <1>19, <1>20, <1>21, EnterCoupled

\* The parameters of what is declared: none, or those of the list p.
ParamsRead(p, q) ==
  IF p = 0 THEN q = EmptyScope
  ELSE /\ p \in DOMAIN scopes /\ scopes[p].type = "proto"
       /\ \A n \in Names : LET i == scopes[p].usual[n]
                           IN  IF i # 0 THEN Stands(i, q.names[n])
                               ELSE q.names[n].ent = 0

\* What kcc enters for a name that is new.
LEMMA NewTables ==
  ASSUME TablesOK, NEW s \in DOMAIN scopes, NEW d \in Decls, NEW p \in 0 .. Len(scopes),
         DeclareNew(d, s, p), types' = types
  PROVE  /\ SameChains /\ OnlyName(s, d.name) /\ scopes'[s].usual[d.name] = Len(idents) + 1
         /\ Len(idents) \in Nat /\ DOMAIN idents = 1 .. Len(idents)
         /\ Len(idents') = Len(idents) + 1 /\ DOMAIN idents' = 1 .. Len(idents) + 1
         /\ \A i \in DOMAIN idents : idents'[i] = idents[i]
         /\ LET id == idents'[Len(idents) + 1]
            IN  /\ id.kind = Kind(d) /\ id.linkage = LinkageIn(d, s)
                /\ id.scope = s /\ id.params = p /\ id.ty = DeclaredType(d)
         /\ last'.ident = Len(idents) + 1
<1> DEFINE n == d.name
           m == [Ident(Kind(d), n, d.ty, LinkageIn(d, s), d.storage, s) EXCEPT !.params = p]
           id == Initialised(m, d, s)
<1>1. /\ idents' = Append(idents, id) /\ last'.ident = NewIdent
      /\ scopes' = [scopes EXCEPT ![s].usual[n] = NewIdent]
  BY DEF DeclareNew, LinkageIn, Denotes, InsertUsual
<1>2. /\ id.kind = Kind(d) /\ id.linkage = LinkageIn(d, s)
      /\ id.scope = s /\ id.params = p /\ id.ty = DeclaredType(d)
  BY NewIdentifier
<1> HIDE DEF id
<1>3. Len(idents) \in Nat /\ DOMAIN idents = 1 .. Len(idents) /\ n \in Names
  BY Domains DEF Decls
<1>4. /\ Len(idents') = Len(idents) + 1 /\ DOMAIN idents' = 1 .. Len(idents) + 1
      /\ \A i \in DOMAIN idents : idents'[i] = idents[i]
      /\ idents'[Len(idents) + 1] = id
  <2>1. idents \in Seq(IdentType)
    BY DEF TablesOK
  <2> HIDE DEF IdentType
  <2> QED
    BY <1>1, <1>3, <2>1
<1>5. /\ Len(scopes') = Len(scopes)
      /\ \A r \in DOMAIN scopes :
           /\ scopes'[r].type = scopes[r].type /\ scopes'[r].chain = scopes[r].chain
           /\ scopes'[r].tags = scopes[r].tags
           /\ \A k \in Names : scopes'[r].usual[k] = IF r = s /\ k = n THEN NewIdent
                                                    ELSE scopes[r].usual[k]
  <2>1. /\ scopes \in Seq(ScopeType) /\ \A r \in DOMAIN scopes : scopes[r] \in ScopeType
    BY Domains DEF TablesOK
  <2>2. Len(scopes') = Len(scopes)
        /\ \A r \in DOMAIN scopes :
             scopes'[r] = IF r = s THEN [scopes[s] EXCEPT !.usual[n] = NewIdent] ELSE scopes[r]
    <3> HIDE DEF ScopeType
    <3> QED
      BY <1>1, <2>1
  <2>3. ASSUME NEW r \in DOMAIN scopes
        PROVE  /\ scopes'[r].type = scopes[r].type /\ scopes'[r].chain = scopes[r].chain
               /\ scopes'[r].tags = scopes[r].tags
               /\ \A k \in Names : scopes'[r].usual[k] = IF r = s /\ k = n THEN NewIdent
                                                        ELSE scopes[r].usual[k]
    <3>1. CASE r = s
      <4>1. scopes[s] \in ScopeType /\ scopes'[r] = [scopes[s] EXCEPT !.usual[n] = NewIdent]
        BY <2>1, <2>2, <3>1
      <4> QED
        BY <1>3, <3>1, <4>1 DEF ScopeType
    <3>2. CASE r # s
      BY <2>2, <3>2
    <3> QED
      BY <3>1, <3>2
  <2> QED
    BY <2>2, <2>3
<1>6. SameChains /\ OnlyName(s, n)
  BY <1>5 DEF SameChains, OnlyName
<1>7. /\ scopes'[s].usual[n] = Len(idents) + 1 /\ last'.ident = Len(idents) + 1
  BY <1>1, <1>3, <1>5 DEF NewIdent
<1> HIDE DEF n, m
<1>8. LET it == idents'[Len(idents) + 1]
      IN  /\ it.kind = Kind(d) /\ it.linkage = LinkageIn(d, s)
          /\ it.scope = s /\ it.params = p /\ it.ty = DeclaredType(d)
  BY <1>2, <1>4
<1> QED
  BY <1>3, <1>4, <1>6, <1>7, <1>8 DEF n

LEMMA EnteredNat ==
  ASSUME ents' \in Seq(EntityType), NEW e \in DOMAIN ents'
  PROVE  e \in Nat
<1> HIDE DEF EntityType
<1> QED
  OBVIOUS

\* A name that is new.
LEMMA NewCoupled ==
  ASSUME SInv, SInv', Coupled, FlatOpen, FlatOpen', NEW s, scope' = s, NEW cs, NEW d,
         Taken(s, cs, d),
         d.storage = "typedef" => scopes[s].usual[d.name] = 0,
         d.storage # "typedef" => Redeclared(d, s) = 0,
         NEW p \in 0 .. Len(scopes), DeclareNew(d, s, p), Enter(cs, d), NewStand,
         scopes[s].type = "proto" => Kind(d) = "object", p # s,
         types' = types, members' = members, params' \in CScopeType, InRange(params)',
         NEW q, q = params', ParamsRead(p, q)
  PROVE  Coupled'
<1> DEFINE n == d.name
           new == Len(idents) + 1
           e == Denotee(cs, d)
           old == Again(cs, d)
           ty == DeclaredType(d)
<1>1. TablesOK /\ KindsOK /\ TablesOK' /\ At(s, cs) /\ d \in Decls /\ n \in Names
      /\ Len(cs) \in Nat /\ Len(cs) >= 1 /\ DOMAIN cs = 1 .. Len(cs) /\ s \in DOMAIN scopes
      /\ s \notin ListScopes
  BY AtDomains DEF SInv, Taken, Decls, At
<1>2. /\ LinkageIn(d, s) = IF old = 0 THEN CLinkage(cs, d) ELSE ents[old].linkage
      /\ SeenType(cs, d) = ty
      /\ old # 0 => AtFile(cs) /\ Composite(ents[old].ty, ty) = ty
      /\ LinkageIn(d, s) # "none" => AtFile(cs) /\ Kind(d) \in {"func", "object"}
      /\ old # 0 => LinkageIn(d, s) # "none"
  BY <1>1, NewAgrees
<1>3. /\ SameChains /\ OnlyName(s, n) /\ scopes'[s].usual[n] = new
      /\ Len(idents) \in Nat /\ DOMAIN idents = 1 .. Len(idents)
      /\ Len(idents') = new /\ DOMAIN idents' = 1 .. new
      /\ \A i \in DOMAIN idents : idents'[i] = idents[i]
      /\ idents'[new].kind = Kind(d) /\ idents'[new].linkage = LinkageIn(d, s)
      /\ idents'[new].scope = s /\ idents'[new].params = p /\ idents'[new].ty = ty
      /\ last'.ident = new
  BY <1>1, NewTables
<1>4. CEntered(cs, n, e, ty) /\ meant' = <<e>> /\ e # 0 /\ e \in DOMAIN ents'
  <2>1. CEntered(cs, n, e, ty) /\ meant' = <<e>>
    BY <1>1, <1>2, EnteredInC
  <2> QED
    BY <2>1 DEF CEntered
<1>5. /\ old = 0 => /\ e \notin DOMAIN ents /\ ents'[e].kind = Kind(d)
                    /\ ents'[e].linkage = CLinkage(cs, d)
                    /\ ents'[e].ty = Composite(d.ty, DeclaredType(d))
      /\ old # 0 => e = old /\ e \in DOMAIN ents /\ ents'[e].ty = Composite(ents[e].ty, ty)
  BY <1>1, EnteredInC DEF Denotee
<1>6. ents'[e].ty = ty /\ ents'[e].linkage = LinkageIn(d, s)
  <2>1. CASE old = 0
    <3>1. Composite(d.ty, DeclaredType(d)) = DeclaredType(d)
      BY <1>1, DeclaredTypes DEF Composite
    <3> QED
      BY <1>2, <1>5, <2>1, <3>1
  <2>2. CASE old # 0
    <3>1. ents'[e].linkage = ents[e].linkage
      BY <1>4, <1>5, <2>2 DEF CEntered, EntsCarried
    <3> QED
      BY <1>2, <1>5, <2>2, <3>1
  <2> QED
    BY <2>1, <2>2
<1>7. ents'[e].linkage # "none" => ents'[e].kind \in {"func", "object"}
  <2>1. CASE old = 0
    BY <1>2, <1>5, <1>6, <2>1
  <2>2. CASE old # 0
    BY <1>4, <1>5, <2>2 DEF Coupled, LinkedOK, LinkedAt, CEntered, EntsCarried
  <2> QED
    BY <2>1, <2>2
<1>8. e \in DOMAIN ents => ents[e].kind \in {"func", "object"}
  <2> SUFFICES ASSUME e \in DOMAIN ents PROVE ents[e].kind \in {"func", "object"}
    OBVIOUS
  <2>1. old # 0 /\ e = old
    BY <1>5
  <2>2. ents[e].linkage # "none"
    BY <1>2, <2>1
  <2> QED
    BY <2>2 DEF Coupled, LinkedOK, LinkedAt
<1>9. AtFile(cs) => \A k \in Linked(n) : k = e
  <2> SUFFICES ASSUME AtFile(cs), NEW k \in Linked(n) PROVE k = e
    OBVIOUS
  <2>1. KnownHere(s, cs, n) /\ KnownLinked(cs, n)
    BY <1>1, NameHere, NameLinked
  <2>2. k = FileEntry(cs, n).ent /\ FileEntry(cs, n) = cs[1].names[n] /\ k # 0
    BY <2>1 DEF KnownLinked, FileEntry, AtFile
  <2>3. d.storage # "typedef"
    <3> SUFFICES ASSUME d.storage = "typedef" PROVE FALSE
      OBVIOUS
    <3> QED
      BY <2>1, <2>2 DEF KnownHere
  <2>4. old # 0 /\ old = FileEntry(cs, n).ent
    <3>1. CLinkage(cs, d) # "none" /\ Linked(n) # {}
      BY <1>1, <2>3, OrdinaryLinkage
    <3> QED
      BY <1>1, <2>3, <3>1, OrdinaryLinkage
  <2> QED
    BY <1>5, <2>2, <2>4
<1> HIDE DEF e, ty, old
<1>10. stands' = Append(stands, e)
  <2>1. e \in Nat
    BY <1>4, EnteredNat DEF CEntered
  <2> QED
    BY <1>1, <1>3, <1>4, <2>1, StandsOne
<1>11. /\ stands \in Seq(Nat) /\ Len(stands) = Len(idents) /\ e \in Nat
  BY <1>4, EnteredNat DEF Coupled, CTablesOK, CEntered
<1>12. /\ stands' \in Seq(Nat) /\ Len(stands') = new /\ DOMAIN stands' = 1 .. new
       /\ stands'[new] = e
       /\ \A i \in DOMAIN idents : stands'[i] = stands[i] /\ i \in DOMAIN stands
  BY <1>3, <1>10, <1>11
<1>13. IdentsCarried
  BY <1>3, <1>12 DEF IdentsCarried
<1>14. TablesAfter
  <2>1. EntsCarried
    BY <1>4 DEF CEntered
  <2>2. ASSUME NEW i \in DOMAIN stands', stands'[i] # 0 PROVE stands'[i] \in DOMAIN ents'
    <3>1. CASE i = new
      BY <1>4, <1>12, <3>1
    <3>2. CASE i # new
      <4>1. i \in DOMAIN idents
        BY <1>3, <1>12, <3>2
      <4>2. stands[i] \in DOMAIN ents
        BY <1>12, <2>2, <4>1 DEF Coupled, RangesOK
      <4> QED
        BY <1>12, <2>1, <4>1, <4>2 DEF EntsCarried
    <3> QED
      BY <3>1, <3>2
  <2> QED
    BY <1>3, <1>12, <2>2 DEF TablesAfter
<1>15. TypesChanged(cs, e)
  BY <1>3 DEF TypesChanged
<1>16. EntryAfter(s, cs, n, e, ty)
  BY <1>3, <1>4, <1>12 DEF EntryAfter
<1>17. UsualAt(s, n)'
  <2>1. ListScopes' = ListScopes
    BY <1>1, <1>3, SameLists
  <2>2. scopes'[s].type = scopes[s].type
    BY <1>1, <1>3 DEF SameChains
  <2>3. LinkageIn(d, s) # "none" => scopes[s].type = "file"
    BY DEF LinkageIn, DeclaredLinkage, IsFileScope
  <2> QED
    BY <1>1, <1>3, <2>1, <2>2, <2>3 DEF UsualAt
<1>18. /\ ents'[e].linkage # "none" =>
            /\ ents'[e].kind \in {"func", "object"}
            /\ ents'[e].ty = cscopes'[Len(cs)].names[n].ty
            /\ e = cscopes'[Len(cs)].names[n].ent
  <2> SUFFICES ASSUME ents'[e].linkage # "none"
               PROVE  /\ ents'[e].ty = cscopes'[Len(cs)].names[n].ty
                      /\ e = cscopes'[Len(cs)].names[n].ent
    BY <1>7
  <2>1. Len(cs) = 1
    BY <1>2, <1>6 DEF AtFile
  <2>2. cscopes'[1].names[n] = [ent |-> e, ty |-> ty]
    <3>1. 1 \in DOMAIN cs /\ n \in Names
      BY <1>1
    <3> HIDE DEF n
    <3> QED
      BY <1>4, <3>1 DEF CEntered
  <2> QED
    BY <1>6, <2>1, <2>2
<1>19. \A i \in DOMAIN idents' :
         i \in DOMAIN idents \/ (StandOK(i)' /\ idents'[i].kind # "tag")
  <2> SUFFICES ASSUME NEW i \in DOMAIN idents', i \notin DOMAIN idents
               PROVE  StandOK(i)' /\ idents'[i].kind # "tag"
    OBVIOUS
  <2>1. i = new
    BY <1>3
  <2>2. Kind(d) \notin {"enumerator", "tag"}
    BY DEF Kind
  <2>3. LinkageOf(stands[i])' = idents'[i].linkage
    BY <1>3, <1>4, <1>6, <1>12, <2>1 DEF LinkageOf
  <2>4. Kind(d) = "func" => LinkageIn(d, s) # "none"
    <3> SUFFICES ASSUME Kind(d) = "func" PROVE LinkageIn(d, s) # "none"
      OBVIOUS
    <3>1. d.storage # "typedef" /\ Plain(cs, d) /\ ~CConstraint(cs, d)
      BY DEF Kind, Taken
    <3>2. AtFile(cs)
      BY <1>1, <3>1, InnerDeclarator
    <3>3. IsFileScope(s)
      BY <1>1, <3>2, NameHere
    <3> QED
      BY <3>1, <3>3 DEF LinkageIn, DeclaredLinkage
  <2> QED
    BY <1>3, <2>1, <2>2, <2>3, <2>4 DEF StandOK
<1>20. ParamsOK'
  <2>1. ParamsOf(p)'
    <3>1. CASE p = 0
      BY <3>1 DEF ParamsOf, ParamsRead
    <3>2. CASE p # 0
      <4>1. /\ p \in DOMAIN scopes /\ scopes[p].type = "proto"
            /\ \A m \in Names : LET i == scopes[p].usual[m]
                                IN  IF i # 0 THEN Stands(i, q.names[m])
                                    ELSE q.names[m].ent = 0
        BY <3>2 DEF ParamsRead
      <4>2. scopes'[p].type = "proto" /\ \A m \in Names : scopes'[p].usual[m] = scopes[p].usual[m]
        BY <1>3, <4>1 DEF SameChains, OnlyName
      <4>3. ASSUME NEW m \in Names, scopes[p].usual[m] # 0
            PROVE  Stands(scopes[p].usual[m], q.names[m])'
        <5>1. scopes[p].usual[m] \in DOMAIN idents
          BY <1>1, <4>1, <4>3, Domains DEF TablesOK, EntriesOK, EntriesOf
        <5>2. Stands(scopes[p].usual[m], q.names[m])
          BY <4>1, <4>3
        <5> QED
          BY <1>3, <1>12, <5>1, <5>2, <4>2 DEF Stands
      <4> QED
        BY <3>2, <4>1, <4>2, <4>3 DEF ParamsOf, Stands
    <3> QED
      BY <3>1, <3>2
  <2> QED
    BY <1>3, <1>4, <1>12, <2>1 DEF ParamsOK, ParamsOf
<1> QED
  BY <1>1, <1>3, <1>4, <1>8, <1>9, <1>13, <1>14, <1>15, <1>16, <1>17, <1>18, <1>19, <1>20, EnterCoupled

\* What a step has to keep.
Held ==
  /\ cverdict = "ok" => verdict = "ok" /\ Coupled
  /\ cverdict = "constraint" => verdict = "error" \/ last.act = "warn"

\* What both take keeps the correspondence.
LEMMA DeclarationCoupled ==
  ASSUME SInv, SInv', Coupled, FlatOpen, FlatOpen', NEW s, scope' = s, NEW cs, NEW d,
         Taken(s, cs, d), NEW p \in 0 .. Len(scopes), p # s,
         MakeDeclaration(d, s, p), Enter(cs, d), NewStand,
         scopes[s].type = "proto" => Kind(d) = "object",
         ~AtFile(cs) => d.storage # "extern" \/ Kind(d) # "object" \/ scopes[s].type = "block",
         types' = types, members' = members, params' \in CScopeType, InRange(params)',
         NEW q, q = params', ParamsRead(p, q)
  PROVE  Coupled'
<1>1. CASE d.storage = "typedef" /\ scopes[s].usual[d.name] # 0
  BY <1>1, TypedefCoupled DEF MakeDeclaration, FindUsualInCurrScope
<1>2. CASE d.storage # "typedef" /\ Redeclared(d, s) # 0
  <2>1. ~AtFile(cs) => d.storage # "extern" \/ scopes[s].type = "block"
    <3> SUFFICES ASSUME ~AtFile(cs), d.storage = "extern" PROVE Kind(d) = "object"
      OBVIOUS
    <3>1. At(s, cs) /\ Plain(cs, d)
      BY DEF Taken
    <3>2. Kind(d) # "func"
      BY <3>1 DEF Plain
    <3> QED
      BY <1>2, <3>2 DEF Kind
  <2> QED
    BY <1>2, <2>1, RedeclareCoupled DEF MakeDeclaration, FindUsualInCurrScope
<1>3. CASE /\ d.storage = "typedef" => scopes[s].usual[d.name] = 0
           /\ d.storage # "typedef" => Redeclared(d, s) = 0
  BY <1>3, NewCoupled DEF MakeDeclaration, FindUsualInCurrScope
<1> QED
  BY <1>1, <1>2, <1>3

\* What a declarator does, of the two that read it.
LEMMA DeclaratorHeld ==
  ASSUME SInv, SInv', Coupled, FlatOpen, NEW s, NEW cs, At(s, cs), NEW d \in Decls,
         d.init => Kind(d) = "object", DeclareDiffers(cs, d) = {},
         NEW p \in 0 .. Len(scopes), p # s, NEW q \in CScopeType, InRange(q), ParamsRead(p, q),
         \/ Refused(d, s) /\ Stop("error")
         \/ ~Refused(d, s) /\ MakeDeclaration(d, s, p) /\ scope' = s /\ types' = types /\ FlatOpen',
         CDeclaration(cs, d, q), cverdict' = "ok" => NewStand,
         scopes[s].type = "proto" => Kind(d) = "object" \/ CConstraint(cs, d),
         ~AtFile(cs) => d.storage # "extern" \/ Kind(d) # "object" \/ scopes[s].type = "block",
         cverdict = "ok", verdict = "ok"
  PROVE  Held'
<1>1. TablesOK /\ KindsOK /\ Plain(cs, d)
  BY PlainDeclarator DEF SInv
<1>2. CASE CConstraint(cs, d) /\ Breaks("constraint")
  <2>1. Refused(d, s) \/ (d.storage = "typedef" /\ scopes[s].usual[d.name] # 0)
    BY <1>1, <1>2, InvalidRefused
  <2>2. CASE Refused(d, s)
    BY <1>2, <2>2 DEF Held, Breaks, Stop
  <2>3. CASE ~Refused(d, s)
    BY <1>2, <2>1, <2>3
       DEF Held, Breaks, MakeDeclaration, RedeclareTypedef, Denotes, FindUsualInCurrScope
  <2> QED
    BY <2>2, <2>3
<1>3. CASE ~CConstraint(cs, d) /\ CUndefined(cs, d) /\ Breaks("undefined")
  BY <1>3 DEF Held, Breaks
<1>4. CASE /\ ~CConstraint(cs, d) /\ ~CUndefined(cs, d)
           /\ Enter(cs, d) /\ params' = q /\ UNCHANGED <<members, cverdict>>
  <2>1. ~Refused(d, s)
    BY <1>1, <1>4, ValidNotRefused
  <2>2. Taken(s, cs, d)
    BY <1>1, <1>4, <2>1 DEF Taken
  <2>3. MakeDeclaration(d, s, p) /\ scope' = s /\ types' = types /\ FlatOpen' /\ NewStand
    BY <1>4, <2>1
  <2>4. verdict' = "ok"
    BY <2>3 DEF MakeDeclaration, RedeclareTypedef, Redeclare, DeclareNew, Denotes
  <2>5. InRange(params)' /\ params' \in CScopeType
    <3>1. EntsCarried
      BY <1>1, <1>4, EnteredInC DEF CEntered
    <3>2. InRange(q)'
      BY <3>1, InRangeCarried
    <3> QED
      BY <1>4, <3>2 DEF InRange, CScopeType
  <2>6. scopes[s].type = "proto" => Kind(d) = "object"
    BY <1>4
  <2>7. Coupled'
    BY <1>4, <2>2, <2>3, <2>5, <2>6, DeclarationCoupled
  <2> QED
    BY <1>4, <2>4, <2>7 DEF Held
<1> QED
  BY <1>2, <1>3, <1>4 DEF CDeclaration

\* The first scope is the file's, and a parameter list is read in no other
\* than its own.
LEMMA ScopeKinds ==
  ASSUME TablesOK, StackOK, Coupled
  PROVE  /\ open = <<>> => scope = 1 /\ scopes[scope].type = "file"
         /\ open # <<>> => scopes[scope].type = IF open[1].what = "proto" THEN "proto" ELSE "block"
<1>1. open = <<>> => scope = 1
  BY DEF StackOK, ScopeRestored, ScopeAt
<1>2. scopes[1].type = "file"
  BY DEF Coupled, ChainsOK
<1>3. open # <<>> => scopes[scope].type = IF open[1].what = "proto" THEN "proto" ELSE "block"
  <2> SUFFICES ASSUME open # <<>> PROVE 1 \in DOMAIN open
    BY DEF StackOK, ScopeRestored, ScopeAt
  <2> HIDE DEF OpenType
  <2>1. open \in Seq(OpenType)
    BY DEF StackOK
  <2> QED
    BY <2>1
<1> QED
  BY <1>1, <1>2, <1>3

\* What every step starts from.
LEMMA OfBoth ==
  ASSUME NEW differs, Both(differs), known' = {}
  PROVE  /\ verdict = "ok" /\ cverdict = "ok" /\ known = {} /\ differs = {}
         /\ cverdict' = "ok" => NewStand
BY DEF Both, Going, NewStand

LEMMA EmptyRange == EmptyScope \in CScopeType /\ InRange(EmptyScope)
<1>1. IntType \in Types
  BY DEF Types, IntType
<1> QED
  BY <1>1 DEF EmptyScope, NoEntry, CScopeType, InRange

\* A declaration.
LEMMA FileDeclareHeld ==
  ASSUME SInv, SInv', Coupled, NEW d \in Decls, FileDeclare(d), known' = {}
  PROVE  Held'
<1>1. TablesOK /\ StackOK
  BY DEF SInv
<1>2. verdict = "ok" /\ cverdict = "ok" /\ DeclareDiffers(cscopes, d) = {}
      /\ (cverdict' = "ok" => NewStand)
  BY OfBoth DEF FileDeclare
<1>3. Declare(d) /\ MayDeclare(d) /\ ~In("struct") /\ (d.init => Kind(d) = "object")
  BY DEF FileDeclare, Declare, MayDeclare
<1>4. FlatOpen /\ Lists = 0 /\ Around = scope /\ At(scope, cscopes)
  BY <1>1, <1>3, FlatIn, AtAround
<1>5. CDeclaration(cscopes, d, EmptyScope)
  BY DEF FileDeclare, CDeclare
<1>6. \/ Refused(d, scope) /\ Stop("error")
      \/ /\ ~Refused(d, scope) /\ MakeDeclaration(d, scope, 0) /\ scope' = scope /\ types' = types
         /\ open' = open
  BY <1>3 DEF Declare
<1>7. open' = open /\ types' = types /\ scope' = scope => FlatOpen'
  <2>1. members' = members
    BY <1>5 DEF CDeclaration, Breaks
  <2> QED
    BY <1>4, <2>1 DEF FlatOpen, ListScopes
<1>8. scopes[scope].type = "proto" => Kind(d) = "object" /\ d.storage # "extern"
  <2> SUFFICES ASSUME scopes[scope].type = "proto" PROVE Kind(d) = "object" /\ d.storage # "extern"
    OBVIOUS
  <2>1. In("proto")
    BY <1>1, ScopeKinds DEF In
  <2> QED
    BY <1>3, <2>1 DEF MayDeclare, Kind
<1>9. ~AtFile(cscopes) => d.storage # "extern" \/ Kind(d) # "object" \/ scopes[scope].type = "block"
  <2> SUFFICES ASSUME ~AtFile(cscopes), scopes[scope].type # "proto" PROVE scopes[scope].type = "block"
    BY <1>8
  <2>1. d.name \in Names
    BY DEF Decls
  <2>2. ~IsFileScope(scope)
    BY <1>1, <1>4, <2>1, NameHere
  <2> QED
    BY <1>1, <2>2, ScopeKinds DEF IsFileScope
<1>10. 0 \in 0 .. Len(scopes) /\ 0 # scope /\ ParamsRead(0, EmptyScope)
  BY <1>1, Domains DEF StackOK, ParamsRead
<1>11. PICK q \in CScopeType : q = EmptyScope
  BY EmptyRange
<1>12. InRange(q) /\ ParamsRead(0, q) /\ CDeclaration(cscopes, d, q)
  BY <1>5, <1>10, <1>11, EmptyRange
<1>13. PICK s, cs : s = scope /\ cs = cscopes
  OBVIOUS
<1> QED
  <2>1. \/ Refused(d, s) /\ Stop("error")
        \/ ~Refused(d, s) /\ MakeDeclaration(d, s, 0) /\ scope' = s /\ types' = types /\ FlatOpen'
    BY <1>6, <1>7, <1>13
  <2>2. /\ At(s, cs) /\ DeclareDiffers(cs, d) = {} /\ 0 # s /\ CDeclaration(cs, d, q)
        /\ scopes[s].type = "proto" => Kind(d) = "object" \/ CConstraint(cs, d)
        /\ ~AtFile(cs) => d.storage # "extern" \/ Kind(d) # "object" \/ scopes[s].type = "block"
    BY <1>2, <1>4, <1>8, <1>9, <1>10, <1>12, <1>13
  <2> QED
    BY <1>2, <1>3, <1>4, <1>10, <1>11, <1>12, <2>1, <2>2, DeclaratorHeld

\* A declarator that ends with its parameters.
LEMMA EndParametersHeld ==
  ASSUME SInv, SInv', Coupled, EndParameters, known' = {}
  PROVE  Held'
<1> DEFINE d0 == open[1].decl
<1>1. TablesOK /\ StackOK /\ KindsOK
  BY DEF SInv
<1>2. verdict = "ok" /\ cverdict = "ok" /\ DeclareDiffers(Tail(cscopes), d0) = {}
      /\ (cverdict' = "ok" => NewStand)
  BY OfBoth DEF EndParameters
<1>3. ExitProto /\ In("proto") /\ CDeclaration(Tail(cscopes), d0, cscopes[1])
  BY DEF EndParameters, ExitProto, CExitProto
<1>4. open # <<>> /\ open[1].what = "proto" /\ 1 \in DOMAIN open /\ ~In("struct")
  <2>1. open \in Seq(OpenType)
    BY <1>1 DEF StackOK
  <2> HIDE DEF OpenType
  <2> QED
    BY <1>3, <2>1 DEF In
<1>5. FlatOpen /\ Lists = 0 /\ Around = scope /\ At(scope, cscopes)
  BY <1>1, <1>4, FlatIn, AtAround
<1>6. PICK d : d = open[1].decl
  OBVIOUS
<1>7. d \in Decls /\ Kind(d) = "func" /\ ~d.init /\ d.name \in Names
  BY <1>1, <1>4, <1>5, <1>6 DEF FlatOpen, StackOK, OpenOK, Decls
<1>8. PICK s, cs : s = Parent(scope) /\ cs = Tail(cscopes)
  OBVIOUS
<1>9. At(s, cs) /\ s # scope
  BY <1>1, <1>4, <1>5, <1>8, AtParent
<1>10. \/ Refused(d, s) /\ Stop("error")
       \/ /\ ~Refused(d, s) /\ MakeDeclaration(d, s, scope) /\ scope' = s /\ types' = types
          /\ open' = Tail(open)
  BY <1>3, <1>6, <1>8 DEF ExitProto
<1>11. open' = Tail(open) /\ types' = types /\ scope' = s => FlatOpen'
  <2> SUFFICES ASSUME open' = Tail(open), types' = types, scope' = s PROVE FlatOpen'
    OBVIOUS
  <2>1. members' = members
    BY <1>3 DEF CDeclaration, Breaks
  <2>2. s \notin ListScopes /\ ListScopes' = ListScopes
    BY <1>9 DEF At, ListScopes
  <2>3. \A k \in DOMAIN Tail(open) : k + 1 \in DOMAIN open /\ Tail(open)[k] = open[k + 1]
    <3>1. open \in Seq(OpenType)
      BY <1>1 DEF StackOK
    <3> HIDE DEF OpenType
    <3> QED
      BY <1>4, <3>1
  <2> QED
    BY <1>5, <2>1, <2>2, <2>3 DEF FlatOpen
<1>12. PICK p : p = scope
  OBVIOUS
<1>13. p \in 0 .. Len(scopes) /\ p # s /\ p \in DOMAIN scopes /\ scopes[p].type = "proto"
  BY <1>1, <1>4, <1>9, <1>12, Domains, ScopeKinds DEF StackOK
<1>14. PICK q : q = cscopes[1]
  OBVIOUS
<1>15. /\ Len(cscopes) \in Nat /\ Len(cscopes) >= 1 /\ DOMAIN cscopes = 1 .. Len(cscopes)
       /\ scopes[scope].chain[1] = scope /\ cscopes[1] \in CScopeType
  BY <1>1, <1>5, AtDomains
<1>16. q \in CScopeType /\ InRange(q)
  BY <1>14, <1>15 DEF Coupled, RangesOK
<1>17. ParamsRead(p, q)
  <2> SUFFICES ASSUME NEW n \in Names
               PROVE  LET i == scopes[p].usual[n]
                      IN  IF i # 0 THEN Stands(i, q.names[n]) ELSE q.names[n].ent = 0
    BY <1>13 DEF ParamsRead
  <2>1. LET i == scopes[p].usual[n]
        IN  IF i # 0 THEN Stands(i, q.names[n])
            ELSE q.names[n].ent = 0 \/ Extern(p, cscopes, 1, n)
    BY <1>5, <1>12, <1>14, <1>15 DEF At, NamesOK
  <2>2. ~Extern(p, cscopes, 1, n)
    BY <1>12, <1>13, <1>15 DEF Extern
  <2> QED
    BY <2>1, <2>2
<1>18. CDeclaration(cs, d, q)
  BY <1>3, <1>6, <1>8, <1>14
<1>19. CConstraint(cs, d) \/ scopes[s].type = "file"
  <2>1. Plain(cs, d) /\ d.storage # "typedef"
    BY <1>2, <1>6, <1>7, <1>8, PlainDeclarator DEF Kind
  <2>2. ~AtFile(cs) => CConstraint(cs, d)
    BY <1>1, <1>7, <1>9, <2>1, InnerDeclarator
  <2>3. AtFile(cs) => scopes[s].type = "file"
    BY <1>1, <1>7, <1>9, NameHere DEF IsFileScope
  <2> QED
    BY <2>2, <2>3
<1> QED
  <2>1. \/ Refused(d, s) /\ Stop("error")
        \/ ~Refused(d, s) /\ MakeDeclaration(d, s, p) /\ scope' = s /\ types' = types /\ FlatOpen'
    BY <1>10, <1>11, <1>12
  <2>2. /\ DeclareDiffers(cs, d) = {}
        /\ scopes[s].type = "proto" => Kind(d) = "object" \/ CConstraint(cs, d)
        /\ ~AtFile(cs) => d.storage # "extern" \/ Kind(d) # "object" \/ scopes[s].type = "block"
    BY <1>2, <1>6, <1>7, <1>8, <1>19
  <2> QED
    BY <1>2, <1>5, <1>7, <1>9, <1>13, <1>16, <1>17, <1>18, <2>1, <2>2, DeclaratorHeld

---------------------------------------------------------------------------
(* Uses, and what enters nothing.                                        *)

\* A step that enters nothing.
Idle ==
  /\ UNCHANGED <<scopes, scope, idents, types, open, cscopes, ents, members, params>>
  /\ verdict' = "ok" /\ last'.act # "declare"

\* It keeps the correspondence.
LEMMA IdleCoupled ==
  ASSUME TablesOK, Coupled, Idle, NewStand
  PROVE  Coupled'
<1>1. stands' = stands
  BY StandsSame DEF Idle
<1>2. CTablesOK' /\ RangesOK'
  BY <1>1 DEF Idle, Coupled, CTablesOK, RangesOK, InRange, CScopeType, EntityType
<1>3. ListScopes' = ListScopes /\ Within' = Within /\ Lists' = Lists
      /\ \A k : ScopeAt(k)' = ScopeAt(k)
  BY DEF Idle, ListScopes, Within, Lists, ScopeAt
<1>4. ChainsOK' /\ UsualOK'
  BY <1>3 DEF Idle, Coupled, ChainsOK, ChainOK, UsualOK, UsualAt
<1>5. TagTypesOK' /\ UnopenedOK'
  BY <1>3 DEF Idle, Coupled, TagTypesOK, TagTypeAt, IsStructTag, TypeOf, UnopenedOK, Unopened, EmptyList
<1>6. OpenListsOK' /\ Around' = Around
  BY <1>1, <1>3 DEF Idle, Coupled, OpenListsOK, OpenList, Around, IsStructTag, TypeOf
<1>7. NamesOK(Around, cscopes)' /\ TagsOK(Around, cscopes)'
  <2>1. PICK s : s = Around
    OBVIOUS
  <2>2. NamesOK(s, cscopes)'
    BY <1>1, <2>1, NamesStay DEF Idle, Coupled
  <2>3. TagsOK(s, cscopes)'
    BY <1>1, <1>3, <2>1 DEF Idle, Coupled, TagsOK
  <2> QED
    BY <1>6, <2>1, <2>2, <2>3, NamesMoved
<1>8. LinkedOK' /\ StandsOK' /\ ParamsOK'
  BY <1>1 DEF Idle, Coupled, LinkedOK, LinkedAt, FileEntry, StandsOK, StandOK, LinkageOf, TypeOf,
              ParamsOK
<1>9. StructsOK'
  BY <1>1 DEF Idle, Coupled, StructsOK, IsStructTag, TypeOf
<1> QED
  BY <1>2, <1>4, <1>5, <1>6, <1>7, <1>8, <1>9 DEF Coupled

\* What a name means, and what a tag.
LEMMA NameMeant ==
  ASSUME TablesOK, StackOK, Coupled, NEW n \in Names
  PROVE  LET i == FindUsual(scope, n)
             entry == Visible(cscopes, n)
         IN  \/ i # 0 /\ IsInStruct(i)
             \/ i = 0 /\ entry.ent = 0
             \/ i # 0 /\ Stands(i, entry)
<1>1. /\ ChainsOK /\ OpenListsOK /\ CTablesOK /\ NamesOK(Around, cscopes) /\ UsualOK
  BY DEF Coupled
<1>2. /\ scope \in DOMAIN scopes /\ Around \in DOMAIN scopes /\ Around \in Within[scope]
  <2>1. 1 \in 1 .. Lists + 1 /\ Lists + 1 \in 1 .. Lists + 1
    BY <1>1, ListsAround
  <2> QED
    BY <1>1, <2>1, ListsAround DEF Around
<1>3. cscopes \in Seq(CScopeType)
  BY <1>1 DEF CTablesOK
<1>4. \/ FindUsual(scope, n) = FindUsual(Around, n)
      \/ FindUsual(scope, n) # 0 /\ IsInStruct(FindUsual(scope, n))
  BY <1>1, <1>2, NameAtList
<1>5. \/ FindUsual(Around, n) = 0 /\ Visible(cscopes, n).ent = 0
      \/ FindUsual(Around, n) # 0 /\ Stands(FindUsual(Around, n), Visible(cscopes, n))
  BY <1>1, <1>2, <1>3, NameAtBlock
<1> QED
  BY <1>4, <1>5

LEMMA TagMeant ==
  ASSUME TablesOK, StackOK, Coupled, NEW t \in Tags
  PROVE  LET i == FindTag(scope, t)
             e == VisibleTag(cscopes, t)
         IN  \/ i = 0 /\ e = 0
             \/ /\ i # 0 /\ e # 0 /\ i \in DOMAIN idents /\ stands[i] = e /\ e \in DOMAIN ents
                /\ ents[e].kind = IF idents[i].ty.k = "struct" THEN "struct" ELSE "enum"
<1> DEFINE i == FindTag(scope, t)
           e == VisibleTag(cscopes, t)
<1>1. \/ i = 0 /\ e = 0
      \/ i # 0 /\ e # 0 /\ i \in DOMAIN idents /\ idents[i].kind = "tag" /\ stands[i] = e
  BY TagAtScope
<1> HIDE DEF i, e
<1>2. i \in DOMAIN idents /\ idents[i].kind = "tag" =>
        ents[stands[i]].kind = IF idents[i].ty.k = "struct" THEN "struct" ELSE "enum"
  BY DEF Coupled, StandsOK, StandOK
<1>3. stands \in Seq(Nat) /\ Len(stands) = Len(idents) /\ DOMAIN idents = 1 .. Len(idents)
  BY Domains DEF Coupled, CTablesOK
<1>4. i \in DOMAIN idents => i \in DOMAIN stands
  BY <1>3
<1>5. i \in DOMAIN stands /\ stands[i] # 0 => stands[i] \in DOMAIN ents
  BY DEF Coupled, RangesOK
<1> QED
  BY <1>1, <1>2, <1>4, <1>5 DEF i, e

\* A name that is used, in code and in a constant, and "enum t".
LEMMA UseNameHeld ==
  ASSUME SInv, Coupled, NEW n \in Names, UseName(n), known' = {}
  PROVE  Held'
<1> DEFINE i == FindUsual(scope, n)
           entry == Visible(cscopes, n)
<1>1. TablesOK /\ StackOK
  BY DEF SInv
<1>2. verdict = "ok" /\ cverdict = "ok" /\ (cverdict' = "ok" => NewStand)
      /\ ~(i # 0 /\ IsInStruct(i))
  BY OfBoth DEF UseName, Known
<1>3. \/ i = 0 /\ entry.ent = 0
      \/ i # 0 /\ Stands(i, entry)
  BY <1>1, <1>2, NameMeant
<1>4. Use(n) /\ CUse(n)
  BY DEF UseName
<1>5. CASE i = 0 /\ entry.ent = 0
  BY <1>4, <1>5 DEF Use, Stop, CUse, Breaks, Held
<1>6. CASE i # 0 /\ Stands(i, entry)
  <2>1. entry.ent # 0
    BY <1>6 DEF Stands
  <2>2. Idle /\ cverdict' = "ok"
    BY <1>2, <1>4, <1>6, <2>1 DEF Use, CUse, Denotes, Idle
  <2> QED
    BY <1>1, <1>2, <2>2, IdleCoupled DEF Held, Idle
<1> QED
  BY <1>3, <1>5, <1>6

LEMMA TakeAddressHeld ==
  ASSUME SInv, Coupled, NEW n \in Names, TakeAddress(n), known' = {}
  PROVE  Held'
<1> DEFINE i == FindUsual(scope, n)
           entry == Visible(cscopes, n)
<1>1. TablesOK /\ StackOK
  BY DEF SInv
<1>2. verdict = "ok" /\ cverdict = "ok" /\ (cverdict' = "ok" => NewStand)
  BY OfBoth DEF TakeAddress
<1>3. ~In("struct") /\ Name(n) /\ CUse(n) /\ i # 0
  BY DEF TakeAddress, Mention, Name
<1>4. Lists = 0 /\ Around = scope /\ scope \in DOMAIN scopes
  BY <1>1, <1>3, FlatIn DEF StackOK
<1>5. Stands(i, entry)
  BY <1>1, <1>3, <1>4, NameAtBlock DEF Coupled, CTablesOK
<1>6. entry.ent # 0
  BY <1>5 DEF Stands
<1>7. Idle /\ cverdict' = "ok"
  BY <1>2, <1>3, <1>6 DEF Name, CUse, Denotes, Idle
<1> QED
  BY <1>1, <1>2, <1>7, IdleCoupled DEF Held, Idle

LEMMA SpecifierEnumHeld ==
  ASSUME SInv, Coupled, NEW t \in Tags, SpecifierEnum(t), known' = {}
  PROVE  Held'
<1> DEFINE i == FindTag(scope, t)
           e == VisibleTag(cscopes, t)
<1>1. TablesOK /\ StackOK
  BY DEF SInv
<1>2. verdict = "ok" /\ cverdict = "ok" /\ (cverdict' = "ok" => NewStand)
      /\ ~(e # 0 /\ ents[e].kind = "struct")
  BY OfBoth DEF SpecifierEnum, Known
<1>3. EnumSpecifier(t) /\ CEnumSpecifier(t)
  BY DEF SpecifierEnum
<1>4. \/ i = 0 /\ e = 0
      \/ i # 0 /\ e # 0
  BY <1>1, TagMeant
<1>5. CASE i = 0 /\ e = 0
  BY <1>3, <1>5 DEF EnumSpecifier, Stop, CEnumSpecifier, Breaks, Held
<1>6. CASE i # 0 /\ e # 0
  <2>1. Idle /\ cverdict' = "ok"
    BY <1>2, <1>3, <1>6 DEF EnumSpecifier, CEnumSpecifier, Denotes, Idle
  <2> QED
    BY <1>1, <1>2, <2>1, IdleCoupled DEF Held, Idle
<1> QED
  BY <1>4, <1>5, <1>6

\* "struct t", of a tag that there is.
LEMMA SpecifierAgain ==
  ASSUME SInv, Coupled, NEW t \in Tags, NEW alone \in BOOLEAN, Specifier(t, alone), known' = {},
         FindTag(scope, t) # 0
  PROVE  Held'
<1> DEFINE i == FindTag(scope, t)
           e == VisibleTag(cscopes, t)
<1>1. TablesOK /\ StackOK
  BY DEF SInv
<1>2. verdict = "ok" /\ cverdict = "ok" /\ (cverdict' = "ok" => NewStand)
      /\ (alone => e = TagIn(t)) /\ ~(e # 0 /\ ents[e].kind = "enum")
  BY OfBoth DEF Specifier, Known
<1>3. TagSpecifier(t) /\ CTagSpecifier(t, alone)
  BY DEF Specifier
<1>4. e # 0 /\ ents[e].kind = "struct"
  BY <1>1, <1>2, TagMeant
<1>5. (IF alone THEN TagIn(t) ELSE VisibleTag(cscopes, t)) = e
  BY <1>2
<1>6. Idle /\ cverdict' = "ok"
  BY <1>2, <1>3, <1>4, <1>5 DEF TagSpecifier, CTagSpecifier, Denotes, Idle
<1> QED
  BY <1>1, <1>2, <1>6, IdleCoupled DEF Held, Idle

---------------------------------------------------------------------------
(* Scopes: parameter lists, blocks and the bodies of functions.          *)

\* A scope is entered: of kcc the new one, of C the scope inner.
EntsSame ==
  /\ ents' \in Seq(EntityType) /\ EntsCarried /\ DOMAIN ents' = DOMAIN ents
  /\ \A e \in DOMAIN ents :
       /\ ents'[e].ty = ents[e].ty
       /\ ents[e].kind \in {"struct", "enum"} => ents'[e].def = ents[e].def

OldScopes ==
  \A r \in DOMAIN scopes : scopes'[r].usual = scopes[r].usual /\ scopes'[r].tags = scopes[r].tags

InnerNames(inner) ==
  LET new == Len(scopes) + 1
  IN  /\ \A t \in Tags : scopes'[new].tags[t] = 0 /\ inner.tags[t] = 0
      /\ \A n \in Names : LET i == scopes'[new].usual[n]
                          IN  IF i # 0 THEN Stands(i, inner.names[n]) ELSE inner.names[n].ent = 0

\* A stack with one more in front.
LEMMA Pushed ==
  ASSUME NEW S, NEW cs \in Seq(S), cs # <<>>, NEW inner \in S, NEW new, new = <<inner>> \o cs
  PROVE  /\ new \in Seq(S) /\ Len(cs) \in Nat /\ Len(new) = Len(cs) + 1 /\ new[1] = inner
         /\ DOMAIN cs = 1 .. Len(cs) /\ DOMAIN new = 1 .. Len(cs) + 1 /\ Len(cs) >= 1
         /\ \A j \in DOMAIN new : j # 1 => j - 1 \in DOMAIN cs /\ new[j] = cs[j - 1]
         /\ new[Len(new)] = cs[Len(cs)] /\ new # <<>>
OBVIOUS

\* Then the names correspond in the new scope, and the tags do.
LEMMA PushedNames ==
  ASSUME TablesOK, NEW s \in DOMAIN scopes, NEW cs, At(s, cs), Grown(s), OldScopes,
         NEW inner \in CScopeType, InnerNames(inner), idents' = idents, stands' = stands, EntsSame,
         \A n \in Names : cs[Len(cs)].names[n].ent # 0 => cs[Len(cs)].names[n].ent \in DOMAIN ents,
         cscopes' = <<inner>> \o cs, NEW u, u = Len(scopes) + 1
  PROVE  NamesOK(u, cscopes)'
<1> DEFINE c == scopes[s].chain
           e == scopes'[u].chain
           cs2 == cscopes'
<1>1. /\ cs2 \in Seq(CScopeType) /\ Len(cs) \in Nat /\ Len(cs2) = Len(cs) + 1 /\ cs2[1] = inner
      /\ DOMAIN cs = 1 .. Len(cs) /\ DOMAIN cs2 = 1 .. Len(cs) + 1 /\ Len(cs) >= 1
      /\ \A j \in DOMAIN cs2 : j # 1 => j - 1 \in DOMAIN cs /\ cs2[j] = cs[j - 1]
      /\ cs2[Len(cs2)] = cs[Len(cs)]
  <2> HIDE DEF CScopeType
  <2> QED
    BY Pushed DEF At
<1>2. /\ Len(e) = Len(c) + 1 /\ e[1] = u /\ DOMAIN e = 1 .. Len(c) + 1
      /\ \A p \in DOMAIN c : e[p + 1] = c[p]
      /\ \A p \in DOMAIN e : p # 1 => p - 1 \in DOMAIN c /\ e[p] = c[p - 1]
  BY GrownChain
<1>3. /\ Len(c) = Len(cs) /\ DOMAIN c = 1 .. Len(cs) /\ \A j \in 1 .. Len(cs) : c[j] \in DOMAIN scopes
  BY AtDomains
<1>4. NamesOK(s, cs)
  BY DEF At
<1> HIDE DEF c, e, cs2
<1>5. ASSUME NEW j \in DOMAIN cs2, NEW n \in Names
      PROVE  LET i == scopes'[e[j]].usual[n]
             IN  IF i # 0 THEN Stands(i, cs2[j].names[n])
                 ELSE cs2[j].names[n].ent = 0 \/
                      /\ j < Len(cs2) /\ scopes'[e[j]].type = "block"
                      /\ cs2[j].names[n] = cs2[Len(cs2)].names[n]
                      /\ cs2[j].names[n].ent \in DOMAIN ents
                      /\ LinkageOf(cs2[j].names[n].ent) # "none"
                      /\ \A k \in j .. Len(cs2) - 1 : scopes'[e[k]].usual[n] = 0
  <2>1. CASE j = 1
    BY <1>1, <1>2, <2>1 DEF InnerNames
  <2>2. CASE j # 1
    <3>1. /\ j - 1 \in DOMAIN cs /\ cs2[j] = cs[j - 1] /\ e[j] = c[j - 1]
          /\ c[j - 1] \in DOMAIN scopes
      BY <1>1, <1>2, <1>3, <2>2
    <3>2. scopes'[e[j]].usual = scopes[c[j - 1]].usual /\ scopes'[e[j]].type = scopes[c[j - 1]].type
      BY <3>1 DEF OldScopes, Grown
    <3>3. LET i == scopes[c[j - 1]].usual[n]
          IN  IF i # 0 THEN Stands(i, cs[j - 1].names[n])
              ELSE cs[j - 1].names[n].ent = 0 \/ Extern(s, cs, j - 1, n)
      BY <1>4, <3>1 DEF NamesOK, c
    <3>4. ASSUME Extern(s, cs, j - 1, n)
          PROVE  /\ j < Len(cs2) /\ scopes'[e[j]].type = "block"
                 /\ cs2[j].names[n] = cs2[Len(cs2)].names[n]
                 /\ cs2[j].names[n].ent \in DOMAIN ents
                 /\ LinkageOf(cs2[j].names[n].ent) # "none"
                 /\ \A k \in j .. Len(cs2) - 1 : scopes'[e[k]].usual[n] = 0
      <4>1. /\ j - 1 < Len(cs) /\ scopes[c[j - 1]].type = "block"
            /\ cs[j - 1].names[n] = cs[Len(cs)].names[n]
            /\ LinkageOf(cs[j - 1].names[n].ent) # "none"
            /\ \A k \in j - 1 .. Len(cs) - 1 : scopes[c[k]].usual[n] = 0
        BY <3>4 DEF Extern, FileEntry, c
      <4>2. ASSUME NEW k \in j .. Len(cs2) - 1 PROVE scopes'[e[k]].usual[n] = 0
        <5>1. k - 1 \in j - 1 .. Len(cs) - 1 /\ k \in DOMAIN e /\ k # 1 /\ k - 1 \in 1 .. Len(cs)
          BY <1>1, <1>2, <1>3, <2>2
        <5>2. e[k] = c[k - 1] /\ c[k - 1] \in DOMAIN scopes
          BY <1>2, <1>3, <5>1
        <5> QED
          BY <4>1, <5>1, <5>2 DEF OldScopes
      <4>3. cs2[j].names[n].ent # 0
        BY <3>1, <4>1 DEF LinkageOf
      <4>4. j < Len(cs2)
        BY <1>1, <4>1
      <4>5. cs2[j].names[n] = cs2[Len(cs2)].names[n] /\ cs2[j].names[n] = cs[Len(cs)].names[n]
        BY <1>1, <3>1, <4>1
      <4>6. LinkageOf(cs2[j].names[n].ent) # "none"
        BY <3>1, <4>1
      <4>7. cs2[j].names[n].ent \in DOMAIN ents
        BY <4>3, <4>5
      <4> QED
        BY <3>2, <4>1, <4>2, <4>4, <4>5, <4>6, <4>7
    <3> QED
      BY <3>1, <3>2, <3>3, <3>4
  <2> QED
    BY <2>1, <2>2
<1>8. Len(e) = Len(cs2)
  BY <1>1, <1>2, <1>3
<1>9. ASSUME NEW j \in DOMAIN cs2, NEW n \in Names
      PROVE  LET i == scopes'[e[j]].usual[n]
             IN  IF i # 0
                 THEN /\ cs2[j].names[n].ent # 0 /\ stands'[i] = cs2[j].names[n].ent
                      /\ idents'[i].ty = cs2[j].names[n].ty
                 ELSE \/ cs2[j].names[n].ent = 0
                      \/ /\ j < Len(cs2) /\ scopes'[e[j]].type = "block"
                         /\ cs2[j].names[n] = cs2[Len(cs2)].names[n]
                         /\ cs2[j].names[n].ent # 0
                         /\ ents'[cs2[j].names[n].ent].linkage # "none"
                         /\ \A k \in j .. Len(cs2) - 1 : scopes'[e[k]].usual[n] = 0
  <2> DEFINE i == scopes'[e[j]].usual[n]
             entry == cs2[j].names[n]
  <2>1. CASE i # 0
    BY <1>5, <2>1 DEF Stands
  <2>2. CASE i = 0 /\ entry.ent # 0
    <3>1. /\ j < Len(cs2) /\ scopes'[e[j]].type = "block"
          /\ cs2[j].names[n] = cs2[Len(cs2)].names[n]
          /\ cs2[j].names[n].ent \in DOMAIN ents
          /\ LinkageOf(cs2[j].names[n].ent) # "none"
          /\ \A k \in j .. Len(cs2) - 1 : scopes'[e[k]].usual[n] = 0
      BY <1>5, <2>2
    <3>2. ents[cs2[j].names[n].ent].linkage # "none" /\ cs2[j].names[n].ent # 0
      BY <2>2, <3>1 DEF LinkageOf
    <3>3. ents'[cs2[j].names[n].ent].linkage # "none"
      BY <3>1, <3>2 DEF EntsSame, EntsCarried
    <3> QED
      BY <2>2, <3>1, <3>2, <3>3
  <2> QED
    BY <2>1, <2>2
<1>10. ASSUME NEW j \in DOMAIN cscopes', NEW n \in Names,
              scopes'[scopes'[u].chain[j]].usual[n] = 0, cscopes'[j].names[n].ent # 0
       PROVE  Extern(u, cscopes, j, n)'
  BY <1>9, <1>10 DEF Extern, FileEntry, LinkageOf, e, cs2
<1>11. ASSUME NEW j \in DOMAIN cscopes', NEW n \in Names,
              scopes'[scopes'[u].chain[j]].usual[n] # 0
       PROVE  LET i == scopes'[scopes'[u].chain[j]].usual[n]
                  x == cscopes'[j].names[n]
              IN  x.ent # 0 /\ stands'[i] = x.ent /\ idents'[i].ty = x.ty
  BY <1>9, <1>11 DEF e, cs2
<1>12. Len(scopes'[u].chain) = Len(cscopes')
  BY <1>8 DEF e, cs2
<1> QED
  BY <1>10, <1>11, <1>12 DEF NamesOK, Stands

LEMMA PushedTags ==
  ASSUME TablesOK, TablesOK', ChainsOK, NEW s \in DOMAIN scopes, NEW cs, At(s, cs), Grown(s), OldScopes,
         ListScopes' = ListScopes, Len(scopes) + 1 \notin ListScopes, Lists = 0,
         NEW inner \in CScopeType, InnerNames(inner), stands' = stands,
         cscopes' = <<inner>> \o cs, NEW u, u = Len(scopes) + 1
  PROVE  TagsOK(u, cscopes)'
<1> DEFINE c == scopes[s].chain
           e == scopes'[u].chain
           cs2 == cscopes'
<1>1. /\ cs2 \in Seq(CScopeType) /\ Len(cs) \in Nat /\ Len(cs2) = Len(cs) + 1 /\ cs2[1] = inner
      /\ DOMAIN cs = 1 .. Len(cs) /\ DOMAIN cs2 = 1 .. Len(cs) + 1 /\ Len(cs) >= 1
      /\ \A j \in DOMAIN cs2 : j # 1 => j - 1 \in DOMAIN cs /\ cs2[j] = cs[j - 1]
  <2> HIDE DEF CScopeType
  <2> QED
    BY Pushed DEF At
<1>2. /\ Len(e) = Len(c) + 1 /\ e[1] = u /\ DOMAIN e = 1 .. Len(c) + 1
      /\ \A p \in DOMAIN e : p # 1 => p - 1 \in DOMAIN c /\ e[p] = c[p - 1]
      /\ u \notin DOMAIN scopes
  BY GrownChain
<1>3. /\ Len(c) = Len(cs) /\ DOMAIN c = 1 .. Len(cs) /\ \A j \in 1 .. Len(cs) : c[j] \in DOMAIN scopes
  BY AtDomains
<1>4. TagsOK(s, cs)
  BY DEF At
<1>5. /\ DOMAIN scopes' = DOMAIN scopes \cup {u} /\ Within'[u] = {u}
      /\ \A r \in DOMAIN scopes : Within'[r] = Within[r]
  BY GrownWithin DEF At
<1> HIDE DEF c, e, cs2
<1>6. ASSUME NEW j \in DOMAIN cs2, NEW t \in Tags
      PROVE  /\ \A r \in DOMAIN scopes' :
                  e[j] \in Within'[r] /\ scopes'[r].tags[t] # 0 =>
                    stands'[scopes'[r].tags[t]] = cs2[j].tags[t]
             /\ cs2[j].tags[t] # 0 => scopes'[e[j]].tags[t] # 0
  <2>1. CASE j = 1
    <3>1. cs2[j].tags[t] = 0 /\ scopes'[u].tags[t] = 0
      BY <1>1, <2>1 DEF InnerNames
    <3>2. ASSUME NEW r \in DOMAIN scopes', e[j] \in Within'[r] PROVE r = u
      <4> SUFFICES ASSUME r \in DOMAIN scopes PROVE FALSE
        BY <1>5
      <4>1. u \in Within[r]
        BY <1>2, <1>5, <2>1, <3>2
      <4> QED
        BY <1>2, <4>1, InsideScope
    <3> QED
      BY <3>1, <3>2
  <2>2. CASE j # 1
    <3>1. /\ j - 1 \in DOMAIN cs /\ cs2[j] = cs[j - 1] /\ e[j] = c[j - 1]
          /\ c[j - 1] \in DOMAIN scopes
      BY <1>1, <1>2, <1>3, <2>2
    <3>2. /\ \A r \in DOMAIN scopes :
               c[j - 1] \in Within[r] /\ scopes[r].tags[t] # 0 =>
                 stands[scopes[r].tags[t]] = cs[j - 1].tags[t]
          /\ cs[j - 1].tags[t] # 0 => scopes[c[j - 1]].tags[t] # 0
      BY <1>4, <3>1 DEF TagsOK, c
    <3>3. ASSUME NEW r \in DOMAIN scopes', e[j] \in Within'[r] PROVE r \in DOMAIN scopes
      BY <1>2, <1>5, <3>1, <3>3
    <3> QED
      BY <1>5, <3>1, <3>2, <3>3 DEF OldScopes
  <2> QED
    BY <2>1, <2>2
<1> QED
  BY <1>6 DEF TagsOK, e, cs2

\* All of it, of a scope that is entered.
LEMMA ScopeCoupled ==
  ASSUME SInv, SInv', Coupled, ~In("struct"), Grown(scope), OldScopes, NewStand,
         scope' = Len(scopes) + 1, types' = types, idents' = idents, members' = members,
         params' = params, EntsSame, NEW inner \in CScopeType, InRange(inner), InnerNames(inner),
         cscopes' = <<inner>> \o cscopes, FlatOpen', last'.act # "declare",
         NEW u, u = Len(scopes) + 1, \A n \in Names : UsualAt(u, n)'
  PROVE  Coupled'
<1>1. TablesOK /\ TablesOK' /\ StackOK /\ StackOK'
  BY DEF SInv
<1>2. FlatOpen /\ Lists = 0 /\ Around = scope /\ At(scope, cscopes)
  BY <1>1, FlatIn, AtAround
<1>3. /\ ChainsOK /\ UsualOK /\ TagTypesOK /\ UnopenedOK /\ LinkedOK /\ StandsOK /\ CTablesOK
      /\ RangesOK
  BY DEF Coupled
<1>4. /\ ListScopes' = ListScopes /\ u \notin ListScopes /\ scope \notin ListScopes
      /\ scope \in DOMAIN scopes
  <2>1. u \notin DOMAIN scopes /\ scope \in DOMAIN scopes
    BY <1>1, <1>2, GrownChain DEF At
  <2>2. \A y \in DOMAIN types : types[y].scope \in DOMAIN scopes
    BY <1>1, Domains
  <2> QED
    BY <1>2, <2>1, <2>2 DEF ListScopes, FlatOpen
<1>5. /\ DOMAIN scopes' = DOMAIN scopes \cup {u}
      /\ \A q \in DOMAIN scopes' : ChainOK(q)'
      /\ \A r \in DOMAIN scopes : Within'[r] = Within[r]
      /\ u \notin ListScopes' => Within'[u] = {u}
  BY <1>1, <1>3, <1>4, GrownWithin
<1>6. ScopesCarried /\ TypesCarried
  BY <1>1, <1>3, <1>4, GrownCarried DEF TypesCarried
<1>7. ChainsOK'
  <2>1. 1 \in DOMAIN scopes' /\ scopes'[1].type = "file"
    BY <1>3, <1>5 DEF ChainsOK, Grown
  <2> QED
    BY <1>3, <1>5, <2>1 DEF ChainsOK
<1>8. stands' = stands
  BY <1>1, StandsSame
<1>9. IdentsCarried /\ EntsCarried
  BY <1>8 DEF IdentsCarried, EntsSame
<1>10. UsualOK'
  <2>1. \A r \in DOMAIN scopes', n \in Names :
          \/ r \in DOMAIN scopes /\ scopes'[r].usual[n] = scopes[r].usual[n]
          \/ UsualAt(r, n)'
    <3> SUFFICES ASSUME NEW r \in DOMAIN scopes', NEW n \in Names
                 PROVE  \/ r \in DOMAIN scopes /\ scopes'[r].usual[n] = scopes[r].usual[n]
                        \/ UsualAt(r, n)'
      OBVIOUS
    <3>1. CASE r = u
      BY <3>1 DEF UsualAt
    <3>2. CASE r # u
      BY <1>5, <3>2 DEF OldScopes
    <3> QED
      BY <3>1, <3>2
  <2> QED
    BY <1>1, <1>3, <1>6, <1>9, <2>1, UsualCarried
<1>11. TagTypesOK'
  <2>1. \A r \in DOMAIN scopes', t \in Tags :
          \/ r \in DOMAIN scopes /\ scopes'[r].tags[t] = scopes[r].tags[t]
          \/ TagTypeAt(r, t)'
    <3> SUFFICES ASSUME NEW r \in DOMAIN scopes', NEW t \in Tags
                 PROVE  \/ r \in DOMAIN scopes /\ scopes'[r].tags[t] = scopes[r].tags[t]
                        \/ TagTypeAt(r, t)'
      OBVIOUS
    <3>1. CASE r = u
      BY <3>1 DEF InnerNames, TagTypeAt, IsStructTag
    <3>2. CASE r # u
      BY <1>5, <3>2 DEF OldScopes
    <3> QED
      BY <3>1, <3>2
  <2> QED
    BY <1>1, <1>3, <1>6, <1>9, <2>1, TagTypesCarried
<1>12. OpenListsOK' /\ Lists' = 0 /\ Around' = u
  BY <1>1, FlatLists
<1>13. UnopenedOK'
  <2>1. ASSUME NEW r \in ListScopes
        PROVE  scopes'[r].usual = scopes[r].usual /\ scopes'[r].tags = scopes[r].tags
    BY <1>1, Domains DEF ListScopes, OldScopes
  <2> QED
    BY <1>1, <1>2, <1>3, <1>12, <2>1, FlatUnopened
<1>14. PICK cs : cs = cscopes
  OBVIOUS
<1>15. PICK s \in DOMAIN scopes : s = scope
  BY <1>4
<1>16. At(s, cs) /\ Grown(s) /\ cscopes' = <<inner>> \o cs
  BY <1>2, <1>14, <1>15
<1>17. /\ cscopes' \in Seq(CScopeType) /\ Len(cs) \in Nat /\ Len(cscopes') = Len(cs) + 1
       /\ cscopes'[1] = inner
       /\ DOMAIN cs = 1 .. Len(cs) /\ DOMAIN cscopes' = 1 .. Len(cs) + 1 /\ Len(cs) >= 1
       /\ \A j \in DOMAIN cscopes' : j # 1 => j - 1 \in DOMAIN cs /\ cscopes'[j] = cs[j - 1]
       /\ cscopes'[Len(cscopes')] = cs[Len(cs)]
  <2>1. cs \in Seq(CScopeType) /\ cs # <<>> /\ cscopes' = <<inner>> \o cs
    BY <1>16 DEF At
  <2>2. PICK S : S = CScopeType
    OBVIOUS
  <2>3. PICK new : new = cscopes'
    OBVIOUS
  <2>4. cs \in Seq(S) /\ inner \in S /\ new = <<inner>> \o cs /\ cs # <<>>
    BY <2>1, <2>2, <2>3
  <2>5. /\ new \in Seq(S) /\ Len(cs) \in Nat /\ Len(new) = Len(cs) + 1 /\ new[1] = inner
        /\ DOMAIN cs = 1 .. Len(cs) /\ DOMAIN new = 1 .. Len(cs) + 1 /\ Len(cs) >= 1
        /\ \A j \in DOMAIN new : j # 1 => j - 1 \in DOMAIN cs /\ new[j] = cs[j - 1]
        /\ new[Len(new)] = cs[Len(cs)]
    BY <2>4, Pushed
  <2> QED
    BY <2>2, <2>3, <2>5
<1>18. \A j \in DOMAIN cs : InRange(cs[j])
  BY <1>16 DEF At
<1>19. NamesOK(Around, cscopes)' /\ TagsOK(Around, cscopes)'
  <2>1. \A n \in Names : cs[Len(cs)].names[n].ent # 0 => cs[Len(cs)].names[n].ent \in DOMAIN ents
    BY <1>17, <1>18 DEF InRange
  <2>2. NamesOK(u, cscopes)'
    BY <1>1, <1>8, <1>16, <2>1, PushedNames
  <2>3. TagsOK(u, cscopes)'
    BY <1>1, <1>2, <1>3, <1>4, <1>8, <1>16, PushedTags
  <2> QED
    BY <1>12, <2>2, <2>3, NamesMoved
<1>20. CTablesOK'
  <2>1. /\ members' \in Seq([ent : Nat, names : SUBSET Names]) /\ params' \in CScopeType
        /\ stands' \in Seq(Nat) /\ Len(stands') = Len(idents') /\ ents' \in Seq(EntityType)
    BY <1>3, <1>8 DEF CTablesOK, EntsSame
  <2>2. CScopeType' = CScopeType /\ EntityType' = EntityType
    BY DEF CScopeType, EntityType
  <2>3. cscopes' # <<>>
    BY <1>17
  <2> QED
    BY <1>17, <2>1, <2>2, <2>3 DEF CTablesOK
<1>21. RangesOK'
  <2>1. ASSUME NEW j \in DOMAIN cscopes' PROVE InRange(cscopes[j])'
    <3>1. PICK q : q = cscopes'[j]
      OBVIOUS
    <3>2. InRange(q)
      BY <1>17, <1>18, <3>1
    <3>3. InRange(q)'
      BY <1>9, <3>2, InRangeCarried
    <3> QED
      BY <3>1, <3>3 DEF InRange
  <2>2. InRange(params)'
    <3>1. PICK q : q = params
      OBVIOUS
    <3>2. InRange(q)'
      BY <1>3, <1>9, <3>1, InRangeCarried DEF RangesOK
    <3> QED
      BY <3>1, <3>2 DEF InRange
  <2>3. \A i \in DOMAIN stands' : stands'[i] # 0 => stands'[i] \in DOMAIN ents'
    BY <1>3, <1>8 DEF RangesOK, EntsSame
  <2> QED
    BY <2>1, <2>2, <2>3 DEF RangesOK
<1>22. LinkedOK'
  <2>1. ASSUME NEW k \in DOMAIN ents', ents'[k].linkage # "none"
        PROVE  /\ ents'[k].name \in Names /\ ents'[k].kind \in {"func", "object"}
               /\ k = cscopes'[Len(cscopes')].names[ents'[k].name].ent
               /\ ents'[k].ty = cscopes'[Len(cscopes')].names[ents'[k].name].ty
    <3>1. /\ k \in DOMAIN ents /\ ents'[k].name = ents[k].name /\ ents'[k].kind = ents[k].kind
          /\ ents'[k].linkage = ents[k].linkage /\ ents'[k].ty = ents[k].ty
      BY DEF EntsSame, EntsCarried
    <3> QED
      BY <1>3, <1>14, <1>17, <2>1, <3>1 DEF LinkedOK, LinkedAt, FileEntry
  <2> QED
    BY <2>1 DEF LinkedOK, LinkedAt, FileEntry
<1>23. StandsOK'
  <2>1. ASSUME NEW i \in DOMAIN idents PROVE StandOK(i)'
    <3>1. stands[i] # 0 => stands[i] \in DOMAIN ents
      <4>1. stands \in Seq(Nat) /\ Len(stands) = Len(idents) /\ DOMAIN idents = 1 .. Len(idents)
        BY <1>1, <1>3, Domains DEF CTablesOK
      <4> QED
        BY <1>3, <4>1 DEF RangesOK
    <3>2. idents[i].kind = "tag" => ents'[stands[i]].def = ents[stands[i]].def
      BY <1>3, <3>1 DEF StandsOK, StandOK, EntsSame
    <3> QED
      BY <1>1, <1>9, <3>2, StandCarried
  <2> QED
    BY <2>1 DEF StandsOK
<1>24. ParamsOK'
  BY DEF ParamsOK
<1>25. StructsOK'
  BY <1>6, <1>9, StructsCarried DEF Coupled
<1> QED
  BY <1>7, <1>10, <1>11, <1>12, <1>13, <1>19, <1>20, <1>21, <1>22, <1>23, <1>24, <1>25 DEF Coupled

\* The new scope is that of no member list, and what is open goes on.
LEMMA FlatPushed ==
  ASSUME TablesOK, StackOK, FlatOpen, NEW o, o.what # "struct",
         o.what = "proto" => Kind(o.decl) = "func" /\ ~o.decl.init,
         open' = <<o>> \o open, members' = members, types' = types, scope' = Len(scopes) + 1
  PROVE  FlatOpen'
<1>1. Len(scopes) + 1 \notin DOMAIN scopes
  BY Domains
<1>2. Len(scopes) + 1 \notin ListScopes
  BY <1>1, Domains DEF ListScopes
<1>3. \A k \in DOMAIN open' : open'[k] = o \/ \E m \in DOMAIN open : open'[k] = open[m]
  <2>1. open \in Seq(OpenType)
    BY DEF StackOK
  <2> HIDE DEF OpenType
  <2> QED
    BY <2>1
<1> QED
  BY <1>2, <1>3 DEF FlatOpen, ListScopes

\* The scope that kcc enters, and an empty one.
LEMMA NewScopeGrown ==
  ASSUME TablesOK, NEW s \in DOMAIN scopes, NEW r, scopes' = Append(scopes, r),
         r.type # "file", r.chain = <<Len(scopes) + 1>> \o scopes[s].chain
  PROVE  Grown(s) /\ OldScopes /\ scopes'[Len(scopes) + 1] = r
<1>1. scopes \in Seq(ScopeType)
  BY DEF TablesOK
<1>2. /\ Len(scopes') = Len(scopes) + 1 /\ scopes'[Len(scopes) + 1] = r
      /\ \A q \in DOMAIN scopes : scopes'[q] = scopes[q]
  <2> HIDE DEF ScopeType
  <2> QED
    BY <1>1
<1> QED
  BY <1>2 DEF Grown, OldScopes

LEMMA EmptyInnermost ==
  ASSUME scopes'[Len(scopes) + 1].usual = [n \in Names |-> 0],
         scopes'[Len(scopes) + 1].tags = [t \in Tags |-> 0],
         NEW u, u = Len(scopes) + 1
  PROVE  InnerNames(EmptyScope) /\ \A n \in Names : UsualAt(u, n)'
BY DEF InnerNames, EmptyScope, NoEntry, UsualAt

LEMMA SameEnts ==
  ASSUME Coupled, ents' = ents
  PROVE  EntsSame
BY DEF EntsSame, EntsCarried, Coupled, CTablesOK

\* "(" and "{": a new scope without a name.
LEMMA BeginHeld ==
  ASSUME SInv, SInv', Coupled, ~In("struct"), NEW type, NEW o, type # "file", o.what # "struct",
         o.what = "proto" => Kind(o.decl) = "func" /\ ~o.decl.init,
         scopes' = Append(scopes, NewScope(type, scopes[scope].chain)),
         scope' = Len(scopes) + 1, open' = <<o>> \o open, Denotes("enter", 0),
         UNCHANGED <<idents, types>>, CEnterScope, verdict = "ok", cverdict = "ok", NewStand
  PROVE  Held'
<1>1. TablesOK /\ StackOK
  BY DEF SInv
<1>2. FlatOpen /\ scope \in DOMAIN scopes
  BY <1>1, FlatIn DEF StackOK
<1>3. /\ cscopes' = <<EmptyScope>> \o cscopes
      /\ UNCHANGED <<ents, members, params, cverdict>>
  BY DEF CEnterScope, COpen
<1>4. PICK u : u = Len(scopes) + 1
  OBVIOUS
<1>5. FlatOpen'
  BY <1>1, <1>2, <1>3, FlatPushed
<1>6. PICK s \in DOMAIN scopes : s = scope
  BY <1>2
<1>7. PICK r : r = NewScope(type, scopes[s].chain)
  OBVIOUS
<1>8. /\ r.type = type /\ r.chain = <<Len(scopes) + 1>> \o scopes[s].chain
      /\ r.usual = [n \in Names |-> 0] /\ r.tags = [t \in Tags |-> 0]
  BY <1>7 DEF NewScope
<1>9. Grown(s) /\ OldScopes /\ scopes'[Len(scopes) + 1] = r
  BY <1>1, <1>6, <1>7, <1>8, NewScopeGrown
<1>10. InnerNames(EmptyScope) /\ \A n \in Names : UsualAt(u, n)'
  BY <1>4, <1>8, <1>9, EmptyInnermost
<1>11. EntsSame
  BY <1>3, SameEnts
<1>12. PICK inner \in CScopeType : inner = EmptyScope
  BY EmptyRange
<1>13. last'.act # "declare" /\ verdict' = "ok"
  BY DEF Denotes
<1>14. /\ InRange(inner) /\ InnerNames(inner) /\ cscopes' = <<inner>> \o cscopes /\ Grown(scope)
  BY <1>3, <1>6, <1>9, <1>10, <1>12, EmptyRange
<1>15. Coupled'
  BY <1>3, <1>4, <1>5, <1>9, <1>10, <1>11, <1>13, <1>14, ScopeCoupled
<1> QED
  BY <1>3, <1>13, <1>15 DEF Held

\* "(", and "{" of a block.
LEMMA BeginParametersHeld ==
  ASSUME SInv, SInv', Coupled, NEW d \in Decls, BeginParameters(d), known' = {}
  PROVE  Held'
<1>1. verdict = "ok" /\ cverdict = "ok" /\ NewStand /\ CEnterScope
  <2>1. CEnterScope /\ Both({})
    BY DEF BeginParameters
  <2>2. cverdict' = cverdict
    BY <2>1 DEF CEnterScope, COpen
  <2> QED
    BY <2>1, <2>2, OfBoth
<1>2. PICK o : o = Opened("proto", scope, 0, d)
  OBVIOUS
<1>3. EnterProto(d) /\ ~In("struct") /\ Kind(d) = "func" /\ ~d.init
  BY DEF BeginParameters, EnterProto, MayDeclare
<1>4. o.what = "proto" /\ o.decl = d
  BY <1>2 DEF Opened
<1>5. /\ scopes' = Append(scopes, NewScope("proto", scopes[scope].chain))
      /\ scope' = Len(scopes) + 1 /\ open' = <<o>> \o open /\ Denotes("enter", 0)
      /\ UNCHANGED <<idents, types>>
  BY <1>2, <1>3 DEF EnterProto
<1> QED
  BY <1>1, <1>3, <1>4, <1>5, BeginHeld

LEMMA BeginBlockHeld ==
  ASSUME SInv, SInv', Coupled, BeginBlock, known' = {}
  PROVE  Held'
<1>1. verdict = "ok" /\ cverdict = "ok" /\ NewStand /\ CEnterScope
  <2>1. CEnterScope /\ Both({})
    BY DEF BeginBlock
  <2>2. cverdict' = cverdict
    BY <2>1 DEF CEnterScope, COpen
  <2> QED
    BY <2>1, <2>2, OfBoth
<1>2. PICK o : o = Opened("block", scope, 0, NoDecl)
  OBVIOUS
<1>3. EnterBlock /\ ~In("struct")
  BY DEF BeginBlock, EnterBlock, In
<1>4. o.what = "block"
  BY <1>2 DEF Opened
<1>5. /\ scopes' = Append(scopes, NewScope("block", scopes[scope].chain))
      /\ scope' = Len(scopes) + 1 /\ open' = <<o>> \o open /\ Denotes("enter", 0)
      /\ UNCHANGED <<idents, types>>
  BY <1>2, <1>3 DEF EnterBlock
<1> QED
  BY <1>1, <1>3, <1>4, <1>5, BeginHeld

\* The function that a body is read for, and its parameters.
LEMMA FunctionMeant ==
  ASSUME TablesOK, KindsOK, ReportOK, Coupled,
         open = <<>>, last.act = "declare", last.ident # 0, idents[last.ident].kind = "func"
  PROVE  LET f == meant[1]
         IN  /\ f \in DOMAIN ents /\ ents[f].kind \in {"func", "object"}
             /\ ParamsOf(idents[last.ident].params)
             /\ idents[last.ident].params \in 0 .. Len(scopes)
<1>1. last.ident \in DOMAIN idents /\ idents[last.ident] \in IdentType
  BY Domains DEF ReportOK
<1>2. meant = <<stands[last.ident]>> /\ ParamsOf(idents[last.ident].params)
  BY DEF Coupled, ParamsOK
<1>3. PICK f : f = stands[last.ident]
  OBVIOUS
<1>4. LinkageOf(f) # "none"
  BY <1>1, <1>3 DEF Coupled, StandsOK, StandOK
<1>5. f # 0 /\ ents[f].linkage # "none"
  BY <1>4 DEF LinkageOf
<1>6. f \in DOMAIN ents
  <2>1. stands \in Seq(Nat) /\ Len(stands) = Len(idents) /\ DOMAIN idents = 1 .. Len(idents)
    BY Domains DEF Coupled, CTablesOK
  <2> QED
    BY <1>1, <1>3, <1>5, <2>1 DEF Coupled, RangesOK
<1>7. ents[f].kind \in {"func", "object"}
  BY <1>5, <1>6 DEF Coupled, LinkedOK, LinkedAt
<1>8. meant[1] = f
  BY <1>2, <1>3
<1> QED
  BY <1>1, <1>2, <1>6, <1>7, <1>8 DEF IdentType

\* The names of the body's scope are the parameters of the function.
LEMMA BodyScope ==
  ASSUME TablesOK, Coupled, NEW p \in 0 .. Len(scopes), ParamsOf(p),
         \A t \in Tags : params.tags[t] = 0,
         \A n \in Names : params.names[n].ent # 0 => ents[params.names[n].ent].kind # "enumerator",
         scopes'[Len(scopes) + 1].usual = Parameters(p),
         scopes'[Len(scopes) + 1].tags = [t \in Tags |-> 0],
         ListScopes' = ListScopes, idents' = idents,
         NEW u, u = Len(scopes) + 1, NEW inner, inner = params
  PROVE  InnerNames(inner) /\ \A n \in Names : UsualAt(u, n)'
<1>1. u \notin ListScopes
  <2>1. u \notin DOMAIN scopes
    BY Domains
  <2>2. \A y \in DOMAIN types : types[y].scope \in DOMAIN scopes
    BY Domains
  <2> QED
    BY <2>1, <2>2 DEF ListScopes
<1>2. ASSUME NEW n \in Names
      PROVE  LET i == Parameters(p)[n]
             IN  /\ IF i # 0 THEN Stands(i, params.names[n]) ELSE params.names[n].ent = 0
                 /\ i # 0 => idents[i].linkage = "none" /\ idents[i].kind = "object"
  <2>1. CASE p = 0
    BY <2>1 DEF Parameters, ParamsOf, EmptyScope, NoEntry
  <2>2. CASE p # 0
    <3> DEFINE i == scopes[p].usual[n]
    <3>1. p \in DOMAIN scopes /\ scopes[p].type = "proto"
      BY <2>2, Domains DEF ParamsOf
    <3>2. IF i # 0 THEN Stands(i, params.names[n]) ELSE params.names[n].ent = 0
      BY <2>2 DEF ParamsOf
    <3>3. i # 0 => i \in DOMAIN idents /\ idents[i].kind \in {"object", "enumerator"}
                   /\ idents[i].linkage = "none"
      BY <3>1, Domains DEF TablesOK, EntriesOK, EntriesOf, Coupled, UsualOK, UsualAt
    <3>4. i # 0 => idents[i].kind = "object"
      <4> SUFFICES ASSUME i # 0, idents[i].kind = "enumerator" PROVE FALSE
        BY <3>3
      <4>1. ents[stands[i]].kind = "enumerator"
        BY <3>3 DEF Coupled, StandsOK, StandOK
      <4> QED
        BY <3>2, <4>1 DEF Stands
    <3>5. Parameters(p)[n] = i
      <4>1. Parameters(p)[n] = IF p # 0 /\ IsObject(i) THEN i ELSE 0
        BY DEF Parameters
      <4> QED
        BY <2>2, <3>4, <4>1 DEF IsObject
    <3> HIDE DEF i
    <3> QED
      BY <3>2, <3>3, <3>4, <3>5
  <2> QED
    BY <2>1, <2>2
<1>3. InnerNames(inner)
  BY <1>2 DEF InnerNames
<1>4. \A n \in Names : UsualAt(u, n)'
  BY <1>1, <1>2 DEF UsualAt
<1> QED
  BY <1>3, <1>4

\* "{" of a function: its body is the scope of its parameters.
LEMMA BeginBodyHeld ==
  ASSUME SInv, SInv', Coupled, BeginBody, known' = {}
  PROVE  Held'
<1> DEFINE f == meant[1]
           p == idents[last.ident].params
<1>1. TablesOK /\ StackOK /\ KindsOK /\ ReportOK
  BY DEF SInv
<1>2. /\ verdict = "ok" /\ cverdict = "ok" /\ (cverdict' = "ok" => NewStand)
      /\ ents[f].def # "yes"
      /\ \A t \in Tags : params.tags[t] = 0
      /\ \A n \in Names : params.names[n].ent # 0 => ents[params.names[n].ent].kind # "enumerator"
  <2>1. PICK differs : Both(differs) /\ differs =
          Known("tag or enumerator of a parameter list",
            \/ \E t \in Tags : params.tags[t] # 0
            \/ \E n \in Names : params.names[n].ent # 0
                                /\ ents[params.names[n].ent].kind = "enumerator")
          \cup Known("defined twice", ents[f].def = "yes")
    BY DEF BeginBody
  <2>2. differs = {} /\ verdict = "ok" /\ cverdict = "ok" /\ (cverdict' = "ok" => NewStand)
    BY <2>1, OfBoth
  <2> QED
    BY <2>1, <2>2 DEF Known
<1>3. EnterBody /\ CEnterBody
  BY DEF BeginBody
<1>4. /\ open = <<>> /\ last.act = "declare" /\ last.ident # 0 /\ idents[last.ident].kind = "func"
  BY <1>3 DEF EnterBody
<1>5. f \in DOMAIN ents /\ ents[f].kind \in {"func", "object"} /\ ParamsOf(p) /\ p \in 0 .. Len(scopes)
  BY <1>1, <1>4, FunctionMeant
<1>6. /\ cscopes' = <<params>> \o cscopes /\ ents' = [ents EXCEPT ![f].def = "yes"]
      /\ UNCHANGED <<members, params, cverdict>>
  BY <1>2, <1>3 DEF CEnterBody
<1>7. ~In("struct")
  BY <1>4 DEF In
<1>8. FlatOpen /\ scope \in DOMAIN scopes
  BY <1>1, <1>7, FlatIn DEF StackOK
<1>9. EntsSame
  <2>1. /\ ents \in Seq(EntityType) /\ ents[f] \in EntityType
    BY <1>5, EntNumbers
  <2>2. [ents[f] EXCEPT !.def = "yes"] \in EntityType
    BY <2>1 DEF EntityType
  <2>3. /\ ents' \in Seq(EntityType) /\ DOMAIN ents' = DOMAIN ents
        /\ \A e \in DOMAIN ents : ents'[e] = IF e = f THEN [ents[f] EXCEPT !.def = "yes"] ELSE ents[e]
    <3> HIDE DEF EntityType, f
    <3> QED
      BY <1>5, <1>6, <2>1, <2>2
  <2> HIDE DEF f
  <2>4. ASSUME NEW e \in DOMAIN ents
        PROVE  /\ ents'[e].kind = ents[e].kind /\ ents'[e].name = ents[e].name
               /\ ents'[e].linkage = ents[e].linkage /\ ents'[e].ty = ents[e].ty
               /\ ents[e].kind \in {"struct", "enum"} => ents'[e].def = ents[e].def
    BY <1>5, <2>1, <2>3 DEF EntityType
  <2> QED
    BY <2>3, <2>4 DEF EntsSame, EntsCarried
<1>10. PICK o : o = Opened("body", scope, 0, NoDecl)
  OBVIOUS
<1>11. open' = <<o>> \o open /\ o.what = "body"
  BY <1>3, <1>4, <1>10 DEF EnterBody, Opened
<1>12. /\ scope' = Len(scopes) + 1 /\ Denotes("enter", 0) /\ UNCHANGED <<idents, types>>
       /\ scopes' = Append(scopes, [NewScope("block", scopes[scope].chain) EXCEPT !.usual = Parameters(p)])
  BY <1>3 DEF EnterBody
<1>13. FlatOpen'
  BY <1>1, <1>6, <1>8, <1>11, <1>12, FlatPushed
<1>14. PICK s \in DOMAIN scopes : s = scope
  BY <1>8
<1>15. PICK r : r = [NewScope("block", scopes[s].chain) EXCEPT !.usual = Parameters(p)]
  OBVIOUS
<1>16. /\ r.type = "block" /\ r.chain = <<Len(scopes) + 1>> \o scopes[s].chain
       /\ r.usual = Parameters(p) /\ r.tags = [t \in Tags |-> 0]
  BY <1>15 DEF NewScope
<1>17. Grown(s) /\ OldScopes /\ scopes'[Len(scopes) + 1] = r
  BY <1>1, <1>12, <1>14, <1>15, <1>16, NewScopeGrown
<1>18. PICK u : u = Len(scopes) + 1
  OBVIOUS
<1>19. PICK inner \in CScopeType : inner = params
  BY DEF Coupled, CTablesOK
<1>20. InnerNames(inner) /\ \A n \in Names : UsualAt(u, n)'
  <2>1. PICK q \in 0 .. Len(scopes) : q = p
    BY <1>5
  <2>2. ListScopes' = ListScopes
    BY <1>12 DEF ListScopes
  <2> QED
    BY <1>1, <1>2, <1>5, <1>12, <1>16, <1>17, <1>18, <1>19, <2>1, <2>2, BodyScope
<1>21. InRange(inner) /\ cscopes' = <<inner>> \o cscopes /\ Grown(scope)
  BY <1>6, <1>14, <1>17, <1>19 DEF Coupled, RangesOK
<1>22. last'.act # "declare" /\ verdict' = "ok" /\ cverdict' = "ok"
  BY <1>2, <1>6, <1>12 DEF Denotes
<1>23. Coupled'
  BY <1>2, <1>6, <1>7, <1>9, <1>12, <1>13, <1>17, <1>18, <1>20, <1>21, <1>22, ScopeCoupled
<1> QED
  BY <1>22, <1>23 DEF Held

\* "}" of a block or of a function.
LEMMA EndBlockHeld ==
  ASSUME SInv, SInv', Coupled, EndBlock, known' = {}
  PROVE  Held'
<1>1. TablesOK /\ StackOK /\ StackOK'
  BY DEF SInv
<1>2. /\ ExitBlock /\ CExitBlock /\ open # <<>> /\ ~In("struct")
      /\ UNCHANGED <<scopes, idents, types, ents, members, params, cverdict>>
      /\ scope' = Parent(scope) /\ open' = Tail(open) /\ cscopes' = Tail(cscopes)
      /\ last'.act = "exit" /\ verdict' = verdict
  BY DEF EndBlock, ExitBlock, CExitBlock, In, Denotes
<1>3. verdict = "ok" /\ cverdict = "ok" /\ NewStand
  BY <1>2, OfBoth DEF EndBlock
<1>4. FlatOpen /\ Lists = 0 /\ Around = scope
  BY <1>1, <1>2, FlatIn
<1>5. PICK s, cs : s = Parent(scope) /\ cs = Tail(cscopes)
  OBVIOUS
<1>6. At(s, cs)
  BY <1>1, <1>2, <1>4, <1>5, AtParent
<1>7. stands' = stands
  BY <1>1, <1>2, <1>3, StandsSame
<1>8. ListScopes' = ListScopes /\ Within' = Within
  BY <1>2 DEF ListScopes, Within
<1>9. FlatOpen'
  <2>1. open \in Seq(OpenType)
    BY <1>1 DEF StackOK
  <2>2. \A k \in DOMAIN Tail(open) : k + 1 \in DOMAIN open /\ Tail(open)[k] = open[k + 1]
    <3> HIDE DEF OpenType
    <3> QED
      BY <1>2, <2>1
  <2>3. s \notin ListScopes
    BY <1>6 DEF At
  <2> QED
    BY <1>2, <1>4, <1>5, <1>8, <2>2, <2>3 DEF FlatOpen
<1>10. OpenListsOK' /\ Lists' = 0 /\ Around' = s
  BY <1>1, <1>2, <1>5, <1>9, FlatLists
<1>11. CTablesOK'
  <2>1. CScopeType' = CScopeType /\ EntityType' = EntityType
    BY DEF CScopeType, EntityType
  <2> QED
    BY <1>2, <1>5, <1>6, <1>7, <2>1 DEF At, Coupled, CTablesOK
<1>12. RangesOK'
  <2>1. \A j \in DOMAIN cs : InRange(cs[j])
    BY <1>6 DEF At
  <2> QED
    BY <1>2, <1>5, <1>7, <2>1 DEF RangesOK, InRange, Coupled
<1>13. ChainsOK' /\ UsualOK' /\ TagTypesOK'
  <2>1. ChainsOK'
    BY <1>2, <1>8 DEF Coupled, ChainsOK, ChainOK
  <2>2. UsualOK'
    BY <1>2, <1>8 DEF Coupled, UsualOK, UsualAt
  <2>3. TagTypesOK'
    BY <1>2, <1>8 DEF Coupled, TagTypesOK, TagTypeAt, IsStructTag, TypeOf
  <2> QED
    BY <2>1, <2>2, <2>3
<1>14. UnopenedOK'
  <2>1. UnopenedOK
    BY DEF Coupled
  <2> QED
    BY <1>1, <1>2, <1>4, <1>10, <2>1, FlatUnopened
<1>15. NamesOK(Around, cscopes)' /\ TagsOK(Around, cscopes)'
  <2>1. NamesOK(s, cs) /\ TagsOK(s, cs)
    BY <1>6 DEF At
  <2>2. NamesOK(s, cscopes)'
    BY <1>2, <1>5, <1>7, <2>1, NamesStay
  <2>3. TagsOK(s, cscopes)'
    BY <1>2, <1>4, <1>5, <1>7, <1>8, <2>1 DEF TagsOK
  <2> QED
    BY <1>10, <2>2, <2>3, NamesMoved
<1>16. LinkedOK'
  <2>1. LinkedAt(cs)
    BY <1>6 DEF At
  <2> QED
    BY <1>2, <1>5, <2>1 DEF LinkedOK, LinkedAt, FileEntry
<1>17. StandsOK' /\ ParamsOK'
  BY <1>2, <1>7 DEF Coupled, StandsOK, StandOK, LinkageOf, TypeOf, ParamsOK
<1>19. StructsOK'
  BY <1>2, <1>7 DEF Coupled, StructsOK, IsStructTag, TypeOf
<1>18. Coupled'
  BY <1>10, <1>11, <1>12, <1>13, <1>14, <1>15, <1>16, <1>17, <1>19 DEF Coupled
<1> QED
  BY <1>2, <1>3, <1>18 DEF Held
=============================================================================
