---------------------------- MODULE ScopeProofs ----------------------------
(***************************************************************************)
(* The theorems about the scopes: for any names and tags, any declarations *)
(* and any nesting, without a bound on their number.                       *)
(***************************************************************************)
EXTENDS Scopes, SequenceTheorems, WellFoundedInduction, TLAPS

---------------------------------------------------------------------------
(* The invariant.                                                            *)

\* The part of the type invariant that is about the tables of the parser.
TablesOK ==
  /\ scopes \in Seq(ScopeType)
  /\ idents \in Seq(IdentType)
  /\ types \in Seq([scope : DOMAIN scopes, complete : BOOLEAN])
  /\ EntriesOK

\* ScopesTypeOK and ScopeRestored are not inductive without these: a member
\* list is read in the scope of its type, a declarator is completed where its
\* parameter list ends, and only a function can stand where one is declared.
KindsOK ==
  /\ \A ty \in DOMAIN types : scopes[types[ty].scope].type = "block"
  /\ \A i \in DOMAIN idents :
       /\ idents[i].linkage # "none" => idents[i].kind \in {"func", "object"}
       /\ idents[i].kind = "func" => idents[i].ty.k = "func"
OpenOK ==
  \A k \in DOMAIN open :
    /\ open[k].what = "proto" => open[k].decl \in Decls
    /\ open[k].what = "struct" => open[k].type \in DOMAIN types

\* What is being read, and what has been reported.
StackOK  == scope \in DOMAIN scopes /\ open \in Seq(OpenType) /\ ScopeRestored /\ OpenOK
Acts     == {"declare", "warn", "enter", "exit", "use", "tag", "member"}
ReportOK ==
  /\ verdict \in {"ok", "error", "crash"}
  /\ last \in [act : Acts, ident : 0 .. Len(idents)]
  /\ code \in Seq([what : {"declare", "define", "use"}, ident : DOMAIN idents])

SInv == TablesOK /\ KindsOK /\ StackOK /\ ReportOK

\* What no step takes away.
Kept ==
  /\ Len(scopes) <= Len(scopes') /\ Len(idents) <= Len(idents') /\ Len(types) <= Len(types')
  /\ \A s \in DOMAIN scopes :
       scopes'[s].type = scopes[s].type /\ scopes'[s].chain = scopes[s].chain

\* EntriesKept, of one step that may change the scopes in S.
KeptEntries(S) ==
  \A s \in DOMAIN scopes :
    /\ scopes'[s] # scopes[s] => s \in S
    /\ \A t \in Tags : scopes[s].tags[t] \in {0, scopes'[s].tags[t]}
    /\ \A n \in Names :
         LET old == scopes[s].usual[n]
             new == scopes'[s].usual[n]
         IN  \/ old \in {0, new}
             \/ idents[old].kind = "func" /\ idents'[new].kind = "func"

---------------------------------------------------------------------------
(* Sequences.                                                                *)

LEMMA Appended ==
  ASSUME NEW S, NEW q \in Seq(S), NEW e \in S, NEW a, a = Append(q, e)
  PROVE  /\ a \in Seq(S) /\ Len(a) = Len(q) + 1 /\ DOMAIN a = 1 .. Len(q) + 1
         /\ a[Len(q) + 1] = e
         /\ \A i \in DOMAIN q : i \in DOMAIN a /\ a[i] = q[i]
         /\ Len(q) \in Nat /\ DOMAIN q = 1 .. Len(q)
BY AppendProperties, LenProperties

LEMMA Replaced ==
  ASSUME NEW S, NEW q \in Seq(S), NEW i \in DOMAIN q, NEW e \in S,
         NEW a, a = [q EXCEPT ![i] = e]
  PROVE  /\ a \in Seq(S) /\ Len(a) = Len(q) /\ DOMAIN a = DOMAIN q
         /\ \A j \in DOMAIN q : a[j] = IF j = i THEN e ELSE q[j]
         /\ Len(q) \in Nat /\ DOMAIN q = 1 .. Len(q)
BY ExceptSeq, LenProperties

---------------------------------------------------------------------------
(* Looking up.                                                              *)

LEMMA FirstIn ==
  ASSUME NEW at \in SUBSET Nat, at # {}
  PROVE  First(at) \in at /\ \A j \in at : First(at) <= j
<1> DEFINE R == {p \in Nat \X Nat : p[1] < p[2]}
<1>1. IsWellFoundedOn(R, Nat)
  BY NatLessThanWellFounded DEF OpToRel
<1>2. PICK i \in at : \A j \in at : ~ (<<j, i>> \in R)
  BY <1>1, WFMin
<1>3. ASSUME NEW j \in at PROVE i <= j
  <2>1. <<j, i>>[1] = j /\ <<j, i>>[2] = i /\ <<j, i>> \in Nat \X Nat
    OBVIOUS
  <2>2. ~ (<<j, i>>[1] < <<j, i>>[2])
    BY <1>2, <2>1
  <2> QED
    BY <2>1, <2>2
<1> QED
  BY <1>3 DEF First

LEMMA Domains ==
  ASSUME TablesOK
  PROVE  /\ DOMAIN scopes = 1 .. Len(scopes) /\ Len(scopes) \in Nat
         /\ DOMAIN idents = 1 .. Len(idents) /\ Len(idents) \in Nat
         /\ DOMAIN types = 1 .. Len(types) /\ Len(types) \in Nat
         /\ \A s \in DOMAIN scopes : scopes[s] \in ScopeType
         /\ \A i \in DOMAIN idents : idents[i] \in IdentType
         /\ \A y \in DOMAIN types : types[y] \in [scope : DOMAIN scopes, complete : BOOLEAN]
<1>1. DOMAIN scopes = 1 .. Len(scopes) /\ Len(scopes) \in Nat /\ \A s \in DOMAIN scopes : scopes[s] \in ScopeType
  BY DEF TablesOK
<1>2. DOMAIN idents = 1 .. Len(idents) /\ Len(idents) \in Nat /\ \A i \in DOMAIN idents : idents[i] \in IdentType
  BY DEF TablesOK
<1> DEFINE T == [scope : DOMAIN scopes, complete : BOOLEAN]
<1>3. DOMAIN types = 1 .. Len(types) /\ Len(types) \in Nat /\ \A y \in DOMAIN types : types[y] \in T
  <2> SUFFICES ASSUME types \in Seq(T)
               PROVE  DOMAIN types = 1 .. Len(types) /\ Len(types) \in Nat /\ \A y \in DOMAIN types : types[y] \in T
    BY DEF TablesOK
  <2> HIDE DEF T
  <2> QED
    OBVIOUS
<1> QED
  BY <1>1, <1>2, <1>3

LEMMA ScopeKnown ==
  ASSUME TablesOK, NEW s \in DOMAIN scopes
  PROVE  LET c == scopes[s].chain
         IN  /\ c \in Seq(Nat) /\ Len(c) \in Nat /\ DOMAIN c = 1 .. Len(c) /\ 1 \in DOMAIN c
             /\ c # <<>> /\ c[1] = s /\ \A p \in DOMAIN c : c[p] \in DOMAIN scopes
<1> DEFINE c == scopes[s].chain
<1>1. scopes[s] \in ScopeType
  BY Domains
<1>2. c \in Seq(Nat)
  BY <1>1 DEF ScopeType
<1>3. EntriesOf(s)
  BY DEF TablesOK, EntriesOK
<1>4. c # <<>> /\ c[1] = s /\ \A p \in DOMAIN c : c[p] \in DOMAIN scopes
  BY <1>3 DEF EntriesOf
<1> HIDE DEF c
<1>5. Len(c) \in Nat /\ DOMAIN c = 1 .. Len(c) /\ 1 \in DOMAIN c
  BY <1>2, <1>4
<1> QED
  BY <1>2, <1>4, <1>5 DEF c

LEMMA LookUp ==
  ASSUME TablesOK, NEW s \in DOMAIN scopes
  PROVE  /\ \A n \in Names : FindUsual(s, n) \in 0 .. Len(idents)
         /\ \A n \in Names : scopes[s].usual[n] \in 0 .. Len(idents)
         /\ \A t \in Tags : FindTag(s, t) # 0 =>
              \E r \in DOMAIN scopes : FindTag(s, t) = scopes[r].tags[t]
         /\ \A t \in Tags : FindTag(s, t) = 0 => scopes[s].tags[t] = 0
<1> DEFINE chain == scopes[s].chain
<1>1. /\ chain \in Seq(Nat) /\ 1 \in DOMAIN chain /\ chain[1] = s
      /\ DOMAIN chain \subseteq Nat
      /\ \A i \in DOMAIN chain : chain[i] \in DOMAIN scopes
  BY ScopeKnown
<1>2. \A r \in DOMAIN scopes, n \in Names : scopes[r].usual[n] \in 0 .. Len(idents)
  BY DEF TablesOK, EntriesOK, EntriesOf
<1> HIDE DEF chain
<1>3. ASSUME NEW n \in Names PROVE FindUsual(s, n) \in 0 .. Len(idents)
  <2> DEFINE at == {i \in DOMAIN chain : scopes[chain[i]].usual[n] # 0}
  <2>1. at # {} => First(at) \in at
    BY <1>1, FirstIn
  <2>2. FindUsual(s, n) = IF at = {} THEN 0 ELSE scopes[chain[First(at)]].usual[n]
    BY DEF FindUsual, chain
  <2>3. at \subseteq DOMAIN chain
    OBVIOUS
  <2> HIDE DEF at
  <2>4. CASE at = {}
    BY <2>2, <2>4, Domains
  <2>5. CASE at # {}
    BY <1>1, <1>2, <2>1, <2>2, <2>3, <2>5
  <2> QED
    BY <2>4, <2>5
<1>4. ASSUME NEW t \in Tags
      PROVE  /\ FindTag(s, t) # 0 => \E r \in DOMAIN scopes : FindTag(s, t) = scopes[r].tags[t]
             /\ FindTag(s, t) = 0 => scopes[s].tags[t] = 0
  <2> DEFINE at == {i \in DOMAIN chain : scopes[chain[i]].tags[t] # 0}
  <2>1. at # {} => First(at) \in at
    BY <1>1, FirstIn
  <2>2. FindTag(s, t) = IF at = {} THEN 0 ELSE scopes[chain[First(at)]].tags[t]
    BY DEF FindTag, chain
  <2>3. at = {} => scopes[s].tags[t] = 0
    BY <1>1
  <2>4. at \subseteq DOMAIN chain /\ \A i \in at : scopes[chain[i]].tags[t] # 0
    OBVIOUS
  <2> HIDE DEF at
  <2>5. CASE at = {}
    BY <2>2, <2>3, <2>5
  <2>6. CASE at # {}
    BY <1>1, <2>1, <2>2, <2>4, <2>6
  <2> QED
    BY <2>5, <2>6
<1> QED
  BY <1>2, <1>3, <1>4

\* What is entered under a name is an identifier there is.
LEMMA EntryIdent ==
  ASSUME TablesOK, NEW s \in DOMAIN scopes, NEW n \in Names, scopes[s].usual[n] # 0
  PROVE  scopes[s].usual[n] \in DOMAIN idents
<1>1. scopes[s].usual[n] \in 0 .. Len(idents) /\ DOMAIN idents = 1 .. Len(idents)
  BY Domains DEF TablesOK, EntriesOK, EntriesOf
<1> QED
  BY <1>1

---------------------------------------------------------------------------
(* Declarations.                                                             *)

LEMMA InitialisedType ==
  ASSUME NEW id \in IdentType, NEW d, NEW s
  PROVE  /\ Initialised(id, d, s) \in IdentType
         /\ Initialised(id, d, s).kind = id.kind
         /\ Initialised(id, d, s).linkage = id.linkage
         /\ Initialised(id, d, s).ty.k = id.ty.k
<1> DEFINE const == id.const \/ StaticInit(d, s)
           ty == IF IsComplete(id.ty) THEN id.ty ELSE [id.ty EXCEPT !.n = InitLength]
<1>1. const \in BOOLEAN
  BY DEF IdentType
<1>2. ty \in Types /\ ty.k = id.ty.k
  <2>1. id.ty \in Types
    BY DEF IdentType
  <2>2. CASE IsComplete(id.ty)
    BY <2>1, <2>2
  <2>3. CASE ~IsComplete(id.ty)
    <3>1. id.ty \in [k : {"array", "struct"}, n : Nat]
      BY <2>1, <2>3 DEF IsComplete, Types
    <3>2. ty = [id.ty EXCEPT !.n = InitLength]
      BY <2>3
    <3>3. ty \in [k : {"array", "struct"}, n : Nat] /\ ty.k = id.ty.k
      BY <3>1, <3>2, DeclaratorsAssumption
    <3> QED
      BY <3>3 DEF Types
  <2> QED
    BY <2>2, <2>3
<1>3. Initialised(id, d, s) = IF ~d.init THEN id ELSE [id EXCEPT !.const = const, !.ty = ty]
  BY DEF Initialised
<1> HIDE DEF const, ty
<1> QED
  BY <1>1, <1>2, <1>3 DEF IdentType

LEMMA MergedType ==
  ASSUME NEW d \in Decls, NEW s, NEW i, idents[i] \in IdentType
  PROVE  /\ Merged(i, d, s) \in IdentType
         /\ Merged(i, d, s).kind = idents[i].kind
         /\ Merged(i, d, s).linkage = idents[i].linkage
<1> DEFINE id == idents[i]
           storage == IF i = FindUsualInCurrScope(s, d.name)
                         /\ d.storage # "extern" /\ id.storage = "extern" THEN "" ELSE id.storage
           ty == IF IsComplete(id.ty) THEN id.ty ELSE d.ty
<1>1. storage \in Storages /\ ty \in Types
  BY DEF IdentType, Decls, Storages
<1>2. Merged(i, d, s) = [id EXCEPT !.storage = storage, !.ty = ty]
  BY DEF Merged
<1> HIDE DEF storage, ty, id
<1>3. id \in IdentType
  BY DEF id
<1>4. [id EXCEPT !.storage = storage, !.ty = ty] \in IdentType
  BY <1>1, <1>3 DEF IdentType
<1> QED
  BY <1>2, <1>3, <1>4 DEF IdentType, id

\* An identifier replaced by one of its kind and linkage.
LEMMA ReplaceIdent ==
  ASSUME TablesOK, KindsOK, UNCHANGED <<scopes, types>>,
         NEW i \in DOMAIN idents, NEW id \in IdentType,
         id.kind = idents[i].kind, id.kind = "object",
         idents' = [idents EXCEPT ![i] = id]
  PROVE  TablesOK' /\ KindsOK' /\ Kept
<1>1. /\ idents' \in Seq(IdentType) /\ DOMAIN idents' = DOMAIN idents /\ Len(idents') = Len(idents)
      /\ \A j \in DOMAIN idents : idents'[j] = IF j = i THEN id ELSE idents[j]
  <2> HIDE DEF IdentType
  <2> QED
    BY ExceptSeq, Domains DEF TablesOK
<1>2. TablesOK'
  <2>1. IdentType' = IdentType
    BY DEF IdentType
  <2>2. EntriesOK'
    <3>1. ASSUME NEW s \in DOMAIN scopes, NEW t \in Tags, scopes[s].tags[t] # 0
          PROVE  LET j == scopes[s].tags[t]
                 IN  /\ j \in DOMAIN idents' /\ idents'[j].kind = "tag"
                     /\ idents'[j].ty.k = "struct" => idents'[j].ty.n \in DOMAIN types'
      <4> DEFINE j == scopes[s].tags[t]
      <4>1. /\ j \in DOMAIN idents /\ idents[j].kind = "tag"
            /\ idents[j].ty.k = "struct" => idents[j].ty.n \in DOMAIN types
        BY <3>1 DEF TablesOK, EntriesOK, EntriesOf
      <4> HIDE DEF j
      <4>2. j # i
        BY <4>1
      <4> QED
        BY <1>1, <4>1, <4>2 DEF j
    <3> QED
      BY <1>1, <3>1 DEF TablesOK, EntriesOK, EntriesOf
  <2> QED
    BY <1>1, <2>1, <2>2 DEF TablesOK
<1>3. KindsOK'
  BY <1>1 DEF KindsOK
<1> QED
  BY <1>1, <1>2, <1>3, Domains DEF Kept

\* New identifiers of any kind, and scopes that know more names.
LEMMA GrowIdents ==
  ASSUME TablesOK, KindsOK, UNCHANGED types,
         NEW new \in Seq(IdentType), idents' = idents \o new,
         scopes' \in Seq(ScopeType), Len(scopes') = Len(scopes), EntriesOK',
         \A i \in DOMAIN new :
           /\ new[i].linkage # "none" => new[i].kind \in {"func", "object"}
           /\ new[i].kind = "func" => new[i].ty.k = "func",
         \A s \in DOMAIN scopes :
           scopes'[s].type = scopes[s].type /\ scopes'[s].chain = scopes[s].chain
  PROVE  TablesOK' /\ KindsOK' /\ Kept
<1>1. DOMAIN scopes' = DOMAIN scopes
  BY Domains DEF TablesOK
<1>2. IdentType' = IdentType
  BY <1>1 DEF IdentType
<1>3. /\ idents' \in Seq(IdentType) /\ Len(idents') = Len(idents) + Len(new)
      /\ \A i \in DOMAIN idents' : \/ i \in DOMAIN idents /\ idents'[i] = idents[i]
                                  \/ \E j \in DOMAIN new : idents'[i] = new[j]
  <2> HIDE DEF IdentType
  <2>1. idents \in Seq(IdentType) /\ Len(new) \in Nat /\ DOMAIN new = 1 .. Len(new)
    BY DEF TablesOK
  <2> QED
    BY <2>1, ConcatProperties, Domains
<1>4. TablesOK'
  BY <1>1, <1>2, <1>3 DEF TablesOK
<1>5. KindsOK'
  <2>1. ASSUME NEW i \in DOMAIN idents'
        PROVE  /\ idents'[i].linkage # "none" => idents'[i].kind \in {"func", "object"}
               /\ idents'[i].kind = "func" => idents'[i].ty.k = "func"
    BY <1>3 DEF KindsOK
  <2>2. ASSUME NEW y \in DOMAIN types' PROVE scopes'[types'[y].scope].type = "block"
    <3>1. types[y].scope \in DOMAIN scopes
      BY Domains
    <3> QED
      BY <3>1 DEF KindsOK
  <2> QED
    BY <2>1, <2>2 DEF KindsOK
<1> QED
  BY <1>3, <1>4, <1>5, Domains DEF Kept

LEMMA DeclarationTables ==
  ASSUME TablesOK, KindsOK, UNCHANGED types, NEW d \in Decls,
         NEW s \in DOMAIN scopes, NEW params \in 0 .. Len(scopes),
         ~Refused(d, s), MakeDeclaration(d, s, params)
  PROVE  /\ TablesOK' /\ KindsOK' /\ Kept /\ KeptEntries({s})
         /\ Len(scopes') = Len(scopes)
<1> DEFINE n == d.name
           here == scopes[s].usual[n]
<1>1. n \in Names /\ here \in 0 .. Len(idents) /\ FindUsual(s, n) \in 0 .. Len(idents)
  BY LookUp DEF Decls
<1>2. CASE RedeclareTypedef(d, s)
  BY <1>2, Domains DEF RedeclareTypedef, TablesOK, EntriesOK, EntriesOf, IdentType, KindsOK, Kept, KeptEntries
<1>3. CASE Redeclare(d, s) /\ Redeclared(d, s) # 0
  <2> DEFINE i == Redeclared(d, s)
             id == Initialised(Merged(i, d, s), d, s)
  <2>1. i \in DOMAIN idents /\ idents[i].kind = "object"
    BY <1>1, <1>3, Domains DEF Redeclared, IsObject, FindUsualInCurrScope, Outer
  <2>2. id \in IdentType /\ id.kind = "object"
    BY <2>1, MergedType, InitialisedType, Domains
  <2>3. idents' = [idents EXCEPT ![i] = id] /\ UNCHANGED scopes
    BY <1>3 DEF Redeclare
  <2> HIDE DEF i, id
  <2>4. TablesOK' /\ KindsOK' /\ Kept
    BY <2>1, <2>2, <2>3, ReplaceIdent
  <2> QED
    BY <2>3, <2>4 DEF KeptEntries
<1>4. CASE /\ DeclareNew(d, s, params)
           /\ d.storage = "typedef" => here = 0
           /\ d.storage # "typedef" => Redeclared(d, s) = 0
  <2> DEFINE linkage == IF d.storage = "typedef" THEN "none" ELSE DeclaredLinkage(d, s)
             plain == [Ident(Kind(d), n, d.ty, linkage, d.storage, s) EXCEPT !.params = params]
             id == Initialised(plain, d, s)
             r == [scopes[s] EXCEPT !.usual[n] = NewIdent]
  <2>1. /\ plain \in IdentType /\ plain.kind = Kind(d) /\ plain.linkage = linkage
        /\ plain.ty.k = d.ty.k
    BY <1>1 DEF Ident, IdentType, IdentKinds, Kind, Decls, DeclaredLinkage, Linkages
  <2> HIDE DEF plain, linkage
  <2>2. /\ id \in IdentType /\ id.kind = Kind(d) /\ id.linkage = linkage /\ id.ty.k = d.ty.k
    BY <2>1, InitialisedType
  <2>3. /\ id.linkage # "none" => id.kind \in {"func", "object"}
        /\ id.kind = "func" => id.ty.k = "func"
    BY <2>2 DEF Kind, linkage
  <2>4. idents' = Append(idents, id) /\ scopes' = [scopes EXCEPT ![s] = r]
    BY <1>4 DEF DeclareNew, InsertUsual, plain, linkage
  <2>5. NewIdent \in Nat
    BY Domains DEF NewIdent
  <2>6. /\ r \in ScopeType /\ r.type = scopes[s].type /\ r.chain = scopes[s].chain
        /\ r.tags = scopes[s].tags
        /\ \A m \in Names : r.usual[m] = IF m = n THEN NewIdent ELSE scopes[s].usual[m]
    BY <1>1, <2>5, Domains DEF ScopeType
  <2> HIDE DEF id, r
  <2>7. /\ scopes' \in Seq(ScopeType) /\ Len(scopes') = Len(scopes)
        /\ DOMAIN scopes' = DOMAIN scopes
        /\ \A q \in DOMAIN scopes : scopes'[q] = IF q = s THEN r ELSE scopes[q]
    BY <2>4, <2>6, ExceptSeq, Domains DEF TablesOK
  <2>8. /\ idents' = idents \o <<id>> /\ <<id>> \in Seq(IdentType)
        /\ Len(idents') = NewIdent
        /\ \A i \in DOMAIN idents : idents'[i] = idents[i]
        /\ idents'[NewIdent] = id
    <3> HIDE DEF IdentType
    <3> QED
      BY <2>2, <2>4, AppendProperties, AppendIsConcat, Domains DEF TablesOK, NewIdent
  <2>9. EntriesOK'
    <3> SUFFICES ASSUME NEW q \in DOMAIN scopes PROVE EntriesOf(q)'
      BY <2>7 DEF EntriesOK
    <3>1. EntriesOf(q) /\ DOMAIN idents \subseteq DOMAIN idents'
      BY <2>8, Domains DEF TablesOK, EntriesOK, NewIdent
    <3>2. \A m \in Names : scopes'[q].usual[m] \in 0 .. Len(idents')
      <4> SUFFICES ASSUME NEW m \in Names PROVE scopes'[q].usual[m] \in 0 .. Len(idents')
        OBVIOUS
      <4>1. scopes'[q].usual[m] \in {NewIdent, scopes[q].usual[m]}
        BY <2>6, <2>7
      <4>2. /\ scopes[q].usual[m] \in 0 .. Len(idents) /\ Len(idents) \in Nat
            /\ Len(idents') = Len(idents) + 1
        BY <2>8, <3>1, Domains DEF EntriesOf, NewIdent
      <4> QED
        BY <4>1, <4>2 DEF NewIdent
    <3>3. /\ scopes'[q].chain = scopes[q].chain
          /\ \A t \in Tags : scopes'[q].tags[t] = scopes[q].tags[t]
      BY <2>6, <2>7
    <3>4. ASSUME NEW t \in Tags, scopes'[q].tags[t] # 0
          PROVE  LET i == scopes'[q].tags[t]
                 IN  /\ i \in DOMAIN idents' /\ idents'[i].kind = "tag"
                     /\ idents'[i].ty.k = "struct" => idents'[i].ty.n \in DOMAIN types'
      <4> DEFINE i == scopes[q].tags[t]
      <4>1. /\ i \in DOMAIN idents /\ idents[i].kind = "tag"
            /\ idents[i].ty.k = "struct" => idents[i].ty.n \in DOMAIN types
        BY <3>1, <3>3, <3>4 DEF EntriesOf
      <4>2. scopes'[q].tags[t] = i
        BY <3>3
      <4> HIDE DEF i
      <4> QED
        BY <2>8, <3>1, <4>1, <4>2
    <3> QED
      BY <2>7, <3>1, <3>2, <3>3, <3>4 DEF EntriesOf
  <2>10. TablesOK' /\ KindsOK' /\ Kept
    <3> DEFINE new == <<id>>
    <3>1. \A i \in DOMAIN new :
            /\ new[i].linkage # "none" => new[i].kind \in {"func", "object"}
            /\ new[i].kind = "func" => new[i].ty.k = "func"
      BY <2>3
    <3>2. new \in Seq(IdentType) /\ idents' = idents \o new
      BY <2>8
    <3>3. \A q \in DOMAIN scopes :
            scopes'[q].type = scopes[q].type /\ scopes'[q].chain = scopes[q].chain
      BY <2>6, <2>7
    <3> HIDE DEF new, ScopeType, IdentType
    <3> QED
      BY <2>7, <2>9, <3>1, <3>2, <3>3, GrowIdents
  <2>11. here # 0 => idents[here].kind = "func" /\ id.kind = "func"
    <3> SUFFICES ASSUME here # 0 PROVE idents[here].kind = "func" /\ id.kind = "func"
      OBVIOUS
    <3>1. /\ d.storage # "typedef" /\ ~IsObject(here) /\ here \in DOMAIN idents
          /\ ~Mismatch(d, here) /\ ~LinkageConflict(d, s)
      BY <1>1, <1>4, Domains DEF Redeclared, Refused, FindUsualInCurrScope
    <3>2. idents[here].linkage # "none"
      BY <3>1 DEF LinkageConflict, FindUsualInCurrScope, DeclaredLinkage
    <3>3. idents[here].kind = "func" /\ idents[here].ty.k = "func"
      BY <3>1, <3>2 DEF KindsOK, IsObject
    <3>4. d.ty.k = "func"
      BY <3>1, <3>3 DEF Mismatch, Compatible
    <3>5. Kind(d) = "func"
      BY <3>1, <3>4 DEF Kind
    <3> QED
      BY <2>2, <3>3, <3>5
  <2>12. KeptEntries({s})
    <3>1. /\ \A q \in DOMAIN scopes : scopes'[q] # scopes[q] => q = s
          /\ \A q \in DOMAIN scopes, t \in Tags : scopes'[q].tags[t] = scopes[q].tags[t]
      BY <2>6, <2>7
    <3>2. ASSUME NEW q \in DOMAIN scopes, NEW m \in Names,
                 scopes'[q].usual[m] # scopes[q].usual[m], scopes[q].usual[m] # 0
          PROVE  /\ idents[scopes[q].usual[m]].kind = "func"
                 /\ idents'[scopes'[q].usual[m]].kind = "func"
      <4>1. q = s /\ m = n
        BY <2>6, <2>7, <3>2
      <4> QED
        BY <2>6, <2>7, <2>8, <2>11, <3>2, <4>1
    <3> QED
      BY <3>1, <3>2 DEF KeptEntries
  <2> QED
    BY <2>7, <2>10, <2>12
<1> QED
  BY <1>2, <1>3, <1>4 DEF MakeDeclaration, FindUsualInCurrScope

---------------------------------------------------------------------------
(* New scopes.                                                               *)

LEMMA MadeScope ==
  ASSUME TablesOK, NEW s \in DOMAIN scopes, NEW type \in ScopeTypes
  PROVE  LET r == NewScope(type, scopes[s].chain)
         IN  /\ r \in ScopeType /\ r.type = type
             /\ r.chain # <<>> /\ r.chain[1] = Len(scopes) + 1 /\ r.chain[2] = s
             /\ \A i \in DOMAIN r.chain : r.chain[i] \in 1 .. Len(scopes) + 1
             /\ \A n \in Names : r.usual[n] = 0
             /\ \A t \in Tags : r.tags[t] = 0
<1> DEFINE c == scopes[s].chain
           k == <<Len(scopes) + 1>> \o c
           r == NewScope(type, c)
<1>1. /\ c \in Seq(Nat) /\ c # <<>> /\ c[1] = s /\ Len(c) \in Nat
      /\ \A i \in 1 .. Len(c) : c[i] \in 1 .. Len(scopes)
  BY Domains, ScopeKnown
<1> HIDE DEF c
<1>2. /\ r.type = type /\ r.chain = <<Len(scopes) + 1>> \o c
      /\ r.usual = [n \in Names |-> 0] /\ r.tags = [t \in Tags |-> 0]
  BY DEF NewScope
<1>3. /\ k \in Seq(Nat) /\ Len(k) = Len(c) + 1 /\ DOMAIN k = 1 .. Len(c) + 1
      /\ \A i \in 1 .. Len(c) + 1 : k[i] = IF i = 1 THEN Len(scopes) + 1 ELSE c[i - 1]
  BY <1>1, Domains
<1> HIDE DEF k
<1>4. r \in ScopeType /\ r.chain = k
  BY <1>3 DEF ScopeType, NewScope, k
<1> HIDE DEF r
<1>5. Len(c) >= 1
  BY <1>1
<1>6. ASSUME NEW i \in DOMAIN k PROVE k[i] \in 1 .. Len(scopes) + 1
  <2>1. CASE i = 1
    BY <1>3, <2>1, Domains
  <2>2. CASE i # 1
    <3>1. k[i] = c[i - 1] /\ i - 1 \in 1 .. Len(c)
      BY <1>1, <1>3, <2>2
    <3>2. c[i - 1] \in 1 .. Len(scopes)
      BY <1>1, <3>1
    <3> QED
      BY <3>1, <3>2, Domains
  <2> QED
    BY <2>1, <2>2
<1>7. k[1] = Len(scopes) + 1 /\ k[2] = s /\ k # <<>>
  <2>1. 1 \in 1 .. Len(c) + 1 /\ 2 \in 1 .. Len(c) + 1 /\ 2 # 1 /\ 2 - 1 = 1
    BY <1>1, <1>5
  <2> QED
    BY <1>1, <1>3, <2>1
<1>8. /\ r.chain # <<>> /\ r.chain[1] = Len(scopes) + 1 /\ r.chain[2] = s
      /\ \A i \in DOMAIN r.chain : r.chain[i] \in 1 .. Len(scopes) + 1
  BY <1>4, <1>6, <1>7
<1>9. (\A n \in Names : r.usual[n] = 0) /\ (\A t \in Tags : r.tags[t] = 0)
  BY <1>2
<1> QED
  BY <1>2, <1>4, <1>8, <1>9 DEF r, c

\* One more scope, whose names are known already.
LEMMA GrowScopes ==
  ASSUME TablesOK, KindsOK, UNCHANGED <<idents, types>>,
         NEW r \in ScopeType, scopes' = Append(scopes, r),
         r.chain # <<>> /\ r.chain[1] = Len(scopes) + 1,
         \A i \in DOMAIN r.chain : r.chain[i] \in 1 .. Len(scopes) + 1,
         \A n \in Names : r.usual[n] \in 0 .. Len(idents),
         \A t \in Tags : r.tags[t] = 0
  PROVE  /\ TablesOK' /\ KindsOK' /\ Kept /\ KeptEntries({})
         /\ Len(scopes') = Len(scopes) + 1 /\ scopes'[Len(scopes) + 1] = r
         /\ \A q \in DOMAIN scopes : scopes'[q] = scopes[q]
<1>1. /\ scopes' \in Seq(ScopeType) /\ Len(scopes') = Len(scopes) + 1
      /\ scopes'[Len(scopes) + 1] = r
      /\ \A q \in DOMAIN scopes : scopes'[q] = scopes[q]
      /\ DOMAIN scopes' = 1 .. Len(scopes) + 1
  BY AppendProperties, Domains DEF TablesOK
<1>2. idents' \in Seq(IdentType')
  <2>1. IdentType \subseteq IdentType'
    BY <1>1, Domains DEF IdentType
  <2> HIDE DEF IdentType
  <2> QED
    BY <2>1, SeqMonotonic DEF TablesOK
<1>3. types' \in Seq([scope : DOMAIN scopes', complete : BOOLEAN])
  <2> DEFINE S == [scope : DOMAIN scopes, complete : BOOLEAN]
             T == [scope : DOMAIN scopes', complete : BOOLEAN]
  <2>1. S \subseteq T /\ types \in Seq(S)
    BY <1>1, Domains DEF TablesOK
  <2> HIDE DEF S, T
  <2>2. types \in Seq(T)
    BY <2>1, SeqMonotonic
  <2> QED
    BY <2>2 DEF T
<1>4. EntriesOK'
  <2> SUFFICES ASSUME NEW q \in DOMAIN scopes' PROVE EntriesOf(q)'
    BY DEF EntriesOK
  <2>1. CASE q \in DOMAIN scopes
    BY <1>1, <2>1, Domains DEF TablesOK, EntriesOK, EntriesOf
  <2>2. CASE q = Len(scopes) + 1
    BY <1>1, <2>2 DEF EntriesOf
  <2> QED
    BY <1>1, <2>1, <2>2, Domains
<1>5. KindsOK'
  BY <1>1, Domains DEF KindsOK
<1> QED
  BY <1>1, <1>2, <1>3, <1>4, <1>5, Domains DEF TablesOK, Kept, KeptEntries

---------------------------------------------------------------------------
(* Tags and members.                                                         *)

LEMMA MakeStructTables ==
  ASSUME TablesOK, KindsOK, scope \in DOMAIN scopes, NEW t \in Tags \cup {NoTag},
         t # NoTag => scopes[scope].tags[t] = 0, MakeStruct(t)
  PROVE  /\ TablesOK' /\ KindsOK' /\ Kept /\ KeptEntries({scope})
         /\ Len(scopes') = Len(scopes) + 1
         /\ scopes'[Len(scopes) + 1].type = "block" /\ scopes'[Len(scopes) + 1].chain[2] = scope
         /\ NewType \in DOMAIN types'
         /\ t # NoTag => NewIdent \in DOMAIN idents'
<1> DEFINE r == NewScope("block", scopes[scope].chain)
           mid == InsertTag(scope, t, NewIdent)
           ty == [scope |-> Len(scopes) + 1, complete |-> FALSE]
           id == Ident("tag", t, StructType, "none", "", scope)
<1>1. /\ types' = Append(types, ty) /\ scopes' = Append(mid, r)
      /\ idents' = IF t = NoTag THEN idents ELSE Append(idents, id)
  BY DEF MakeStruct
<1> HIDE DEF r, mid, ty, id
<1>2. /\ mid \in Seq(ScopeType) /\ Len(mid) = Len(scopes) /\ DOMAIN mid = DOMAIN scopes
      /\ \A q \in DOMAIN scopes :
           /\ mid[q].type = scopes[q].type /\ mid[q].chain = scopes[q].chain
           /\ mid[q].usual = scopes[q].usual
           /\ \A u \in Tags : mid[q].tags[u] =
                IF q = scope /\ u = t THEN NewIdent ELSE scopes[q].tags[u]
           /\ q # scope => mid[q] = scopes[q]
  <2>1. CASE t = NoTag
    BY <2>1, Domains, DeclaratorsAssumption DEF mid, InsertTag, TablesOK
  <2>2. CASE t # NoTag
    <3> DEFINE e == [scopes[scope] EXCEPT !.tags[t] = NewIdent]
    <3>1. /\ e \in ScopeType /\ e.type = scopes[scope].type /\ e.chain = scopes[scope].chain
          /\ e.usual = scopes[scope].usual
          /\ \A u \in Tags : e.tags[u] = IF u = t THEN NewIdent ELSE scopes[scope].tags[u]
      <4>1. t \in Tags /\ scopes[scope] \in ScopeType /\ NewIdent \in Nat
        BY <2>2, Domains DEF NewIdent
      <4> QED
        BY <4>1 DEF ScopeType
    <3>2. mid = [scopes EXCEPT ![scope] = e]
      BY <2>2 DEF mid, InsertTag
    <3> HIDE DEF e, ScopeType
    <3>3. /\ mid \in Seq(ScopeType) /\ Len(mid) = Len(scopes) /\ DOMAIN mid = DOMAIN scopes
          /\ \A q \in DOMAIN scopes : mid[q] = IF q = scope THEN e ELSE scopes[q]
      BY <3>1, <3>2, Replaced DEF TablesOK
    <3> QED
      BY <3>1, <3>3
  <2> QED
    BY <2>1, <2>2
<1>3. /\ r \in ScopeType /\ r.type = "block" /\ r.chain # <<>> /\ r.chain[1] = Len(scopes) + 1
      /\ r.chain[2] = scope
      /\ \A i \in DOMAIN r.chain : r.chain[i] \in 1 .. Len(scopes) + 1
      /\ \A n \in Names : r.usual[n] = 0
      /\ \A u \in Tags : r.tags[u] = 0
  BY MadeScope DEF ScopeTypes, r
<1>4. /\ scopes' \in Seq(ScopeType) /\ Len(scopes') = Len(scopes) + 1
      /\ DOMAIN scopes' = 1 .. Len(scopes) + 1
      /\ scopes'[Len(scopes) + 1] = r
      /\ \A q \in DOMAIN scopes : q \in DOMAIN scopes' /\ scopes'[q] = mid[q]
  <2> HIDE DEF ScopeType
  <2> QED
    BY <1>1, <1>2, <1>3, Appended
<1>5. /\ types' \in Seq([scope : DOMAIN scopes', complete : BOOLEAN])
      /\ Len(types') = NewType /\ types'[NewType] = ty
      /\ \A y \in DOMAIN types : y \in DOMAIN types' /\ types'[y] = types[y]
      /\ DOMAIN types' = 1 .. NewType /\ ty.scope = Len(scopes) + 1
  <2> DEFINE S == [scope : DOMAIN scopes, complete : BOOLEAN]
             T == [scope : DOMAIN scopes', complete : BOOLEAN]
  <2>1. S \subseteq T /\ types \in Seq(S) /\ ty \in T /\ ty.scope = Len(scopes) + 1
    BY <1>4, Domains DEF TablesOK, ty
  <2> HIDE DEF S, T
  <2>2. types \in Seq(T)
    BY <2>1, SeqMonotonic
  <2> QED
    BY <1>1, <2>1, <2>2, Appended DEF T, NewType
<1>6. /\ idents' \in Seq(IdentType') /\ Len(idents') >= Len(idents)
      /\ \A i \in DOMAIN idents : i \in DOMAIN idents' /\ idents'[i] = idents[i]
      /\ \A i \in DOMAIN idents' \ DOMAIN idents :
           idents'[i].kind = "tag" /\ idents'[i].linkage = "none"
      /\ t # NoTag => /\ NewIdent \in DOMAIN idents' /\ idents'[NewIdent].kind = "tag"
                      /\ idents'[NewIdent].ty.n = NewType
  <2>1. IdentType \subseteq IdentType'
    BY <1>4, Domains DEF IdentType
  <2>2. idents \in Seq(IdentType')
    <3> HIDE DEF IdentType
    <3> QED
      BY <2>1, SeqMonotonic DEF TablesOK
  <2>3. CASE t = NoTag
    <3> HIDE DEF IdentType
    <3> QED
      BY <1>1, <2>2, <2>3, Domains
  <2>4. CASE t # NoTag
    <3>1. /\ id \in IdentType' /\ id.kind = "tag" /\ id.linkage = "none" /\ id.ty.n = NewType
      <4>1. scope \in DOMAIN scopes' /\ 0 \in 0 .. Len(scopes')
        BY <1>4, Domains
      <4>2. NewType \in Nat /\ StructType \in Types /\ StructType.n = NewType
        BY Domains DEF NewType, StructType, Types
      <4> HIDE DEF Types, StructType
      <4> QED
        BY <2>4, <4>1, <4>2 DEF id, Ident, IdentType, IdentKinds, Linkages, Storages
    <3> HIDE DEF IdentType
    <3>2. idents' = Append(idents, id)
      BY <1>1, <2>4
    <3>3. /\ idents' \in Seq(IdentType') /\ Len(idents') = Len(idents) + 1
          /\ DOMAIN idents' = 1 .. Len(idents) + 1 /\ idents'[Len(idents) + 1] = id
          /\ \A i \in DOMAIN idents : i \in DOMAIN idents' /\ idents'[i] = idents[i]
      BY <2>2, <3>1, <3>2, Appended
    <3> QED
      BY <3>1, <3>3, Domains DEF NewIdent
  <2> QED
    BY <2>3, <2>4
<1>7. EntriesOK'
  <2> SUFFICES ASSUME NEW q \in DOMAIN scopes' PROVE EntriesOf(q)'
    BY DEF EntriesOK
  <2>1. CASE q \in DOMAIN scopes
    <3>1. EntriesOf(q)
      BY <2>1 DEF TablesOK, EntriesOK
    <3>2. /\ scopes'[q].chain # <<>> /\ scopes'[q].chain[1] = q
          /\ \A i \in DOMAIN scopes'[q].chain : scopes'[q].chain[i] \in DOMAIN scopes'
          /\ \A n \in Names : scopes'[q].usual[n] \in 0 .. Len(idents')
      BY <1>2, <1>4, <1>6, <2>1, <3>1, Domains DEF EntriesOf
    <3>3. ASSUME NEW u \in Tags, scopes'[q].tags[u] # 0
          PROVE  LET i == scopes'[q].tags[u]
                 IN  /\ i \in DOMAIN idents' /\ idents'[i].kind = "tag"
                     /\ idents'[i].ty.k = "struct" => idents'[i].ty.n \in DOMAIN types'
      <4>1. CASE q = scope /\ u = t
        BY <1>2, <1>4, <1>5, <1>6, <2>1, <4>1, Domains, DeclaratorsAssumption DEF NewType
      <4>2. CASE ~(q = scope /\ u = t)
        <5>1. scopes'[q].tags[u] = scopes[q].tags[u]
          BY <1>2, <1>4, <2>1, <4>2
        <5> DEFINE i == scopes[q].tags[u]
        <5>2. /\ i \in DOMAIN idents /\ idents[i].kind = "tag"
              /\ idents[i].ty.k = "struct" => idents[i].ty.n \in DOMAIN types
          BY <3>1, <3>3, <5>1 DEF EntriesOf
        <5> HIDE DEF i
        <5>3. i \in DOMAIN idents' /\ idents'[i] = idents[i] /\ DOMAIN types \subseteq DOMAIN types'
          BY <1>5, <1>6, <5>2
        <5> QED
          BY <5>1, <5>2, <5>3 DEF i
      <4> QED
        BY <4>1, <4>2
    <3> QED
      BY <3>2, <3>3 DEF EntriesOf
  <2>2. CASE q = Len(scopes) + 1
    BY <1>3, <1>4, <1>6, <2>2, Domains DEF EntriesOf
  <2> QED
    BY <1>4, <2>1, <2>2, Domains
<1>8. KindsOK'
  <2>1. ASSUME NEW y \in DOMAIN types' PROVE scopes'[types'[y].scope].type = "block"
    <3>1. CASE y \in DOMAIN types
      <4>1. types[y].scope \in DOMAIN scopes /\ types'[y] = types[y]
        BY <1>5, <3>1, Domains
      <4>2. scopes[types[y].scope].type = "block"
        BY <3>1 DEF KindsOK
      <4> QED
        BY <1>2, <1>4, <4>1, <4>2
    <3>2. CASE y = NewType
      BY <1>3, <1>4, <1>5, <3>2
    <3> QED
      BY <1>5, <3>1, <3>2, Domains DEF NewType
  <2> QED
    BY <1>6, <2>1 DEF KindsOK
<1>9. Kept
  BY <1>2, <1>4, <1>5, <1>6, Domains DEF Kept, NewType
<1>10. KeptEntries({scope})
  <2>1. ASSUME NEW q \in DOMAIN scopes
        PROVE  /\ scopes'[q] # scopes[q] => q = scope
               /\ \A n \in Names : scopes'[q].usual[n] = scopes[q].usual[n]
               /\ \A u \in Tags : scopes[q].tags[u] \in {0, scopes'[q].tags[u]}
    BY <1>2, <1>4, DeclaratorsAssumption
  <2> QED
    BY <2>1 DEF KeptEntries
<1> QED
  BY <1>3, <1>4, <1>5, <1>6, <1>7, <1>8, <1>9, <1>10, Domains DEF TablesOK, NewType

\* The scope s, which had neither the name n nor the tag t, gets the identifiers
\* new, is e then, and has the i-th identifier for n and the first for t.
Entered(s, n, t, new, i, e) ==
  /\ s \in DOMAIN scopes /\ n \in Names /\ t \in Tags \cup {NoTag}
  /\ scopes[s].usual[n] = 0
  /\ t # NoTag => scopes[s].tags[t] = 0
  /\ new \in Seq(IdentType) /\ Len(new) >= 1 /\ idents' = idents \o new
  /\ i \in 1 .. Len(idents) + Len(new)
  /\ e \in ScopeType /\ scopes' = [scopes EXCEPT ![s] = e]
  /\ e.type = scopes[s].type /\ e.chain = scopes[s].chain
  /\ \A m \in Names : e.usual[m] = IF m = n THEN i ELSE scopes[s].usual[m]
  /\ \A u \in Tags : e.tags[u] = IF u = t THEN NewIdent ELSE scopes[s].tags[u]
  /\ t # NoTag => new[1].kind = "tag" /\ new[1].ty.k # "struct"
  /\ \A j \in DOMAIN new : new[j].linkage = "none" /\ new[j].kind # "func"

LEMMA NewNames ==
  ASSUME TablesOK, KindsOK, UNCHANGED types,
         NEW s, NEW n, NEW t, NEW new, NEW i, NEW e, Entered(s, n, t, new, i, e)
  PROVE  TablesOK' /\ KindsOK' /\ Kept /\ KeptEntries({s}) /\ Len(scopes') = Len(scopes)
         /\ Len(idents') = Len(idents) + Len(new)
<1> USE DEF Entered
<1>1. scopes \in Seq(ScopeType)
  BY DEF TablesOK
<1> HIDE DEF ScopeType
<1>5. /\ scopes' \in Seq(ScopeType) /\ Len(scopes') = Len(scopes) /\ DOMAIN scopes' = DOMAIN scopes
      /\ \A q \in DOMAIN scopes : scopes'[q] = IF q = s THEN e ELSE scopes[q]
  BY <1>1, Replaced
<1>6. /\ Len(idents') = Len(idents) + Len(new) /\ Len(new) \in Nat /\ 1 \in DOMAIN new
      /\ \A j \in DOMAIN idents : j \in DOMAIN idents' /\ idents'[j] = idents[j]
      /\ NewIdent \in DOMAIN idents' /\ idents'[NewIdent] = new[1]
      /\ i \in 0 .. Len(idents') /\ DOMAIN idents \subseteq DOMAIN idents'
      /\ Len(idents) <= Len(idents') /\ Len(idents) \in Nat /\ Len(idents') \in Nat
  <2> HIDE DEF IdentType
  <2>1. idents \in Seq(IdentType) /\ Len(new) \in Nat /\ DOMAIN new = 1 .. Len(new) /\ Len(new) >= 1
    BY DEF TablesOK
  <2>2. /\ Len(idents') = Len(idents) + Len(new) /\ DOMAIN idents' = 1 .. Len(idents) + Len(new)
        /\ \A j \in 1 .. Len(idents) + Len(new) :
             idents'[j] = IF j <= Len(idents) THEN idents[j] ELSE new[j - Len(idents)]
    BY <2>1, ConcatProperties, Domains
  <2>3. (Len(idents) + 1) - Len(idents) = 1 /\ Len(idents) + 1 \in 1 .. Len(idents) + Len(new)
    BY <2>1, Domains
  <2> QED
    BY <2>1, <2>2, <2>3, Domains DEF NewIdent
<1>7. EntriesOK'
  <2> SUFFICES ASSUME NEW q \in DOMAIN scopes PROVE EntriesOf(q)'
    BY <1>5 DEF EntriesOK
  <2>1. EntriesOf(q)
    BY DEF TablesOK, EntriesOK
  <2>2. /\ scopes'[q].chain # <<>> /\ scopes'[q].chain[1] = q
        /\ \A j \in DOMAIN scopes'[q].chain : scopes'[q].chain[j] \in DOMAIN scopes'
    BY <1>5, <2>1 DEF EntriesOf
  <2>3. ASSUME NEW m \in Names PROVE scopes'[q].usual[m] \in 0 .. Len(idents')
    <3>1. scopes[q].usual[m] \in 0 .. Len(idents)
      BY <2>1 DEF EntriesOf
    <3>2. scopes[q].usual[m] \in 0 .. Len(idents')
      BY <1>6, <3>1
    <3> QED
      BY <1>5, <1>6, <3>2
  <2>4. ASSUME NEW u \in Tags, scopes'[q].tags[u] # 0
        PROVE  LET j == scopes'[q].tags[u]
               IN  /\ j \in DOMAIN idents' /\ idents'[j].kind = "tag"
                   /\ idents'[j].ty.k = "struct" => idents'[j].ty.n \in DOMAIN types'
    <3>1. CASE q = s /\ u = t
      <4>1. scopes'[q].tags[u] = NewIdent /\ t # NoTag
        BY <1>5, <3>1, DeclaratorsAssumption
      <4> QED
        BY <1>6, <4>1
    <3>2. CASE ~(q = s /\ u = t)
      <4> DEFINE j == scopes[q].tags[u]
      <4>1. scopes'[q].tags[u] = j
        BY <1>5, <3>2
      <4>2. /\ j \in DOMAIN idents /\ idents[j].kind = "tag"
            /\ idents[j].ty.k = "struct" => idents[j].ty.n \in DOMAIN types
        BY <2>1, <2>4, <4>1 DEF EntriesOf
      <4> HIDE DEF j
      <4> QED
        BY <1>6, <4>1, <4>2
    <3> QED
      BY <3>1, <3>2
  <2> QED
    BY <2>2, <2>3, <2>4 DEF EntriesOf
<1>8. TablesOK' /\ KindsOK' /\ Kept
  <2> HIDE DEF IdentType
  <2>1. \A q \in DOMAIN scopes : scopes'[q].type = scopes[q].type /\ scopes'[q].chain = scopes[q].chain
    BY <1>5
  <2> QED
    BY <1>5, <1>7, <2>1, GrowIdents
<1>9. KeptEntries({s})
  <2>1. ASSUME NEW q \in DOMAIN scopes
        PROVE  /\ scopes'[q] # scopes[q] => q = s
               /\ \A m \in Names : scopes[q].usual[m] \in {0, scopes'[q].usual[m]}
               /\ \A u \in Tags : scopes[q].tags[u] \in {0, scopes'[q].tags[u]}
    <3>1. /\ s \in DOMAIN scopes /\ scopes[s].usual[n] = 0
          /\ t # NoTag => scopes[s].tags[t] = 0
          /\ \A m \in Names : e.usual[m] = IF m = n THEN i ELSE scopes[s].usual[m]
          /\ \A u \in Tags : e.tags[u] = IF u = t THEN NewIdent ELSE scopes[s].tags[u]
      OBVIOUS
    <3> HIDE DEF Entered
    <3>2. CASE q = s
      <4>1. scopes'[q] = e
        BY <1>5, <3>2
      <4>2. \A m \in Names : scopes[q].usual[m] \in {0, scopes'[q].usual[m]}
        BY <3>1, <3>2, <4>1
      <4>3. \A u \in Tags : scopes[q].tags[u] \in {0, scopes'[q].tags[u]}
        BY <3>1, <3>2, <4>1, DeclaratorsAssumption
      <4> QED
        BY <3>2, <4>2, <4>3
    <3>3. CASE q # s
      BY <1>5, <3>3
    <3> QED
      BY <3>2, <3>3
  <2> QED
    BY <2>1 DEF KeptEntries
<1> QED
  BY <1>5, <1>6, <1>8, <1>9

\* The end of a member list: tags that the scope around did not have.
LEMMA ExitStructTables ==
  ASSUME TablesOK, KindsOK, UNCHANGED idents, NEW s \in DOMAIN scopes,
         NEW back \in DOMAIN scopes, NEW y \in DOMAIN types,
         NEW e \in ScopeType, scopes' = [scopes EXCEPT ![back] = e],
         e.type = scopes[back].type, e.chain = scopes[back].chain,
         e.usual = scopes[back].usual,
         \A t \in Tags : /\ e.tags[t] \in {scopes[s].tags[t], scopes[back].tags[t]}
                         /\ scopes[back].tags[t] \in {0, e.tags[t]},
         NEW c \in [scope : DOMAIN scopes, complete : BOOLEAN],
         c.scope = types[y].scope, types' = [types EXCEPT ![y] = c]
  PROVE  TablesOK' /\ KindsOK' /\ Kept /\ KeptEntries({back}) /\ Len(scopes') = Len(scopes)
<1>1. scopes \in Seq(ScopeType)
  BY DEF TablesOK
<1>4. /\ scopes' \in Seq(ScopeType) /\ Len(scopes') = Len(scopes) /\ DOMAIN scopes' = DOMAIN scopes
      /\ \A q \in DOMAIN scopes : scopes'[q] = IF q = back THEN e ELSE scopes[q]
  <2> HIDE DEF ScopeType
  <2> QED
    BY <1>1, Replaced
<1> DEFINE T == [scope : DOMAIN scopes, complete : BOOLEAN]
<1>5. types \in Seq(T) /\ c \in T
  BY Domains DEF TablesOK
<1>6. T' = T /\ IdentType' = IdentType
  BY <1>4 DEF IdentType
<1>7. /\ types' \in Seq(T) /\ Len(types') = Len(types) /\ DOMAIN types' = DOMAIN types
      /\ \A z \in DOMAIN types : types'[z] = IF z = y THEN c ELSE types[z]
  <2> HIDE DEF T
  <2> QED
    BY <1>5, Replaced
<1>8. EntriesOK'
  <2> SUFFICES ASSUME NEW q \in DOMAIN scopes PROVE EntriesOf(q)'
    BY <1>4 DEF EntriesOK
  <2>1. EntriesOf(q) /\ EntriesOf(s) /\ EntriesOf(back)
    BY DEF TablesOK, EntriesOK
  <2>2. /\ scopes'[q].chain # <<>> /\ scopes'[q].chain[1] = q
        /\ \A j \in DOMAIN scopes'[q].chain : scopes'[q].chain[j] \in DOMAIN scopes'
        /\ \A n \in Names : scopes'[q].usual[n] \in 0 .. Len(idents')
    BY <1>4, <2>1 DEF EntriesOf
  <2>3. ASSUME NEW t \in Tags, scopes'[q].tags[t] # 0
        PROVE  LET j == scopes'[q].tags[t]
               IN  /\ j \in DOMAIN idents' /\ idents'[j].kind = "tag"
                   /\ idents'[j].ty.k = "struct" => idents'[j].ty.n \in DOMAIN types'
    <3>1. scopes'[q].tags[t] \in {scopes[q].tags[t], scopes[s].tags[t]}
      BY <1>4
    <3>2. CASE scopes'[q].tags[t] = scopes[q].tags[t]
      BY <1>7, <2>1, <2>3, <3>2 DEF EntriesOf
    <3>3. CASE scopes'[q].tags[t] = scopes[s].tags[t]
      BY <1>7, <2>1, <2>3, <3>3 DEF EntriesOf
    <3> QED
      BY <3>1, <3>2, <3>3
  <2> QED
    BY <2>2, <2>3 DEF EntriesOf
<1>9. KindsOK'
  <2>1. ASSUME NEW z \in DOMAIN types' PROVE scopes'[types'[z].scope].type = "block"
    <3>1. types'[z].scope = types[z].scope /\ types[z].scope \in DOMAIN scopes
      BY <1>5, <1>7, Domains
    <3>2. scopes[types[z].scope].type = "block"
      BY <1>7 DEF KindsOK
    <3> QED
      BY <1>4, <3>1, <3>2
  <2> QED
    BY <2>1 DEF KindsOK
<1>10. KeptEntries({back})
  <2>1. ASSUME NEW q \in DOMAIN scopes
        PROVE  /\ scopes'[q] # scopes[q] => q = back
               /\ \A n \in Names : scopes'[q].usual[n] = scopes[q].usual[n]
               /\ \A t \in Tags : scopes[q].tags[t] \in {0, scopes'[q].tags[t]}
    BY <1>4
  <2> QED
    BY <2>1 DEF KeptEntries
<1>11. Kept
  BY <1>4, <1>7, Domains DEF Kept
<1>12. TablesOK'
  <2> HIDE DEF ScopeType, IdentType
  <2> QED
    BY <1>4, <1>6, <1>7, <1>8 DEF TablesOK
<1> QED
  BY <1>4, <1>9, <1>10, <1>11, <1>12

---------------------------------------------------------------------------
(* The call stack of the parser, and what is reported.                       *)

LEMMA StackKept ==
  ASSUME StackOK, TablesOK, TablesOK', Kept, UNCHANGED <<scope, open>>
  PROVE  StackOK'
<1>1. DOMAIN scopes \subseteq DOMAIN scopes' /\ DOMAIN types \subseteq DOMAIN types'
  BY Domains DEF Kept, TablesOK
<1>2. ScopeRestored'
  <2>1. \A k \in DOMAIN open : ScopeAt(k) \in DOMAIN scopes
    <3> SUFFICES ASSUME NEW k \in DOMAIN open PROVE ScopeAt(k) \in DOMAIN scopes
      OBVIOUS
    <3>1. CASE k = 1
      BY <3>1 DEF StackOK, ScopeAt
    <3>2. CASE k # 1
      <4>1. k - 1 \in DOMAIN open
        BY <3>2 DEF StackOK
      <4> QED
        BY <3>2, <4>1 DEF StackOK, ScopeAt, ScopeRestored
    <3> QED
      BY <3>1, <3>2
  <2>2. \A k \in DOMAIN open : ScopeAt(k)' = ScopeAt(k)
    BY DEF ScopeAt
  <2>3. (ScopeAt(Len(open) + 1))' = 1
    BY DEF StackOK, ScopeRestored, ScopeAt
  <2>4. ASSUME NEW k \in DOMAIN open
        PROVE  /\ open[k].back \in DOMAIN scopes'
               /\ scopes'[ScopeAt(k)].type = IF open[k].what = "proto" THEN "proto" ELSE "block"
               /\ open[k].what # "struct" => scopes'[ScopeAt(k)].chain[2] = open[k].back
    <3>1. /\ open[k].back \in DOMAIN scopes
          /\ scopes[ScopeAt(k)].type = IF open[k].what = "proto" THEN "proto" ELSE "block"
          /\ open[k].what # "struct" => scopes[ScopeAt(k)].chain[2] = open[k].back
      BY DEF StackOK, ScopeRestored, Parent
    <3> QED
      BY <1>1, <2>1, <3>1 DEF Kept
  <2> QED
    BY <2>2, <2>3, <2>4 DEF ScopeRestored, Parent
<1> QED
  BY <1>1, <1>2 DEF StackOK, OpenOK

\* Something more is open, o, and the scope is that of what is in it.
LEMMA StackPushed ==
  ASSUME StackOK, TablesOK, TablesOK', Kept,
         NEW o \in OpenType, open' = <<o>> \o open, scope' \in DOMAIN scopes',
         o.back = scope,
         scopes'[scope'].type = IF o.what = "proto" THEN "proto" ELSE "block",
         o.what # "struct" => scopes'[scope'].chain[2] = scope,
         o.what = "proto" => o.decl \in Decls,
         o.what = "struct" => o.type \in DOMAIN types'
  PROVE  StackOK'
<1>1. DOMAIN scopes \subseteq DOMAIN scopes' /\ DOMAIN types \subseteq DOMAIN types'
  <2>1. PICK S, T : scopes' \in Seq(S) /\ types' \in Seq(T)
    BY DEF TablesOK
  <2>2. /\ DOMAIN scopes' = 1 .. Len(scopes') /\ Len(scopes') \in Nat
        /\ DOMAIN types' = 1 .. Len(types') /\ Len(types') \in Nat
    BY <2>1
  <2> QED
    BY <2>2, Domains DEF Kept
<1>2. /\ open' \in Seq(OpenType) /\ Len(open) \in Nat /\ DOMAIN open = 1 .. Len(open)
      /\ Len(open') = Len(open) + 1 /\ DOMAIN open' = 1 .. Len(open) + 1
      /\ open'[1] = o /\ \A k \in 1 .. Len(open) : open'[k + 1] = open[k]
  <2> HIDE DEF OpenType
  <2>1. open \in Seq(OpenType) /\ Len(open) \in Nat /\ DOMAIN open = 1 .. Len(open)
    BY DEF StackOK
  <2> QED
    BY <2>1
<1>3. \A k \in DOMAIN open' : k = 1 \/ \E j \in 1 .. Len(open) : k = j + 1
  <2> SUFFICES ASSUME NEW k \in DOMAIN open', k # 1 PROVE \E j \in 1 .. Len(open) : k = j + 1
    OBVIOUS
  <2> WITNESS k - 1 \in 1 .. Len(open)
  <2> QED
    BY <1>2
<1>4. \A j \in 1 .. Len(open) + 1 : ScopeAt(j + 1)' = ScopeAt(j)
  <2> SUFFICES ASSUME NEW j \in 1 .. Len(open) + 1 PROVE ScopeAt(j + 1)' = ScopeAt(j)
    OBVIOUS
  <2>1. j + 1 # 1 /\ (j + 1) - 1 = j
    BY <1>2
  <2>2. ScopeAt(j + 1)' = open'[j].back
    BY <2>1 DEF ScopeAt
  <2>3. CASE j = 1
    BY <1>2, <2>2, <2>3 DEF ScopeAt
  <2>4. CASE j # 1
    <3>1. j - 1 \in 1 .. Len(open) /\ (j - 1) + 1 = j
      BY <1>2, <2>4
    <3> QED
      BY <1>2, <2>2, <2>4, <3>1 DEF ScopeAt
  <2> QED
    BY <2>3, <2>4
<1>5. \A j \in 1 .. Len(open) : ScopeAt(j) \in DOMAIN scopes
  <2> SUFFICES ASSUME NEW j \in 1 .. Len(open) PROVE ScopeAt(j) \in DOMAIN scopes
    OBVIOUS
  <2>1. CASE j = 1
    BY <2>1 DEF StackOK, ScopeAt
  <2>2. CASE j # 1
    <3>1. j - 1 \in DOMAIN open
      BY <1>2, <2>2
    <3> QED
      BY <2>2, <3>1 DEF StackOK, ScopeAt, ScopeRestored
  <2> QED
    BY <2>1, <2>2
<1>6. ScopeRestored'
  <2>1. PICK m \in 1 .. Len(open) + 1 : m = Len(open) + 1
    BY <1>2
  <2>2. (ScopeAt(Len(open) + 1))' = 1
    <3>1. ScopeAt(m) = 1
      BY <2>1 DEF StackOK, ScopeRestored
    <3>2. ScopeAt(m + 1)' = 1
      BY <1>4, <3>1
    <3>3. Len(open') + 1 = m + 1
      BY <1>2, <2>1
    <3> QED
      BY <3>2, <3>3 DEF ScopeAt
  <2>3. ASSUME NEW k \in DOMAIN open'
        PROVE  /\ open'[k].back \in DOMAIN scopes'
               /\ scopes'[ScopeAt(k)'].type = IF open'[k].what = "proto" THEN "proto" ELSE "block"
               /\ open'[k].what # "struct" => scopes'[ScopeAt(k)'].chain[2] = open'[k].back
    <3>1. CASE k = 1
      BY <1>1, <1>2, <3>1 DEF StackOK, ScopeAt
    <3>2. CASE k # 1
      <4>1. PICK j \in 1 .. Len(open) : k = j + 1
        BY <1>3, <3>2
      <4>2. ScopeAt(k)' = ScopeAt(j) /\ open'[k] = open[j] /\ ScopeAt(j) \in DOMAIN scopes
        <5>1. j \in 1 .. Len(open) + 1
          BY <1>2
        <5>2. ScopeAt(j + 1)' = ScopeAt(j)
          BY <1>4, <5>1
        <5> QED
          BY <1>2, <1>5, <4>1, <5>2 DEF ScopeAt
      <4>3. /\ open[j].back \in DOMAIN scopes
            /\ scopes[ScopeAt(j)].type = IF open[j].what = "proto" THEN "proto" ELSE "block"
            /\ open[j].what # "struct" => scopes[ScopeAt(j)].chain[2] = open[j].back
        BY <1>2 DEF StackOK, ScopeRestored, Parent
      <4> QED
        BY <1>1, <4>2, <4>3 DEF Kept
    <3> QED
      BY <3>1, <3>2
  <2> QED
    BY <2>2, <2>3 DEF ScopeRestored, Parent
<1>7. OpenOK'
  <2>1. ASSUME NEW k \in DOMAIN open'
        PROVE  /\ open'[k].what = "proto" => open'[k].decl \in Decls
               /\ open'[k].what = "struct" => open'[k].type \in DOMAIN types'
    <3>1. CASE k = 1
      BY <1>2, <3>1
    <3>2. CASE k # 1
      <4>1. PICK j \in 1 .. Len(open) : k = j + 1
        BY <1>3, <3>2
      <4> QED
        BY <1>1, <1>2, <4>1 DEF StackOK, OpenOK
    <3> QED
      BY <3>1, <3>2
  <2> QED
    BY <2>1 DEF OpenOK
<1> QED
  BY <1>2, <1>6, <1>7 DEF StackOK

\* What was innermost is closed, and the scope is the one it was entered from.
LEMMA StackPopped ==
  ASSUME StackOK, TablesOK, TablesOK', Kept, open # <<>>, open' = Tail(open), scope' = open[1].back
  PROVE  StackOK'
<1>1. DOMAIN scopes \subseteq DOMAIN scopes' /\ DOMAIN types \subseteq DOMAIN types'
  BY Domains DEF Kept, TablesOK
<1>2. /\ open' \in Seq(OpenType) /\ Len(open) \in Nat /\ DOMAIN open = 1 .. Len(open)
      /\ Len(open) >= 1 /\ Len(open') = Len(open) - 1 /\ DOMAIN open' = 1 .. Len(open) - 1
      /\ \A k \in 1 .. Len(open) - 1 : open'[k] = open[k + 1]
  <2> HIDE DEF OpenType
  <2>1. open \in Seq(OpenType) /\ Len(open) \in Nat /\ DOMAIN open = 1 .. Len(open)
    BY DEF StackOK
  <2> QED
    BY <2>1
<1>3. \A j \in 1 .. Len(open) : ScopeAt(j)' = ScopeAt(j + 1)
  <2> SUFFICES ASSUME NEW j \in 1 .. Len(open) PROVE ScopeAt(j)' = ScopeAt(j + 1)
    OBVIOUS
  <2>1. ScopeAt(j + 1) = open[j].back
    <3>1. j + 1 # 1 /\ (j + 1) - 1 = j
      BY <1>2
    <3> QED
      BY <3>1 DEF ScopeAt
  <2>2. CASE j = 1
    BY <2>1, <2>2 DEF ScopeAt
  <2>3. CASE j # 1
    <3>1. j - 1 \in 1 .. Len(open) - 1 /\ (j - 1) + 1 = j
      BY <1>2, <2>3
    <3> QED
      BY <1>2, <2>1, <2>3, <3>1 DEF ScopeAt
  <2> QED
    BY <2>2, <2>3
<1>4. scope' \in DOMAIN scopes'
  BY <1>1, <1>2 DEF StackOK, ScopeRestored
<1>5. ScopeRestored'
  <2>1. (ScopeAt(Len(open) + 1))' = 1
    <3>0. Len(open) \in 1 .. Len(open)
      BY <1>2
    <3>1. PICK m \in 1 .. Len(open) : m = Len(open)
      BY <3>0
    <3>2. ScopeAt(m + 1) = 1
      BY <3>1 DEF StackOK, ScopeRestored
    <3>3. ScopeAt(m)' = 1
      BY <1>3, <3>2
    <3>4. Len(open') + 1 = m
      BY <1>2, <3>1
    <3> QED
      BY <3>3, <3>4 DEF ScopeAt
  <2>2. ASSUME NEW k \in DOMAIN open'
        PROVE  /\ open'[k].back \in DOMAIN scopes'
               /\ scopes'[ScopeAt(k)'].type = IF open'[k].what = "proto" THEN "proto" ELSE "block"
               /\ open'[k].what # "struct" => scopes'[ScopeAt(k)'].chain[2] = open'[k].back
    <3>1. k \in 1 .. Len(open) /\ k + 1 \in DOMAIN open /\ open'[k] = open[k + 1] /\ (k + 1) - 1 = k
          /\ k + 1 # 1
      BY <1>2
    <3>2. ScopeAt(k)' = ScopeAt(k + 1) /\ ScopeAt(k + 1) = open[k].back
      BY <1>3, <3>1 DEF ScopeAt
    <3>3. ScopeAt(k + 1) \in DOMAIN scopes
      BY <1>2, <3>1, <3>2 DEF StackOK, ScopeRestored
    <3>4. /\ open[k + 1].back \in DOMAIN scopes
          /\ scopes[ScopeAt(k + 1)].type = IF open[k + 1].what = "proto" THEN "proto" ELSE "block"
          /\ open[k + 1].what # "struct" => scopes[ScopeAt(k + 1)].chain[2] = open[k + 1].back
      BY <3>1 DEF StackOK, ScopeRestored, Parent
    <3> HIDE DEF ScopeAt
    <3> QED
      BY <1>1, <3>1, <3>2, <3>3, <3>4 DEF Kept
  <2> QED
    BY <2>1, <2>2 DEF ScopeRestored, Parent
<1>6. OpenOK'
  <2>1. ASSUME NEW k \in DOMAIN open'
        PROVE  /\ open'[k].what = "proto" => open'[k].decl \in Decls
               /\ open'[k].what = "struct" => open'[k].type \in DOMAIN types'
    <3>1. k + 1 \in DOMAIN open /\ open'[k] = open[k + 1]
      BY <1>2
    <3> QED
      BY <1>1, <3>1 DEF StackOK, OpenOK
  <2> QED
    BY <2>1 DEF OpenOK
<1> QED
  BY <1>2, <1>4, <1>5, <1>6 DEF StackOK

\* What is denoted and what is generated are identifiers there are.
LEMMA Reported ==
  ASSUME ReportOK, TablesOK, TablesOK', Len(idents) <= Len(idents'),
         NEW act \in Acts, NEW i \in 0 .. Len(idents'), Denotes(act, i),
         \/ UNCHANGED code
         \/ \E what \in {"declare", "define", "use"}, j \in DOMAIN idents' :
              code' = Append(code, [what |-> what, ident |-> j])
  PROVE  ReportOK'
<1> DEFINE S == [what : {"declare", "define", "use"}, ident : DOMAIN idents]
           T == [what : {"declare", "define", "use"}, ident : DOMAIN idents']
<1>1. DOMAIN idents \subseteq DOMAIN idents'
  BY Domains DEF TablesOK
<1>2. code \in Seq(T)
  <2>1. S \subseteq T /\ code \in Seq(S)
    BY <1>1 DEF ReportOK
  <2> HIDE DEF S, T
  <2> QED
    BY <2>1, SeqMonotonic
<1>3. code' \in Seq(T)
  <2>1. CASE UNCHANGED code
    BY <1>2, <2>1
  <2>2. ASSUME NEW what \in {"declare", "define", "use"}, NEW j \in DOMAIN idents',
               code' = Append(code, [what |-> what, ident |-> j])
        PROVE  code' \in Seq(T)
    <3> DEFINE c == [what |-> what, ident |-> j]
    <3>1. c \in T
      OBVIOUS
    <3> HIDE DEF c, T
    <3>2. code' = Append(code, c)
      BY <2>2 DEF c
    <3> QED
      BY <1>2, <3>1, <3>2, AppendProperties
  <2> QED
    BY <2>1, <2>2
<1>4. verdict' \in {"ok", "error", "crash"}
  BY DEF Denotes, ReportOK
<1>5. last' \in [act : Acts, ident : 0 .. Len(idents')]
  BY DEF Denotes
<1> QED
  BY <1>3, <1>4, <1>5 DEF ReportOK

---------------------------------------------------------------------------
(* Every step.                                                               *)

LEMMA Unmoved ==
  ASSUME SInv, UNCHANGED <<scopes, scope, idents, types, open>>, ReportOK'
  PROVE  SInv' /\ KeptEntries({scope, scope'})
<1>1. TablesOK'
  BY DEF SInv, TablesOK, IdentType, EntriesOK, EntriesOf
<1>2. KindsOK'
  BY DEF SInv, KindsOK
<1>3. Kept
  BY Domains DEF SInv, Kept
<1>4. StackOK'
  BY <1>1, <1>3, StackKept DEF SInv
<1>5. KeptEntries({scope, scope'})
  BY DEF KeptEntries
<1> QED
  BY <1>1, <1>2, <1>4, <1>5 DEF SInv

LEMMA Stopped ==
  ASSUME SInv, NEW how \in {"error", "crash"}, Stop(how)
  PROVE  SInv' /\ KeptEntries({scope, scope'})
<1>1. ReportOK'
  BY DEF SInv, Stop, ReportOK
<1> QED
  BY <1>1, Unmoved DEF Stop

LEMMA Denoted ==
  ASSUME SInv, UNCHANGED <<scopes, scope, idents, types, open>>,
         NEW act \in Acts, NEW i \in 0 .. Len(idents), Denotes(act, i),
         \/ UNCHANGED code
         \/ \E what \in {"declare", "define", "use"}, j \in DOMAIN idents :
              code' = Append(code, [what |-> what, ident |-> j])
  PROVE  SInv' /\ KeptEntries({scope, scope'})
<1>1. TablesOK'
  BY DEF SInv, TablesOK, IdentType, EntriesOK, EntriesOf
<1>2. Len(idents) <= Len(idents')
  BY Domains DEF SInv
<1>3. ReportOK'
  BY <1>1, <1>2, Reported DEF SInv
<1> QED
  BY <1>3, Unmoved

LEMMA WiderEntries ==
  ASSUME NEW S, NEW T, S \subseteq T, KeptEntries(S)
  PROVE  KeptEntries(T)
BY DEF KeptEntries

LEMMA DeclarationReported ==
  ASSUME TablesOK, TablesOK', Kept, ReportOK, NEW d \in Decls,
         NEW s \in DOMAIN scopes, NEW params, MakeDeclaration(d, s, params)
  PROVE  ReportOK'
<1> DEFINE here == FindUsualInCurrScope(s, d.name)
<1>1. /\ d.name \in Names /\ here \in 0 .. Len(idents) /\ Outer(d, s) \in 0 .. Len(idents)
      /\ 0 .. Len(idents) \subseteq 0 .. Len(idents') /\ Len(idents) <= Len(idents')
  BY LookUp, Domains DEF Decls, FindUsualInCurrScope, Outer, Kept
<1> HIDE DEF here
<1>2. CASE RedeclareTypedef(d, s)
  <2>1. Denotes("warn", here) /\ UNCHANGED code /\ here \in 0 .. Len(idents')
    BY <1>1, <1>2 DEF RedeclareTypedef, here
  <2> QED
    BY <1>1, <2>1, Reported DEF Acts
<1>3. CASE Redeclare(d, s) /\ Redeclared(d, s) # 0
  <2> DEFINE i == Redeclared(d, s)
  <2>1. i \in DOMAIN idents' /\ i \in 0 .. Len(idents') /\ Denotes("declare", i)
    BY <1>1, <1>3, Domains DEF Redeclared, IsObject, Redeclare, here, TablesOK, Kept
  <2>2. UNCHANGED code \/ code' = Append(code, [what |-> "declare", ident |-> i])
    BY <1>3 DEF Redeclare, Generates
  <2> HIDE DEF i
  <2> QED
    BY <1>1, <2>1, <2>2, Reported DEF Acts
<1>4. CASE DeclareNew(d, s, params)
  <2>1. NewIdent \in DOMAIN idents' /\ NewIdent \in 0 .. Len(idents')
    <3> DEFINE id == Initialised([Ident(Kind(d), d.name, d.ty,
                       IF d.storage = "typedef" THEN "none" ELSE DeclaredLinkage(d, s),
                       d.storage, s) EXCEPT !.params = params], d, s)
    <3>1. idents' = Append(idents, id)
      BY <1>4 DEF DeclareNew
    <3> HIDE DEF id, IdentType
    <3>2. idents \in Seq(IdentType) /\ idents' \in Seq(IdentType')
      BY DEF TablesOK
    <3>3. Len(idents') = Len(idents) + 1 /\ DOMAIN idents' = 1 .. Len(idents) + 1
      BY <3>1, <3>2
    <3> QED
      BY <3>3, Domains DEF NewIdent
  <2>2. /\ Denotes("declare", NewIdent)
        /\ UNCHANGED code \/ code' = Append(code, [what |-> "declare", ident |-> NewIdent])
    BY <1>4 DEF DeclareNew, Generates
  <2> HIDE DEF NewIdent
  <2> QED
    BY <1>1, <2>1, <2>2, Reported DEF Acts
<1> QED
  BY <1>2, <1>3, <1>4 DEF MakeDeclaration

LEMMA DeclareStep ==
  ASSUME SInv, NEW d \in Decls, Declare(d)
  PROVE  SInv' /\ KeptEntries({scope, scope'})
<1>1. CASE Stop("error")
  BY <1>1, Stopped
<1>2. CASE ~Refused(d, scope) /\ MakeDeclaration(d, scope, 0) /\ UNCHANGED <<scope, types, open>>
  <2>1. TablesOK /\ KindsOK /\ StackOK /\ ReportOK /\ scope \in DOMAIN scopes /\ 0 \in 0 .. Len(scopes)
    BY Domains DEF SInv, StackOK
  <2>2. TablesOK' /\ KindsOK' /\ Kept /\ KeptEntries({scope})
    BY <1>2, <2>1, DeclarationTables
  <2>3. StackOK'
    BY <1>2, <2>1, <2>2, StackKept
  <2>4. ReportOK'
    BY <1>2, <2>1, <2>2, DeclarationReported
  <2>5. KeptEntries({scope, scope'})
    BY <2>2, WiderEntries
  <2> QED
    BY <2>2, <2>3, <2>4, <2>5 DEF SInv
<1> QED
  BY <1>1, <1>2 DEF Declare

LEMMA EnterProtoStep ==
  ASSUME SInv, NEW d \in Decls, EnterProto(d)
  PROVE  SInv' /\ KeptEntries({scope, scope'})
<1> DEFINE r == NewScope("proto", scopes[scope].chain)
           o == Opened("proto", scope, 0, d)
<1>1. TablesOK /\ KindsOK /\ StackOK /\ ReportOK /\ scope \in DOMAIN scopes /\ scope \in Nat
  BY Domains DEF SInv, StackOK
<1>2. /\ scopes' = Append(scopes, r) /\ scope' = Len(scopes) + 1 /\ open' = <<o>> \o open
      /\ Denotes("enter", 0) /\ UNCHANGED <<idents, types, code>>
  BY DEF EnterProto
<1>3. /\ r \in ScopeType /\ r.type = "proto" /\ r.chain # <<>> /\ r.chain[1] = Len(scopes) + 1
      /\ r.chain[2] = scope
      /\ \A i \in DOMAIN r.chain : r.chain[i] \in 1 .. Len(scopes) + 1
      /\ (\A n \in Names : r.usual[n] = 0) /\ (\A u \in Tags : r.tags[u] = 0)
  BY <1>1, MadeScope DEF ScopeTypes
<1>4. o \in OpenType /\ o.back = scope /\ o.what = "proto" /\ o.decl = d
  BY <1>1 DEF Opened, OpenType
<1> HIDE DEF r, o
<1>5. /\ TablesOK' /\ KindsOK' /\ Kept /\ KeptEntries({})
      /\ Len(scopes') = Len(scopes) + 1 /\ scopes'[Len(scopes) + 1] = r
  <2>0. 0 \in 0 .. Len(idents)
    BY <1>1, Domains
  <2>1. \A n \in Names : r.usual[n] \in 0 .. Len(idents)
    BY <1>3, <2>0
  <2> QED
    BY <1>1, <1>2, <1>3, <2>1, GrowScopes
<1>6. scope' \in DOMAIN scopes' /\ scopes'[scope'] = r
  BY <1>1, <1>2, <1>5, Domains DEF TablesOK
<1>7. StackOK'
  BY <1>1, <1>2, <1>3, <1>4, <1>5, <1>6, StackPushed
<1>8. ReportOK'
  <2>1. 0 \in 0 .. Len(idents') /\ Len(idents) <= Len(idents')
    BY <1>1, <1>2, Domains
  <2> QED
    BY <1>1, <1>2, <1>5, <2>1, Reported DEF Acts
<1>9. KeptEntries({scope, scope'})
  BY <1>5, WiderEntries
<1> QED
  BY <1>5, <1>7, <1>8, <1>9 DEF SInv

LEMMA EnterBlockStep ==
  ASSUME SInv, EnterBlock
  PROVE  SInv' /\ KeptEntries({scope, scope'})
<1> DEFINE r == NewScope("block", scopes[scope].chain)
           o == Opened("block", scope, 0, NoDecl)
<1>1. TablesOK /\ KindsOK /\ StackOK /\ ReportOK /\ scope \in DOMAIN scopes /\ scope \in Nat
  BY Domains DEF SInv, StackOK
<1>2. /\ scopes' = Append(scopes, r) /\ scope' = Len(scopes) + 1 /\ open' = <<o>> \o open
      /\ Denotes("enter", 0) /\ UNCHANGED <<idents, types, code>>
  BY DEF EnterBlock
<1>3. /\ r \in ScopeType /\ r.type = "block" /\ r.chain # <<>> /\ r.chain[1] = Len(scopes) + 1
      /\ r.chain[2] = scope
      /\ \A i \in DOMAIN r.chain : r.chain[i] \in 1 .. Len(scopes) + 1
      /\ (\A n \in Names : r.usual[n] = 0) /\ (\A u \in Tags : r.tags[u] = 0)
  BY <1>1, MadeScope DEF ScopeTypes
<1>4. o \in OpenType /\ o.back = scope /\ o.what = "block"
  BY <1>1 DEF Opened, OpenType
<1> HIDE DEF r, o
<1>5. /\ TablesOK' /\ KindsOK' /\ Kept /\ KeptEntries({})
      /\ Len(scopes') = Len(scopes) + 1 /\ scopes'[Len(scopes) + 1] = r
  <2>0. 0 \in 0 .. Len(idents)
    BY <1>1, Domains
  <2>1. \A n \in Names : r.usual[n] \in 0 .. Len(idents)
    BY <1>3, <2>0
  <2> QED
    BY <1>1, <1>2, <1>3, <2>1, GrowScopes
<1>6. scope' \in DOMAIN scopes' /\ scopes'[scope'] = r
  BY <1>1, <1>2, <1>5, Domains DEF TablesOK
<1>7. StackOK'
  BY <1>1, <1>2, <1>3, <1>4, <1>5, <1>6, StackPushed
<1>8. ReportOK'
  <2>1. 0 \in 0 .. Len(idents') /\ Len(idents) <= Len(idents')
    BY <1>1, <1>2, Domains
  <2> QED
    BY <1>1, <1>2, <1>5, <2>1, Reported DEF Acts
<1>9. KeptEntries({scope, scope'})
  BY <1>5, WiderEntries
<1> QED
  BY <1>5, <1>7, <1>8, <1>9 DEF SInv

LEMMA EnterBodyStep ==
  ASSUME SInv, EnterBody
  PROVE  SInv' /\ KeptEntries({scope, scope'})
<1> DEFINE b == NewScope("block", scopes[scope].chain)
           usual == Parameters(idents[last.ident].params)
           r == [b EXCEPT !.usual = usual]
           o == Opened("body", scope, 0, NoDecl)
<1>1. TablesOK /\ KindsOK /\ StackOK /\ ReportOK /\ scope \in DOMAIN scopes /\ scope \in Nat
  BY Domains DEF SInv, StackOK
<1>2. /\ scopes' = Append(scopes, r) /\ scope' = Len(scopes) + 1 /\ open' = <<o>> /\ open = <<>>
      /\ code' = Append(code, [what |-> "define", ident |-> last.ident]) /\ last.ident # 0
      /\ Denotes("enter", 0) /\ UNCHANGED <<idents, types>>
  BY DEF EnterBody
<1>3. open' = <<o>> \o open /\ last.ident \in DOMAIN idents /\ Len(idents) \in Nat
  BY <1>1, <1>2, Domains DEF ReportOK
<1>4. /\ b \in ScopeType /\ b.type = "block" /\ b.chain # <<>> /\ b.chain[1] = Len(scopes) + 1
      /\ b.chain[2] = scope
      /\ \A i \in DOMAIN b.chain : b.chain[i] \in 1 .. Len(scopes) + 1
      /\ (\A n \in Names : b.usual[n] = 0) /\ (\A u \in Tags : b.tags[u] = 0)
  BY <1>1, MadeScope DEF ScopeTypes
<1>5. usual \in [Names -> Nat] /\ \A n \in Names : usual[n] \in 0 .. Len(idents)
  <2> DEFINE p == idents[last.ident].params
  <2>1. p \in 0 .. Len(scopes)
    BY <1>1, <1>3, Domains DEF IdentType
  <2>2. p # 0 => p \in DOMAIN scopes
    BY <1>1, <2>1, Domains
  <2> HIDE DEF p
  <2>3. ASSUME NEW n \in Names
        PROVE  (IF p # 0 /\ IsObject(scopes[p].usual[n]) THEN scopes[p].usual[n] ELSE 0)
                 \in 0 .. Len(idents)
    <3>1. p # 0 => scopes[p].usual[n] \in 0 .. Len(idents)
      BY <1>1, <2>2, LookUp
    <3> QED
      BY <1>3, <3>1
  <2>4. usual = [n \in Names |-> IF p # 0 /\ IsObject(scopes[p].usual[n])
                                 THEN scopes[p].usual[n] ELSE 0]
    BY DEF Parameters, p
  <2> HIDE DEF usual
  <2> QED
    BY <1>3, <2>3, <2>4
<1> HIDE DEF b, usual
<1>6. /\ r \in ScopeType /\ r.type = b.type /\ r.chain = b.chain /\ r.usual = usual /\ r.tags = b.tags
  BY <1>4, <1>5 DEF ScopeType
<1>7. o \in OpenType /\ o.back = scope /\ o.what = "body"
  BY <1>1 DEF Opened, OpenType
<1> HIDE DEF r, o, ScopeType
<1>8. /\ TablesOK' /\ KindsOK' /\ Kept /\ KeptEntries({})
      /\ Len(scopes') = Len(scopes) + 1 /\ scopes'[Len(scopes) + 1] = r
  BY <1>1, <1>2, <1>4, <1>5, <1>6, GrowScopes
<1>9. scope' \in DOMAIN scopes' /\ scopes'[scope'] = r
  BY <1>1, <1>2, <1>8, Domains DEF TablesOK
<1>10. StackOK'
  BY <1>1, <1>2, <1>3, <1>4, <1>6, <1>7, <1>8, <1>9, StackPushed
<1>11. ReportOK'
  <2>1. 0 \in 0 .. Len(idents') /\ Len(idents) <= Len(idents') /\ last.ident \in DOMAIN idents'
    BY <1>1, <1>2, <1>3, Domains
  <2> QED
    BY <1>1, <1>2, <1>8, <2>1, Reported DEF Acts
<1>12. KeptEntries({scope, scope'})
  BY <1>8, WiderEntries
<1> QED
  BY <1>8, <1>10, <1>11, <1>12 DEF SInv

LEMMA ExitProtoStep ==
  ASSUME SInv, ExitProto
  PROVE  SInv' /\ KeptEntries({scope, scope'})
<1> DEFINE d == open[1].decl
           s == Parent(scope)
<1>1. CASE Stop("error")
  BY <1>1, Stopped
<1>2. CASE /\ ~Refused(d, s) /\ MakeDeclaration(d, s, scope)
           /\ scope' = s /\ open' = Tail(open) /\ UNCHANGED types
  <2>1. TablesOK /\ KindsOK /\ StackOK /\ ReportOK /\ scope \in 0 .. Len(scopes)
    BY Domains DEF SInv, StackOK
  <2>2. open # <<>> /\ open[1].what = "proto" /\ 1 \in DOMAIN open
    BY <2>1 DEF ExitProto, In, StackOK
  <2>3. d \in Decls /\ s = open[1].back /\ s \in DOMAIN scopes
    BY <2>1, <2>2 DEF StackOK, OpenOK, ScopeRestored, ScopeAt
  <2> HIDE DEF d, s
  <2>4. TablesOK' /\ KindsOK' /\ Kept /\ KeptEntries({s})
    BY <1>2, <2>1, <2>3, DeclarationTables
  <2>5. StackOK'
    BY <1>2, <2>1, <2>2, <2>3, <2>4, StackPopped
  <2>6. ReportOK'
    BY <1>2, <2>1, <2>3, <2>4, DeclarationReported
  <2>7. KeptEntries({scope, scope'})
    BY <1>2, <2>4, WiderEntries
  <2> QED
    BY <2>4, <2>5, <2>6, <2>7 DEF SInv
<1> QED
  BY <1>1, <1>2 DEF ExitProto

LEMMA ExitBlockStep ==
  ASSUME SInv, ExitBlock
  PROVE  SInv' /\ KeptEntries({scope, scope'})
<1>1. TablesOK /\ KindsOK /\ StackOK /\ ReportOK
  BY DEF SInv
<1>2. /\ open # <<>> /\ open[1].what # "struct" /\ 1 \in DOMAIN open
      /\ UNCHANGED <<scopes, idents, types, code>> /\ scope' = Parent(scope)
      /\ open' = Tail(open) /\ Denotes("exit", 0)
  BY <1>1 DEF ExitBlock, In, StackOK
<1>3. scope' = open[1].back
  BY <1>1, <1>2 DEF StackOK, ScopeRestored, ScopeAt
<1>4. TablesOK' /\ KindsOK'
  BY <1>1, <1>2 DEF TablesOK, IdentType, EntriesOK, EntriesOf, KindsOK
<1>5. Kept /\ KeptEntries({scope, scope'})
  BY <1>1, <1>2, Domains DEF Kept, KeptEntries
<1>6. StackOK'
  BY <1>1, <1>2, <1>3, <1>4, <1>5, StackPopped
<1>7. ReportOK'
  <2>1. 0 \in 0 .. Len(idents') /\ Len(idents) <= Len(idents')
    BY <1>1, <1>2, Domains
  <2> QED
    BY <1>1, <1>2, <1>4, <2>1, Reported DEF Acts
<1> QED
  BY <1>4, <1>5, <1>6, <1>7 DEF SInv

LEMMA UseStep ==
  ASSUME SInv, NEW n \in Names, Use(n) \/ Name(n)
  PROVE  SInv' /\ KeptEntries({scope, scope'})
<1> DEFINE i == FindUsual(scope, n)
<1>1. i \in 0 .. Len(idents) /\ (i # 0 => i \in DOMAIN idents)
  BY LookUp, Domains DEF SInv, StackOK
<1>2. CASE Stop("error")
  BY <1>2, Stopped
<1>3. CASE /\ UNCHANGED <<scopes, scope, idents, types, open>> /\ Denotes("use", i)
           /\ \/ UNCHANGED code
              \/ i # 0 /\ code' = Append(code, [what |-> "use", ident |-> i])
  <2> HIDE DEF i
  <2> QED
    BY <1>1, <1>3, Denoted DEF Acts
<1> QED
  BY <1>2, <1>3 DEF Use, Name

LEMMA FoundTag ==
  ASSUME SInv, NEW t \in Tags, FindTag(scope, t) # 0
  PROVE  FindTag(scope, t) \in 0 .. Len(idents)
<1>1. PICK r \in DOMAIN scopes : FindTag(scope, t) = scopes[r].tags[t]
  BY LookUp DEF SInv, StackOK
<1>2. scopes[r].tags[t] \in DOMAIN idents
  BY <1>1 DEF SInv, TablesOK, EntriesOK, EntriesOf
<1> QED
  BY <1>1, <1>2, Domains DEF SInv

LEMMA TagSpecifierStep ==
  ASSUME SInv, NEW t \in Tags, TagSpecifier(t)
  PROVE  SInv' /\ KeptEntries({scope, scope'})
<1>1. TablesOK /\ KindsOK /\ StackOK /\ ReportOK /\ scope \in DOMAIN scopes
  BY DEF SInv, StackOK
<1>2. UNCHANGED <<scope, open, code>>
  BY DEF TagSpecifier
<1>3. CASE FindTag(scope, t) # 0
  <2> DEFINE i == FindTag(scope, t)
  <2>1. Denotes("tag", i) /\ UNCHANGED <<scopes, idents, types>> /\ i \in 0 .. Len(idents)
    BY <1>3, FoundTag DEF TagSpecifier
  <2> HIDE DEF i
  <2> QED
    BY <1>2, <2>1, Denoted DEF Acts
<1>4. CASE FindTag(scope, t) = 0
  <2>1. Denotes("tag", NewIdent) /\ MakeStruct(t) /\ scopes[scope].tags[t] = 0 /\ t # NoTag
    BY <1>1, <1>4, LookUp, DeclaratorsAssumption DEF TagSpecifier
  <2>2. /\ TablesOK' /\ KindsOK' /\ Kept /\ KeptEntries({scope})
        /\ NewIdent \in DOMAIN idents'
    BY <1>1, <2>1, MakeStructTables
  <2>3. StackOK'
    BY <1>1, <1>2, <2>2, StackKept
  <2>4. NewIdent \in 0 .. Len(idents') /\ Len(idents) <= Len(idents')
    BY <2>2 DEF TablesOK, Kept
  <2>5. ReportOK'
    BY <1>1, <1>2, <2>1, <2>2, <2>4, Reported DEF Acts
  <2>6. KeptEntries({scope, scope'})
    BY <2>2, WiderEntries
  <2> QED
    BY <2>2, <2>3, <2>5, <2>6 DEF SInv
<1> QED
  BY <1>3, <1>4

LEMMA EnumSpecifierStep ==
  ASSUME SInv, NEW t \in Tags, EnumSpecifier(t)
  PROVE  SInv' /\ KeptEntries({scope, scope'})
<1> DEFINE i == FindTag(scope, t)
<1>1. CASE Stop("error")
  BY <1>1, Stopped
<1>2. CASE i # 0 /\ Denotes("tag", i) /\ UNCHANGED <<scopes, scope, idents, types, open, code>>
  <2>1. i \in 0 .. Len(idents)
    BY <1>2, FoundTag
  <2> HIDE DEF i
  <2> QED
    BY <1>2, <2>1, Denoted DEF Acts
<1> QED
  BY <1>1, <1>2 DEF EnumSpecifier

LEMMA EnterStructStep ==
  ASSUME SInv, NEW t \in Tags \cup {NoTag}, EnterStruct(t)
  PROVE  SInv' /\ KeptEntries({scope, scope'})
<1> DEFINE tag == IF t = NoTag THEN 0 ELSE FindTagInCurrScope(scope, t)
           ty == idents[tag].ty.n
<1>1. TablesOK /\ KindsOK /\ StackOK /\ ReportOK /\ scope \in DOMAIN scopes /\ scope \in Nat
  BY Domains DEF SInv, StackOK
<1>2. CASE Stop("error")
  BY <1>2, Stopped
<1>3. CASE /\ tag = 0 /\ MakeStruct(t) /\ scope' = Len(scopes) + 1
           /\ open' = <<Opened("struct", scope, NewType, NoDecl)>> \o open
           /\ Denotes("enter", 0) /\ UNCHANGED code
  <2> DEFINE o == Opened("struct", scope, NewType, NoDecl)
  <2>1. t # NoTag => scopes[scope].tags[t] = 0
    BY <1>3 DEF FindTagInCurrScope
  <2>2. /\ TablesOK' /\ KindsOK' /\ Kept /\ KeptEntries({scope})
        /\ Len(scopes') = Len(scopes) + 1 /\ scopes'[Len(scopes) + 1].type = "block"
        /\ NewType \in DOMAIN types'
    BY <1>1, <1>3, <2>1, MakeStructTables
  <2>3. NewType \in Nat /\ scope' \in DOMAIN scopes'
    BY <1>1, <1>3, <2>2, Domains DEF NewType, TablesOK
  <2>4. /\ o \in OpenType /\ o.back = scope /\ o.what = "struct" /\ o.type \in DOMAIN types'
        /\ open' = <<o>> \o open
    BY <1>1, <1>3, <2>2, <2>3 DEF Opened, OpenType
  <2> HIDE DEF o
  <2>5. StackOK'
    BY <1>1, <1>3, <2>2, <2>3, <2>4, StackPushed
  <2>6. 0 \in 0 .. Len(idents') /\ Len(idents) <= Len(idents')
    BY <1>1, <2>2, Domains DEF Kept, TablesOK
  <2>7. ReportOK'
    BY <1>1, <1>3, <2>2, <2>6, Reported DEF Acts
  <2>8. KeptEntries({scope, scope'})
    BY <2>2, WiderEntries
  <2> QED
    BY <2>2, <2>5, <2>7, <2>8 DEF SInv
<1>4. CASE /\ tag # 0 /\ idents[tag].ty.k = "struct"
           /\ scope' = types[ty].scope
           /\ open' = <<Opened("struct", scope, ty, NoDecl)>> \o open
           /\ Denotes("enter", 0) /\ UNCHANGED <<scopes, idents, types, code>>
  <2> DEFINE o == Opened("struct", scope, ty, NoDecl)
  <2>1. ty \in DOMAIN types
    <3>1. t \in Tags /\ tag = scopes[scope].tags[t]
      BY <1>4 DEF FindTagInCurrScope
    <3> HIDE DEF tag
    <3> QED
      BY <1>1, <1>4, <3>1 DEF TablesOK, EntriesOK, EntriesOf
  <2>2. /\ o \in OpenType /\ o.back = scope /\ o.what = "struct" /\ o.type = ty
        /\ open' = <<o>> \o open
    BY <1>1, <1>4, <2>1, Domains DEF Opened, OpenType
  <2> HIDE DEF o, ty, tag
  <2>3. scope' \in DOMAIN scopes /\ scopes[scope'].type = "block"
    BY <1>1, <1>4, <2>1, Domains DEF KindsOK
  <2>4. TablesOK' /\ KindsOK'
    BY <1>1, <1>4 DEF TablesOK, IdentType, EntriesOK, EntriesOf, KindsOK
  <2>5. Kept /\ KeptEntries({scope, scope'})
    BY <1>1, <1>4, Domains DEF Kept, KeptEntries
  <2>6. StackOK'
    BY <1>1, <1>4, <2>1, <2>2, <2>3, <2>4, <2>5, StackPushed
  <2>7. 0 \in 0 .. Len(idents') /\ Len(idents) <= Len(idents')
    BY <1>1, <1>4, Domains
  <2>8. ReportOK'
    BY <1>1, <1>4, <2>4, <2>7, Reported DEF Acts
  <2> QED
    BY <2>4, <2>5, <2>6, <2>8 DEF SInv
<1> QED
  BY <1>2, <1>3, <1>4 DEF EnterStruct

LEMMA MemberStep ==
  ASSUME SInv, NEW n \in Names, Member(n)
  PROVE  SInv' /\ KeptEntries({scope, scope'})
<1> DEFINE id == Ident("object", n, IntType, "none", "", scope)
           e == [scopes[scope] EXCEPT !.usual[n] = NewIdent]
<1>1. TablesOK /\ KindsOK /\ StackOK /\ ReportOK /\ scope \in DOMAIN scopes
  BY DEF SInv, StackOK
<1>2. CASE Stop("error") \/ Stop("crash")
  BY <1>2, Stopped
<1>3. CASE /\ scopes[scope].usual[n] = 0 /\ idents' = Append(idents, id)
           /\ scopes' = InsertUsual(scope, n, NewIdent) /\ Denotes("member", NewIdent)
           /\ UNCHANGED <<scope, types, open, code>>
  <2>1. id \in IdentType /\ id.linkage = "none" /\ id.kind = "object"
    <3>1. 0 \in 0 .. Len(scopes)
      BY <1>1, Domains
    <3> QED
      BY <1>1, <3>1 DEF Ident, IdentType, IdentKinds, Linkages, Storages, IntType, Types
  <2>2. scopes' = [scopes EXCEPT ![scope] = e]
    BY <1>3 DEF InsertUsual
  <2>3. /\ e \in ScopeType /\ e.type = scopes[scope].type /\ e.chain = scopes[scope].chain
        /\ \A m \in Names : e.usual[m] = IF m = n THEN NewIdent ELSE scopes[scope].usual[m]
        /\ e.tags = scopes[scope].tags
    <3>1. scopes[scope] \in ScopeType /\ NewIdent \in Nat
      BY <1>1, Domains DEF NewIdent
    <3> QED
      BY <3>1 DEF ScopeType
  <2> HIDE DEF id, e, IdentType, ScopeType
  <2>4. /\ idents' = idents \o <<id>> /\ <<id>> \in Seq(IdentType) /\ Len(<<id>>) = 1
        /\ NewIdent \in 1 .. Len(idents) + 1
        /\ \A j \in DOMAIN <<id>> : <<id>>[j] = id
    <3>1. idents \in Seq(IdentType) /\ Len(idents) \in Nat
      BY <1>1, Domains DEF TablesOK
    <3> QED
      BY <1>3, <2>1, <3>1, AppendIsConcat DEF NewIdent
  <2>5. NoTag \in Tags \cup {NoTag} /\ \A u \in Tags : u # NoTag
    BY DeclaratorsAssumption
  <2>6. /\ TablesOK' /\ KindsOK' /\ Kept /\ KeptEntries({scope})
        /\ Len(idents') = Len(idents) + 1
    <3> DEFINE new == <<id>>
    <3>1. /\ new \in Seq(IdentType) /\ Len(new) = 1 /\ idents' = idents \o new
          /\ NewIdent \in 1 .. Len(idents) + Len(new)
          /\ \A j \in DOMAIN new : new[j].linkage = "none" /\ new[j].kind # "func"
      BY <2>1, <2>4
    <3>2. \A u \in Tags : e.tags[u] = IF u = NoTag THEN NewIdent ELSE scopes[scope].tags[u]
      BY <2>3, <2>5
    <3> HIDE DEF new
    <3>3. Len(new) >= 1
      BY <3>1
    <3>4. UNCHANGED types /\ scopes[scope].usual[n] = 0
      BY <1>3
    <3>5. Entered(scope, n, NoTag, new, NewIdent, e)
      BY <1>1, <2>2, <2>3, <2>5, <3>1, <3>2, <3>3, <3>4 DEF Entered
    <3> QED
      BY <1>1, <3>1, <3>4, <3>5, NewNames
  <2>7. StackOK'
    BY <1>1, <1>3, <2>6, StackKept
  <2>8. NewIdent \in 0 .. Len(idents') /\ Len(idents) <= Len(idents')
    BY <1>1, <2>6, Domains DEF NewIdent
  <2>9. ReportOK'
    BY <1>1, <1>3, <2>6, <2>8, Reported DEF Acts
  <2>10. KeptEntries({scope, scope'})
    BY <2>6, WiderEntries
  <2> QED
    BY <2>6, <2>7, <2>9, <2>10 DEF SInv
<1> QED
  BY <1>2, <1>3 DEF Member, FindUsualInCurrScope

LEMMA EnumStep ==
  ASSUME SInv, NEW t \in Tags \cup {NoTag}, NEW n \in Names, Enum(t, n)
  PROVE  SInv' /\ KeptEntries({scope, scope'})
<1> DEFINE tag == IF t = NoTag THEN 0 ELSE FindTagInCurrScope(scope, t)
           head == Ident("tag", t, IntType, "none", "", scope)
           first == IF t = NoTag THEN <<>> ELSE <<head>>
           id == Ident("enumerator", n, IntType, "none", "", scope)
           i == NewIdent + Len(first)
           new == first \o <<id>>
           e == [scopes[scope] EXCEPT
                   !.tags = [u \in Tags |-> IF u = t THEN NewIdent ELSE @[u]],
                   !.usual = [m \in Names |-> IF m = n THEN i ELSE @[m]]]
<1>1. TablesOK /\ KindsOK /\ StackOK /\ ReportOK /\ scope \in DOMAIN scopes
  BY DEF SInv, StackOK
<1>2. CASE Stop("error")
  BY <1>2, Stopped
<1>3. CASE /\ tag = 0 /\ scopes[scope].usual[n] = 0
           /\ idents' = idents \o first \o <<id>>
           /\ scopes' = [InsertTag(scope, t, NewIdent) EXCEPT ![scope].usual[n] = i]
           /\ Denotes("declare", i) /\ UNCHANGED <<scope, types, open, code>>
  <2>1. /\ id \in IdentType /\ id.linkage = "none" /\ id.kind = "enumerator"
        /\ t # NoTag => head \in IdentType /\ head.linkage = "none" /\ head.kind = "tag"
                        /\ head.ty.k = "int"
    <3>1. 0 \in 0 .. Len(scopes)
      BY <1>1, Domains
    <3> QED
      BY <1>1, <3>1 DEF Ident, IdentType, IdentKinds, Linkages, Storages, IntType, Types
  <2>2. t # NoTag => scopes[scope].tags[t] = 0
    BY <1>3 DEF FindTagInCurrScope
  <2> HIDE DEF id, head, IdentType
  <2>3. /\ first \in Seq(IdentType) /\ Len(first) = IF t = NoTag THEN 0 ELSE 1
        /\ \A j \in DOMAIN first : t # NoTag /\ first[j] = head
    BY <2>1
  <2>4. /\ new \in Seq(IdentType) /\ Len(new) = Len(first) + 1
        /\ t # NoTag => new[1] = head
        /\ \A j \in DOMAIN new : \/ new[j] = id
                                 \/ t # NoTag /\ new[j] = head
    <3>1. CASE t = NoTag
      BY <2>1, <3>1
    <3>2. CASE t # NoTag
      <4>1. /\ first \in Seq(IdentType) /\ Len(first) = 1 /\ first[1] = head
            /\ <<id>> \in Seq(IdentType) /\ Len(<<id>>) = 1 /\ <<id>>[1] = id
        BY <2>1, <3>2
      <4> HIDE DEF first
      <4>2. /\ new \in Seq(IdentType) /\ Len(new) = 2 /\ new[1] = head
            /\ DOMAIN new = 1 .. 2 /\ new[2] = id
        BY <4>1, ConcatProperties
      <4> QED
        BY <2>3, <3>2, <4>2
    <3> QED
      BY <3>1, <3>2
  <2>5. idents' = idents \o new
    <3>1. idents \in Seq(IdentType) /\ <<id>> \in Seq(IdentType)
      BY <1>1, <2>1 DEF TablesOK
    <3> HIDE DEF first
    <3> QED
      BY <1>3, <2>3, <3>1, ConcatAssociative
  <2>6. /\ i \in 1 .. Len(idents) + Len(new) /\ i \in Nat /\ NewIdent \in Nat
        /\ i \in 0 .. Len(idents) + Len(new) /\ Len(new) >= 1
    BY <1>1, <2>3, <2>4, Domains DEF NewIdent
  <2> HIDE DEF first, i, new
  <2>7. /\ e \in ScopeType /\ e.type = scopes[scope].type /\ e.chain = scopes[scope].chain
        /\ \A m \in Names : e.usual[m] = IF m = n THEN i ELSE scopes[scope].usual[m]
        /\ \A u \in Tags : e.tags[u] = IF u = t THEN NewIdent ELSE scopes[scope].tags[u]
    BY <1>1, <2>6, Domains DEF ScopeType
  <2>8. scopes' = [scopes EXCEPT ![scope] = e]
    <3>1. scopes[scope] \in ScopeType
      BY <1>1, Domains
    <3>2. e = [[scopes[scope] EXCEPT !.tags = [u \in Tags |-> IF u = t THEN NewIdent ELSE @[u]]]
                 EXCEPT !.usual[n] = i]
      BY <3>1 DEF ScopeType
    <3>3. CASE t # NoTag
      <4>1. [scopes[scope] EXCEPT !.tags = [u \in Tags |-> IF u = t THEN NewIdent ELSE @[u]]]
            = [scopes[scope] EXCEPT !.tags[t] = NewIdent]
        BY <3>1, <3>3 DEF ScopeType
      <4> QED
        BY <1>3, <3>2, <3>3, <4>1 DEF InsertTag
    <3>4. CASE t = NoTag
      <4>1. [scopes[scope] EXCEPT !.tags = [u \in Tags |-> IF u = t THEN NewIdent ELSE @[u]]]
            = scopes[scope]
        BY <3>1, <3>4, DeclaratorsAssumption DEF ScopeType
      <4> QED
        BY <1>3, <3>2, <3>4, <4>1 DEF InsertTag
    <3> QED
      BY <3>3, <3>4
  <2> HIDE DEF e, ScopeType
  <2>9. /\ TablesOK' /\ KindsOK' /\ Kept /\ KeptEntries({scope})
        /\ Len(idents') = Len(idents) + Len(new)
    <3>1. \A j \in DOMAIN new : new[j].linkage = "none" /\ new[j].kind # "func"
      BY <2>1, <2>4
    <3>2. t # NoTag => new[1].kind = "tag" /\ new[1].ty.k # "struct"
      BY <2>1, <2>4
    <3>3. UNCHANGED types /\ scopes[scope].usual[n] = 0
      BY <1>3
    <3>4. Entered(scope, n, t, new, i, e)
      BY <1>1, <2>2, <2>4, <2>5, <2>6, <2>7, <2>8, <3>1, <3>2, <3>3 DEF Entered
    <3> QED
      BY <1>1, <3>3, <3>4, NewNames
  <2>10. StackOK'
    BY <1>1, <1>3, <2>9, StackKept
  <2>11. i \in 0 .. Len(idents') /\ Len(idents) <= Len(idents')
    BY <1>1, <2>6, <2>9, Domains DEF Kept
  <2>12. ReportOK'
    BY <1>1, <1>3, <2>9, <2>11, Reported DEF Acts
  <2>13. KeptEntries({scope, scope'})
    BY <2>9, WiderEntries
  <2> QED
    BY <2>9, <2>10, <2>12, <2>13 DEF SInv
<1> QED
  BY <1>2, <1>3 DEF Enum, FindUsualInCurrScope

LEMMA ExitStructStep ==
  ASSUME SInv, ExitStruct
  PROVE  SInv' /\ KeptEntries({scope, scope'})
<1> DEFINE tags == scopes[scope].tags
           back == open[1].back
           y == open[1].type
           e == [scopes[back] EXCEPT
                   !.tags = [t \in Tags |-> IF tags[t] # 0 THEN tags[t] ELSE @[t]]]
           c == [types[y] EXCEPT !.complete = TRUE]
<1>1. TablesOK /\ KindsOK /\ StackOK /\ ReportOK /\ scope \in DOMAIN scopes
  BY DEF SInv, StackOK
<1>2. CASE Stop("error")
  BY <1>2, Stopped
<1>3. CASE /\ \A t \in Tags : tags[t] # 0 => scopes[back].tags[t] = 0
           /\ scopes' = [scopes EXCEPT
                ![back].tags = [t \in Tags |-> IF tags[t] # 0 THEN tags[t] ELSE @[t]]]
           /\ types' = [types EXCEPT ![y].complete = TRUE]
           /\ scope' = back /\ open' = Tail(open) /\ Denotes("exit", 0)
           /\ UNCHANGED <<idents, code>>
  <2>1. open # <<>> /\ open[1].what = "struct" /\ 1 \in DOMAIN open
    BY <1>1 DEF ExitStruct, In, StackOK
  <2>2. back \in DOMAIN scopes /\ y \in DOMAIN types
    BY <1>1, <2>1 DEF StackOK, ScopeRestored, OpenOK
  <2>3. scopes' = [scopes EXCEPT ![back] = e] /\ types' = [types EXCEPT ![y] = c]
    BY <1>3
  <2> HIDE DEF back, y
  <2>4. scopes[back] \in ScopeType /\ scopes[scope] \in ScopeType
    BY <1>1, <2>2, Domains
  <2>5. /\ e \in ScopeType /\ e.type = scopes[back].type /\ e.chain = scopes[back].chain
        /\ e.usual = scopes[back].usual
        /\ \A t \in Tags : /\ e.tags[t] \in {scopes[scope].tags[t], scopes[back].tags[t]}
                           /\ scopes[back].tags[t] \in {0, e.tags[t]}
    BY <1>3, <2>4 DEF ScopeType
  <2>6. c \in [scope : DOMAIN scopes, complete : BOOLEAN] /\ c.scope = types[y].scope
    BY <1>1, <2>2, Domains
  <2> HIDE DEF e, c
  <2>7. TablesOK' /\ KindsOK' /\ Kept /\ KeptEntries({back})
    <3>1. UNCHANGED idents
      BY <1>3
    <3> HIDE DEF ScopeType
    <3> QED
      BY <1>1, <2>2, <2>3, <2>5, <2>6, <3>1, ExitStructTables
  <2>8. StackOK'
    BY <1>1, <1>3, <2>1, <2>7, StackPopped DEF back
  <2>9. 0 \in 0 .. Len(idents') /\ Len(idents) <= Len(idents')
    BY <1>1, <1>3, Domains
  <2>10. ReportOK'
    BY <1>1, <1>3, <2>7, <2>9, Reported DEF Acts
  <2>11. KeptEntries({scope, scope'})
    BY <1>3, <2>7, WiderEntries
  <2> QED
    BY <2>7, <2>8, <2>10, <2>11 DEF SInv
<1> QED
  BY <1>2, <1>3 DEF ExitStruct

LEMMA ScopesStep ==
  ASSUME SInv, ScopesNext
  PROVE  SInv' /\ KeptEntries({scope, scope'})
<1>1. CASE \E d \in Decls : Declare(d) \/ EnterProto(d)
  BY <1>1, DeclareStep, EnterProtoStep
<1>2. CASE ExitProto \/ EnterBody \/ EnterBlock \/ ExitBlock \/ ExitStruct
  BY <1>2, ExitProtoStep, EnterBodyStep, EnterBlockStep, ExitBlockStep, ExitStructStep
<1>3. CASE \E n \in Names : Use(n) \/ Name(n) \/ Member(n)
  BY <1>3, UseStep, MemberStep
<1>4. CASE \E t \in Tags \cup {NoTag} : EnterStruct(t) \/ \E n \in Names : Enum(t, n)
  BY <1>4, EnterStructStep, EnumStep
<1>5. CASE \E t \in Tags : TagSpecifier(t) \/ EnumSpecifier(t)
  BY <1>5, TagSpecifierStep, EnumSpecifierStep
<1> QED
  BY <1>1, <1>2, <1>3, <1>4, <1>5 DEF ScopesNext

LEMMA ScopesStart == ScopesInit => SInv
<1> SUFFICES ASSUME ScopesInit PROVE SInv
  OBVIOUS
<1>1. TablesOK /\ KindsOK
  <2>1. scopes \in Seq(ScopeType) /\ DOMAIN scopes = {1}
    BY DEF ScopesInit, ScopeType, ScopeTypes
  <2>2. idents = <<>> /\ types = <<>> /\ DOMAIN idents = {} /\ DOMAIN types = {}
    BY DEF ScopesInit
  <2>3. EntriesOK
    BY <2>1, <2>2 DEF ScopesInit, EntriesOK, EntriesOf
  <2> QED
    BY <2>1, <2>2, <2>3 DEF TablesOK, KindsOK
<1>2. StackOK
  BY DEF ScopesInit, StackOK, ScopeRestored, OpenOK, ScopeAt
<1>3. ReportOK
  BY DEF ScopesInit, ReportOK, Acts
<1> QED
  BY <1>1, <1>2, <1>3 DEF SInv

LEMMA ScopesKeep ==
  ASSUME SInv, [ScopesNext]_svars
  PROVE  SInv'
<1>1. CASE UNCHANGED svars
  <2>1. ReportOK'
    BY <1>1 DEF svars, SInv, ReportOK
  <2> QED
    BY <1>1, <2>1, Unmoved DEF svars
<1> QED
  BY <1>1, ScopesStep

LEMMA ScopesInvariant == ScopesSpec => []SInv
<1>1. SInv /\ [ScopesNext]_svars => SInv'
  BY ScopesKeep
<1> QED
  BY <1>1, ScopesStart, PTL DEF ScopesSpec

---------------------------------------------------------------------------
(* How the scopes lie in each other.                                         *)

\* A member list is a scope of kcc and none of C. Within: the scopes around
\* r with nothing but member lists between.
ListScopes == {types[ty].scope : ty \in DOMAIN types}

Within ==
  [r \in DOMAIN scopes |->
     {s \in DOMAIN scopes :
        \E m \in DOMAIN scopes[r].chain :
          scopes[r].chain[m] = s /\ \A p \in 1 .. m - 1 : scopes[r].chain[p] \in ListScopes}]

ChainOK(s) ==
  LET c == scopes[s].chain
  IN  /\ \A p \in DOMAIN c :
           /\ Len(scopes[c[p]].chain) = Len(c) - p + 1
           /\ \A q \in 1 .. Len(c) - p + 1 : scopes[c[p]].chain[q] = c[p + q - 1]
           /\ (scopes[c[p]].type = "file") = (p = Len(c))
      /\ s \notin ListScopes => \A p \in DOMAIN c : c[p] \notin ListScopes

ChainsOK ==
  /\ 1 \in DOMAIN scopes /\ scopes[1].type = "file"
  /\ \A s \in DOMAIN scopes : ChainOK(s)
  /\ \A a, b \in DOMAIN types : types[a].scope = types[b].scope => a = b

---------------------------------------------------------------------------
(* Chains of scopes.                                                         *)

\* A chain leads from its scope through scopes there are.
LEMMA Chains ==
  ASSUME TablesOK, NEW s \in DOMAIN scopes
  PROVE  LET c == scopes[s].chain
         IN  /\ Len(c) \in Nat /\ Len(c) >= 1 /\ DOMAIN c = 1 .. Len(c)
             /\ c[1] = s /\ \A p \in 1 .. Len(c) : c[p] \in DOMAIN scopes
<1> DEFINE c == scopes[s].chain
<1>1. /\ Len(c) \in Nat /\ DOMAIN c = 1 .. Len(c) /\ 1 \in DOMAIN c
      /\ c[1] = s /\ \A p \in DOMAIN c : c[p] \in DOMAIN scopes
  BY ScopeKnown
<1> QED
  BY <1>1

\* What Within says.
LEMMA InsideAt ==
  ASSUME TablesOK, NEW r \in DOMAIN scopes, NEW s
  PROVE  s \in Within[r] <=>
           \E m \in DOMAIN scopes[r].chain :
             scopes[r].chain[m] = s /\ \A p \in 1 .. m - 1 : scopes[r].chain[p] \in ListScopes
<1>1. \A m \in DOMAIN scopes[r].chain : scopes[r].chain[m] \in DOMAIN scopes
  BY ScopeKnown
<1> QED
  BY <1>1 DEF Within

\* A scope is within itself, what is around it is a scope, and what is
\* around that is around it too.
LEMMA InsideSelf ==
  ASSUME TablesOK, NEW s \in DOMAIN scopes
  PROVE  s \in Within[s]
<1>1. 1 \in DOMAIN scopes[s].chain /\ scopes[s].chain[1] = s
  BY Chains
<1> QED
  BY <1>1, InsideAt

LEMMA InsideScope ==
  ASSUME TablesOK, NEW r \in DOMAIN scopes, NEW s, s \in Within[r]
  PROVE  s \in DOMAIN scopes
BY Chains, InsideAt

LEMMA InsideTrans ==
  ASSUME TablesOK, ChainsOK, NEW r \in DOMAIN scopes, NEW s, NEW u,
         s \in Within[r], u \in Within[s]
  PROVE  u \in Within[r]
<1> DEFINE c == scopes[r].chain
           e == scopes[s].chain
<1>1. PICK m \in DOMAIN c : c[m] = s /\ \A p \in 1 .. m - 1 : c[p] \in ListScopes
  BY InsideAt
<1>2. PICK k \in DOMAIN e : e[k] = u /\ \A p \in 1 .. k - 1 : e[p] \in ListScopes
  BY InsideScope, InsideAt
<1>3. /\ Len(c) \in Nat /\ DOMAIN c = 1 .. Len(c)
      /\ Len(e) \in Nat /\ DOMAIN e = 1 .. Len(e)
  BY <1>1, Chains
<1>4. Len(e) = Len(c) - m + 1 /\ \A q \in 1 .. Len(c) - m + 1 : e[q] = c[m + q - 1]
  <2>1. ChainOK(r)
    BY DEF ChainsOK
  <2> QED
    BY <1>1, <2>1 DEF ChainOK
<1> HIDE DEF c, e
<1> DEFINE j == m + k - 1
<1>5. j \in DOMAIN c /\ c[j] = u
  BY <1>1, <1>2, <1>3, <1>4
<1>6. ASSUME NEW p \in 1 .. j - 1 PROVE c[p] \in ListScopes
  <2>1. CASE p <= m - 1
    BY <1>1, <1>3, <2>1
  <2>2. CASE p >= m
    <3>1. p - m + 1 \in 1 .. k - 1 /\ p - m + 1 \in 1 .. Len(c) - m + 1
      BY <1>1, <1>2, <1>3, <1>4, <2>2
    <3>2. e[p - m + 1] = c[m + (p - m + 1) - 1] /\ m + (p - m + 1) - 1 = p
      BY <1>1, <1>3, <1>4, <3>1
    <3> QED
      BY <1>2, <3>1, <3>2
  <2> QED
    BY <1>1, <1>3, <2>1, <2>2
<1> HIDE DEF j
<1> QED
  BY <1>5, <1>6, InsideAt DEF c

\* There is one scope around that is no member list.
LEMMA InsideUnique ==
  ASSUME TablesOK, NEW r \in DOMAIN scopes, NEW s, NEW u,
         s \in Within[r], u \in Within[r], s \notin ListScopes, u \notin ListScopes
  PROVE  s = u
<1> DEFINE c == scopes[r].chain
<1>1. PICK m \in DOMAIN c : c[m] = s /\ \A p \in 1 .. m - 1 : c[p] \in ListScopes
  BY InsideAt
<1>2. PICK k \in DOMAIN c : c[k] = u /\ \A p \in 1 .. k - 1 : c[p] \in ListScopes
  BY InsideAt
<1>3. DOMAIN c = 1 .. Len(c) /\ Len(c) \in Nat
  BY Chains
<1> HIDE DEF c
<1>4. ~(m < k) /\ ~(k < m)
  BY <1>1, <1>2, <1>3
<1>5. m = k
  BY <1>3, <1>4
<1> QED
  BY <1>1, <1>2, <1>5

\* The chain of a scope that is on a chain is the rest of it.
LEMMA Rest ==
  ASSUME TablesOK, ChainsOK, NEW s \in DOMAIN scopes,
         NEW p \in DOMAIN scopes[s].chain
  PROVE  LET c == scopes[s].chain
             e == scopes[c[p]].chain
         IN  /\ c[p] \in DOMAIN scopes /\ Len(e) = Len(c) - p + 1
             /\ \A q \in 1 .. Len(e) : e[q] = c[p + q - 1] /\ p + q - 1 \in DOMAIN c
             /\ (scopes[c[p]].type = "file") = (p = Len(c))
             /\ s \notin ListScopes => c[p] \notin ListScopes
<1> DEFINE c == scopes[s].chain
           e == scopes[c[p]].chain
<1>1. c[p] \in DOMAIN scopes /\ DOMAIN c = 1 .. Len(c) /\ Len(c) \in Nat /\ p \in DOMAIN c
  BY Chains
<1>2. /\ Len(e) = Len(c) - p + 1
      /\ \A q \in 1 .. Len(c) - p + 1 : e[q] = c[p + q - 1]
      /\ (scopes[c[p]].type = "file") = (p = Len(c))
      /\ s \notin ListScopes => c[p] \notin ListScopes
  BY DEF ChainsOK, ChainOK
<1> HIDE DEF c, e
<1>3. \A q \in 1 .. Len(e) : p + q - 1 \in DOMAIN c
  BY <1>1, <1>2
<1> QED
  BY <1>1, <1>2, <1>3 DEF c, e

\* Of two scopes of a chain that is not a list's, none is inside another.
LEMMA ChainDistinct ==
  ASSUME TablesOK, ChainsOK, NEW s \in DOMAIN scopes,
         NEW p \in DOMAIN scopes[s].chain, NEW q \in DOMAIN scopes[s].chain,
         scopes[s].chain[p] = scopes[s].chain[q]
  PROVE  p = q
<1>1. p \in Nat /\ q \in Nat /\ Len(scopes[s].chain) \in Nat
  BY Chains
<1>2. Len(scopes[s].chain) - p + 1 = Len(scopes[s].chain) - q + 1
  BY Rest
<1> QED
  BY <1>1, <1>2

---------------------------------------------------------------------------
(* Steps that keep the chains.                                              *)

\* The scopes keep their types and chains, and no list is made.
SameChains ==
  /\ Len(scopes') = Len(scopes) /\ Len(types') = Len(types)
  /\ \A s \in DOMAIN scopes :
       scopes'[s].type = scopes[s].type /\ scopes'[s].chain = scopes[s].chain
  /\ \A y \in DOMAIN types : types'[y].scope = types[y].scope

\* Then the same scopes are around each.
LEMMA SameLists ==
  ASSUME TablesOK, TablesOK', SameChains
  PROVE  /\ DOMAIN scopes' = DOMAIN scopes /\ DOMAIN types' = DOMAIN types
         /\ ListScopes' = ListScopes /\ Within' = Within
<1>1. DOMAIN scopes' = DOMAIN scopes /\ DOMAIN types' = DOMAIN types
  BY Domains DEF TablesOK, SameChains
<1>2. ListScopes' = ListScopes
  BY <1>1 DEF ListScopes, SameChains
<1>3. \A r \in DOMAIN scopes : scopes'[r].chain = scopes[r].chain
  BY DEF SameChains
<1>4. Within' = Within
  BY <1>1, <1>2, <1>3 DEF Within
<1> QED
  BY <1>1, <1>2, <1>4

LEMMA KeptChains ==
  ASSUME TablesOK, TablesOK', ChainsOK, SameChains
  PROVE  ChainsOK'
<1>1. /\ DOMAIN scopes' = DOMAIN scopes /\ DOMAIN types' = DOMAIN types
      /\ ListScopes' = ListScopes
  BY SameLists
<1>2. ASSUME NEW s \in DOMAIN scopes PROVE ChainOK(s)'
  <2> DEFINE c == scopes[s].chain
  <2>1. scopes'[s].chain = c /\ \A p \in DOMAIN c : c[p] \in DOMAIN scopes
    BY Chains DEF SameChains
  <2>2. \A p \in DOMAIN c : scopes'[c[p]].chain = scopes[c[p]].chain
                            /\ scopes'[c[p]].type = scopes[c[p]].type
    BY <2>1 DEF SameChains
  <2>3. \A p \in DOMAIN c :
          /\ Len(scopes[c[p]].chain) = Len(c) - p + 1
          /\ \A q \in 1 .. Len(c) - p + 1 : scopes[c[p]].chain[q] = c[p + q - 1]
          /\ (scopes[c[p]].type = "file") = (p = Len(c))
    BY DEF ChainsOK, ChainOK
  <2>4. s \notin ListScopes => \A p \in DOMAIN c : c[p] \notin ListScopes
    BY DEF ChainsOK, ChainOK
  <2> HIDE DEF c
  <2>5. \A p \in DOMAIN c :
          /\ Len(scopes'[c[p]].chain) = Len(c) - p + 1
          /\ \A q \in 1 .. Len(c) - p + 1 : scopes'[c[p]].chain[q] = c[p + q - 1]
          /\ (scopes'[c[p]].type = "file") = (p = Len(c))
    BY <2>2, <2>3
  <2>6. s \notin ListScopes' => \A p \in DOMAIN c : c[p] \notin ListScopes'
    BY <1>1, <2>4
  <2> QED
    BY <2>1, <2>5, <2>6 DEF ChainOK
<1>3. \A a, b \in DOMAIN types' : types'[a].scope = types'[b].scope => a = b
  BY <1>1 DEF ChainsOK, SameChains
<1>4. 1 \in DOMAIN scopes' /\ scopes'[1].type = "file"
  BY <1>1 DEF ChainsOK, SameChains
<1> QED
  BY <1>1, <1>2, <1>3, <1>4 DEF ChainsOK

\* One more scope, whose parent is s.
Grown(s) ==
  LET new == Len(scopes) + 1
  IN  /\ Len(scopes') = new /\ scopes'[new].type # "file"
      /\ scopes'[new].chain = <<new>> \o scopes[s].chain
      /\ \A r \in DOMAIN scopes :
           scopes'[r].type = scopes[r].type /\ scopes'[r].chain = scopes[r].chain

\* The chain of the new scope is that of its parent, with one more.
LEMMA GrownChain ==
  ASSUME TablesOK, NEW s \in DOMAIN scopes, Grown(s)
  PROVE  LET new == Len(scopes) + 1
             c == scopes[s].chain
             e == scopes'[new].chain
         IN  /\ new \in Nat /\ new \notin DOMAIN scopes
             /\ Len(e) = Len(c) + 1 /\ e[1] = new /\ DOMAIN e = 1 .. Len(c) + 1
             /\ \A p \in DOMAIN c : e[p + 1] = c[p]
             /\ \A p \in DOMAIN e : p # 1 => p - 1 \in DOMAIN c /\ e[p] = c[p - 1]
<1> DEFINE new == Len(scopes) + 1
           c == scopes[s].chain
           e == scopes'[new].chain
<1>1. new \in Nat /\ new \notin DOMAIN scopes
  BY Domains
<1>2. c \in Seq(Nat) /\ Len(c) \in Nat /\ DOMAIN c = 1 .. Len(c)
  BY Domains, Chains DEF ScopeType
<1>3. e = <<new>> \o c
  BY DEF Grown
<1> HIDE DEF new, c, e
<1>4. Len(e) = Len(c) + 1 /\ \A p \in 1 .. Len(c) + 1 : e[p] = IF p = 1 THEN new ELSE c[p - 1]
  BY <1>1, <1>2, <1>3
<1>5. e \in Seq(Nat)
  BY <1>1, <1>2, <1>3
<1>6. DOMAIN e = 1 .. Len(c) + 1
  BY <1>4, <1>5
<1>7. e[1] = new
  BY <1>2, <1>4
<1>8. \A p \in DOMAIN c : e[p + 1] = c[p]
  <2> TAKE p \in DOMAIN c
  <2>1. p + 1 \in 1 .. Len(c) + 1 /\ p + 1 # 1 /\ p + 1 - 1 = p
    BY <1>2
  <2> QED
    BY <1>4, <2>1
<1>9. \A p \in DOMAIN e : p # 1 => p - 1 \in DOMAIN c /\ e[p] = c[p - 1]
  BY <1>2, <1>4, <1>6
<1> QED
  BY <1>1, <1>4, <1>6, <1>7, <1>8, <1>9 DEF new, c, e

\* The scopes that were keep what is around them.
LEMMA GrownWithin ==
  ASSUME TablesOK, TablesOK', ChainsOK, NEW s \in DOMAIN scopes, Grown(s),
         \A r \in DOMAIN scopes : (r \in ListScopes') = (r \in ListScopes),
         Len(scopes) + 1 \notin ListScopes' => s \notin ListScopes
  PROVE  LET new == Len(scopes) + 1
         IN  /\ DOMAIN scopes' = DOMAIN scopes \cup {new}
             /\ \A q \in DOMAIN scopes' : ChainOK(q)'
             /\ \A r \in DOMAIN scopes : Within'[r] = Within[r]
             /\ new \in ListScopes' => Within'[new] = {new} \cup Within[s]
             /\ new \notin ListScopes' => Within'[new] = {new}
<1> DEFINE new == Len(scopes) + 1
           c == scopes[s].chain
           e == scopes'[new].chain
<1>0. /\ new \in Nat /\ new \notin DOMAIN scopes
      /\ Len(e) = Len(c) + 1 /\ e[1] = new /\ DOMAIN e = 1 .. Len(c) + 1
      /\ \A p \in DOMAIN c : e[p + 1] = c[p]
      /\ \A p \in DOMAIN e : p # 1 => p - 1 \in DOMAIN c /\ e[p] = c[p - 1]
  BY GrownChain
<1>1. DOMAIN scopes' = DOMAIN scopes \cup {new}
  <2>1. DOMAIN scopes' = 1 .. Len(scopes) + 1 /\ DOMAIN scopes = 1 .. Len(scopes) /\ Len(scopes) \in Nat
    BY Domains DEF TablesOK, Grown
  <2> QED
    BY <2>1
<1>2. \A r \in DOMAIN scopes : scopes'[r].type = scopes[r].type /\ scopes'[r].chain = scopes[r].chain
  BY DEF Grown
<1>3. /\ Len(c) \in Nat /\ Len(c) >= 1 /\ DOMAIN c = 1 .. Len(c) /\ c[1] = s
      /\ \A p \in DOMAIN c : c[p] \in DOMAIN scopes
  BY Chains
<1>4. scopes'[new].type # "file"
  BY DEF Grown
<1> HIDE DEF e
<1>5. ASSUME NEW q \in DOMAIN scopes PROVE ChainOK(q)'
  <2> DEFINE f == scopes[q].chain
  <2>1. scopes'[q].chain = f /\ \A p \in DOMAIN f : f[p] \in DOMAIN scopes
    BY <1>2, Chains
  <2>2. \A p \in DOMAIN f :
          /\ Len(scopes[f[p]].chain) = Len(f) - p + 1
          /\ \A i \in 1 .. Len(f) - p + 1 : scopes[f[p]].chain[i] = f[p + i - 1]
          /\ (scopes[f[p]].type = "file") = (p = Len(f))
    BY DEF ChainsOK, ChainOK
  <2>3. q \notin ListScopes => \A p \in DOMAIN f : f[p] \notin ListScopes
    BY DEF ChainsOK, ChainOK
  <2> HIDE DEF f
  <2>4. \A p \in DOMAIN f :
          /\ Len(scopes'[f[p]].chain) = Len(f) - p + 1
          /\ \A i \in 1 .. Len(f) - p + 1 : scopes'[f[p]].chain[i] = f[p + i - 1]
          /\ (scopes'[f[p]].type = "file") = (p = Len(f))
    <3> TAKE p \in DOMAIN f
    <3>1. scopes'[f[p]].type = scopes[f[p]].type /\ scopes'[f[p]].chain = scopes[f[p]].chain
      BY <1>2, <2>1
    <3> QED
      BY <2>2, <3>1
  <2>5. q \notin ListScopes' => \A p \in DOMAIN f : f[p] \notin ListScopes'
    BY <2>1, <2>3
  <2> QED
    BY <2>1, <2>4, <2>5 DEF ChainOK
<1>6. ASSUME NEW q, q = new PROVE ChainOK(q)'
  <2>1. \A p \in DOMAIN c :
          /\ Len(scopes[c[p]].chain) = Len(c) - p + 1
          /\ \A i \in 1 .. Len(c) - p + 1 : scopes[c[p]].chain[i] = c[p + i - 1]
          /\ (scopes[c[p]].type = "file") = (p = Len(c))
    BY DEF ChainsOK, ChainOK
  <2>2. s \notin ListScopes => \A p \in DOMAIN c : c[p] \notin ListScopes
    BY DEF ChainsOK, ChainOK
  <2> HIDE DEF c, new
  <2>3. ASSUME NEW p \in DOMAIN e
        PROVE  /\ Len(scopes'[e[p]].chain) = Len(e) - p + 1
               /\ \A i \in 1 .. Len(e) - p + 1 : scopes'[e[p]].chain[i] = e[p + i - 1]
               /\ (scopes'[e[p]].type = "file") = (p = Len(e))
    <3>1. CASE p = 1
      <4>1. scopes'[e[p]].chain = e /\ scopes'[e[p]].type # "file" /\ Len(e) # 1
        BY <1>0, <1>3, <1>4, <3>1 DEF e
      <4> QED
        BY <1>0, <1>3, <3>1, <4>1
    <3>2. CASE p # 1
      <4>1. /\ p - 1 \in DOMAIN c /\ e[p] = c[p - 1] /\ e[p] \in DOMAIN scopes /\ p \in Nat
            /\ scopes'[e[p]].type = scopes[c[p - 1]].type
            /\ scopes'[e[p]].chain = scopes[c[p - 1]].chain
        BY <1>0, <1>2, <1>3, <3>2
      <4>2. /\ Len(scopes[c[p - 1]].chain) = Len(c) - (p - 1) + 1
            /\ \A i \in 1 .. Len(c) - (p - 1) + 1 : scopes[c[p - 1]].chain[i] = c[p - 1 + i - 1]
            /\ (scopes[c[p - 1]].type = "file") = (p - 1 = Len(c))
        BY <2>1, <4>1
      <4>3. ASSUME NEW i \in 1 .. Len(e) - p + 1 PROVE scopes'[e[p]].chain[i] = e[p + i - 1]
        <5>1. i \in 1 .. Len(c) - (p - 1) + 1 /\ p - 1 + i - 1 \in DOMAIN c /\ p - 1 + i - 1 + 1 = p + i - 1
          BY <1>0, <1>3, <4>1
        <5> QED
          BY <1>0, <4>1, <4>2, <5>1
      <4> QED
        BY <1>0, <1>3, <4>1, <4>2, <4>3
    <3> QED
      BY <3>1, <3>2
  <2>4. new \notin ListScopes' => \A p \in DOMAIN e : e[p] \notin ListScopes'
    <3>1. ASSUME new \notin ListScopes', NEW p \in DOMAIN e PROVE e[p] \notin ListScopes'
      <4>1. s \notin ListScopes
        BY <3>1 DEF new
      <4>2. CASE p = 1
        BY <1>0, <3>1, <4>2
      <4>3. CASE p # 1
        BY <1>0, <1>3, <2>2, <4>1, <4>3
      <4> QED
        BY <4>2, <4>3
    <3> QED
      BY <3>1
  <2>5. e = scopes'[q].chain
    BY <1>6 DEF e
  <2> QED
    BY <1>6, <2>3, <2>4, <2>5 DEF ChainOK
<1>7. ASSUME NEW r \in DOMAIN scopes PROVE Within'[r] = Within[r]
  <2> DEFINE f == scopes[r].chain
  <2>1. scopes'[r].chain = f /\ DOMAIN f \subseteq Nat /\ DOMAIN f = 1 .. Len(f) /\ \A p \in DOMAIN f : f[p] \in DOMAIN scopes
    BY <1>2, Chains
  <2>2. /\ Within[r] = {u \in DOMAIN scopes : \E m \in DOMAIN f : f[m] = u /\ \A p \in 1 .. m - 1 : f[p] \in ListScopes}
        /\ Within'[r] = {u \in DOMAIN scopes' : \E m \in DOMAIN f : f[m] = u /\ \A p \in 1 .. m - 1 : f[p] \in ListScopes'}
    BY <1>1, <2>1 DEF Within
  <2>3. Len(f) \in Nat
    BY Chains
  <2> HIDE DEF f, new
  <2>4. \A m \in DOMAIN f : \A p \in 1 .. m - 1 : (f[p] \in ListScopes) = (f[p] \in ListScopes')
    BY <2>1, <2>3
  <2>5. \A m \in DOMAIN f : f[m] \in DOMAIN scopes /\ f[m] \in DOMAIN scopes'
    BY <1>1, <2>1
  <2> QED
    BY <2>2, <2>4, <2>5
<1>8. \A u : u \in Within'[new] <=>
         \E m \in DOMAIN e : e[m] = u /\ \A p \in 1 .. m - 1 : e[p] \in ListScopes'
  <2>1. Within'[new] = {u \in DOMAIN scopes' : \E m \in DOMAIN e : e[m] = u /\ \A p \in 1 .. m - 1 : e[p] \in ListScopes'}
    BY <1>1 DEF Within, e
  <2>2. \A m \in DOMAIN e : e[m] \in DOMAIN scopes'
    BY <1>0, <1>1, <1>3
  <2> QED
    BY <2>1, <2>2
<1>9. new \in Within'[new]
  BY <1>0, <1>3, <1>8
<1>10. ASSUME new \notin ListScopes', NEW u \in Within'[new] PROVE u = new
  <2>1. PICK m \in DOMAIN e : e[m] = u /\ \A p \in 1 .. m - 1 : e[p] \in ListScopes'
    BY <1>8, <1>10
  <2>2. m = 1
    BY <1>0, <1>3, <1>10, <2>1
  <2> QED
    BY <1>0, <2>1, <2>2
<1>11. ASSUME new \in ListScopes', NEW u, u # new
       PROVE  u \in Within'[new] <=> u \in Within[s]
  <2>1. ASSUME u \in Within'[new] PROVE u \in Within[s]
    <3>1. PICK m \in DOMAIN e : e[m] = u /\ \A p \in 1 .. m - 1 : e[p] \in ListScopes'
      BY <1>8, <2>1
    <3>2. m - 1 \in DOMAIN c /\ c[m - 1] = u /\ m \in Nat
      BY <1>0, <1>3, <1>11, <3>1
    <3>3. ASSUME NEW p \in 1 .. m - 1 - 1 PROVE c[p] \in ListScopes
      <4>1. p + 1 \in 1 .. m - 1 /\ p \in DOMAIN c
        BY <1>3, <3>2
      <4>2. e[p + 1] = c[p] /\ e[p + 1] \in ListScopes' /\ c[p] \in DOMAIN scopes
        BY <1>0, <1>3, <3>1, <4>1
      <4> QED
        BY <4>2
    <3> DEFINE k == m - 1
    <3>4. k \in DOMAIN c /\ c[k] = u /\ \A p \in 1 .. k - 1 : c[p] \in ListScopes
      BY <3>2, <3>3
    <3> HIDE DEF k
    <3> QED
      BY <3>4, InsideAt
  <2>2. ASSUME u \in Within[s] PROVE u \in Within'[new]
    <3>1. PICK k \in DOMAIN c : c[k] = u /\ \A p \in 1 .. k - 1 : c[p] \in ListScopes
      BY <2>2, InsideAt
    <3> HIDE DEF c, new
    <3> DEFINE m == k + 1
    <3>2. m \in DOMAIN e /\ e[m] = u /\ m \in Nat /\ k \in Nat
      BY <1>0, <1>3, <3>1
    <3>3. ASSUME NEW p \in 1 .. m - 1 PROVE e[p] \in ListScopes'
      <4>1. CASE p = 1
        BY <1>0, <1>11, <4>1
      <4>2. CASE p # 1
        <5>1. p - 1 \in 1 .. k - 1 /\ p - 1 \in DOMAIN c /\ p \in DOMAIN e
          BY <1>0, <1>3, <3>1, <3>2, <4>2
        <5>2. e[p] = c[p - 1] /\ c[p - 1] \in ListScopes /\ c[p - 1] \in DOMAIN scopes
          BY <1>0, <1>3, <3>1, <4>2, <5>1
        <5> QED
          BY <5>2
      <4> QED
        BY <4>1, <4>2
    <3> HIDE DEF m
    <3> QED
      BY <1>8, <3>2, <3>3
  <2> QED
    BY <2>1, <2>2
<1> HIDE DEF new, c
<1>12. new \in ListScopes' => Within'[new] = {new} \cup Within[s]
  BY <1>9, <1>11
<1>13. new \notin ListScopes' => Within'[new] = {new}
  BY <1>9, <1>10
<1>14. \A q \in DOMAIN scopes' : ChainOK(q)'
  BY <1>1, <1>5, <1>6
<1> QED
  BY <1>1, <1>7, <1>12, <1>13, <1>14 DEF new


\* A lookup finds the first scope of the chain that has the name, or none.
LEMMA UsualFound ==
  ASSUME TablesOK, NEW r \in DOMAIN scopes, NEW n \in Names
  PROVE  LET c == scopes[r].chain
             i == FindUsual(r, n)
         IN  \/ i = 0 /\ \A p \in DOMAIN c : scopes[c[p]].usual[n] = 0
             \/ /\ i # 0
                /\ \E p \in DOMAIN c : /\ scopes[c[p]].usual[n] = i
                                       /\ \A q \in 1 .. p - 1 : scopes[c[q]].usual[n] = 0
<1> DEFINE c == scopes[r].chain
           at == {p \in DOMAIN c : scopes[c[p]].usual[n] # 0}
           f == First(at)
<1>1. DOMAIN c = 1 .. Len(c) /\ Len(c) \in Nat
  BY Chains
<1>2. FindUsual(r, n) = IF at = {} THEN 0 ELSE scopes[c[f]].usual[n]
  BY DEF FindUsual
<1> HIDE DEF c
<1>3. at \subseteq Nat
  BY <1>1
<1>4. CASE at = {}
  BY <1>2, <1>4 DEF c
<1>5. CASE at # {}
  <2>1. f \in at /\ \A q \in at : f <= q
    BY <1>3, <1>5, FirstIn
  <2> HIDE DEF f
  <2>2. \A q \in 1 .. f - 1 : scopes[c[q]].usual[n] = 0
    BY <1>1, <2>1
  <2>3. f \in DOMAIN c /\ scopes[c[f]].usual[n] # 0
    BY <2>1
  <2> QED
    BY <1>2, <1>5, <2>2, <2>3 DEF c
<1> QED
  BY <1>4, <1>5

\* So does the lookup of a tag.
LEMMA TagsFound ==
  ASSUME TablesOK, NEW r \in DOMAIN scopes, NEW t \in Tags
  PROVE  LET c == scopes[r].chain
             i == FindTag(r, t)
         IN  \/ i = 0 /\ \A p \in DOMAIN c : scopes[c[p]].tags[t] = 0
             \/ /\ i # 0
                /\ \E p \in DOMAIN c : /\ scopes[c[p]].tags[t] = i
                                       /\ \A q \in 1 .. p - 1 : scopes[c[q]].tags[t] = 0
<1> DEFINE c == scopes[r].chain
           at == {p \in DOMAIN c : scopes[c[p]].tags[t] # 0}
           f == First(at)
<1>1. DOMAIN c = 1 .. Len(c) /\ Len(c) \in Nat
  BY Chains
<1>2. FindTag(r, t) = IF at = {} THEN 0 ELSE scopes[c[f]].tags[t]
  BY DEF FindTag
<1> HIDE DEF c
<1>3. at \subseteq Nat
  BY <1>1
<1>4. CASE at = {}
  BY <1>2, <1>4 DEF c
<1>5. CASE at # {}
  <2>1. f \in at /\ \A q \in at : f <= q
    BY <1>3, <1>5, FirstIn
  <2> HIDE DEF f
  <2>2. \A q \in 1 .. f - 1 : scopes[c[q]].tags[t] = 0
    BY <1>1, <2>1
  <2>3. f \in DOMAIN c /\ scopes[c[f]].tags[t] # 0
    BY <2>1
  <2> QED
    BY <1>2, <1>5, <2>2, <2>3 DEF c
<1> QED
  BY <1>4, <1>5

\* The rest of the way from a list out.
WayFrom(m, c, e) ==
  /\ Len(e) = Len(c) - m + 1
  /\ \A p \in 1 .. m - 1 : c[p] \in ListScopes
  /\ \A p \in DOMAIN c : p >= m => p - m + 1 \in DOMAIN e /\ e[p - m + 1] = c[p]
  /\ \A q \in DOMAIN e : m + q - 1 \in DOMAIN c /\ e[q] = c[m + q - 1]

\* The chain of what is around is the rest of the chain.
LEMMA WayOut ==
  ASSUME TablesOK, ChainsOK, NEW r \in DOMAIN scopes, NEW b, b \in Within[r]
  PROVE  /\ b \in DOMAIN scopes
         /\ \E m \in DOMAIN scopes[r].chain : WayFrom(m, scopes[r].chain, scopes[b].chain)
<1> DEFINE c == scopes[r].chain
           e == scopes[b].chain
<1>1. PICK m \in DOMAIN c : c[m] = b /\ \A p \in 1 .. m - 1 : c[p] \in ListScopes
  BY InsideAt
<1>2. /\ b \in DOMAIN scopes /\ Len(e) = Len(c) - m + 1
      /\ \A q \in 1 .. Len(e) : e[q] = c[m + q - 1] /\ m + q - 1 \in DOMAIN c
  BY <1>1, Rest
<1>3. DOMAIN c = 1 .. Len(c) /\ Len(c) \in Nat /\ DOMAIN e = 1 .. Len(e) /\ Len(e) \in Nat
  BY <1>2, Chains
<1> HIDE DEF c, e
<1>4. ASSUME NEW p \in DOMAIN c, p >= m PROVE p - m + 1 \in DOMAIN e /\ e[p - m + 1] = c[p]
  <2>1. p - m + 1 \in 1 .. Len(e) /\ m + (p - m + 1) - 1 = p
    BY <1>1, <1>2, <1>3, <1>4
  <2> QED
    BY <1>2, <1>3, <2>1
<1>5. WayFrom(m, c, e)
  BY <1>1, <1>2, <1>3, <1>4 DEF WayFrom
<1> QED
  BY <1>1, <1>2, <1>5 DEF c, e

\* On the way out, what is around is around each list that is passed.
LEMMA WayWithin ==
  ASSUME TablesOK, ChainsOK, NEW r \in DOMAIN scopes, NEW b,
         NEW m \in DOMAIN scopes[r].chain, WayFrom(m, scopes[r].chain, scopes[b].chain),
         b \in DOMAIN scopes, NEW p \in 1 .. m
  PROVE  b \in Within[scopes[r].chain[p]]
<1> DEFINE c == scopes[r].chain
           s == c[p]
           f == scopes[s].chain
           e == scopes[b].chain
           k == m - p + 1
<1>1. /\ DOMAIN c = 1 .. Len(c) /\ Len(c) \in Nat /\ p \in DOMAIN c /\ p \in Nat /\ m \in DOMAIN c
      /\ e[1] = b /\ 1 \in DOMAIN e
  BY Chains
<1>2. c[m] = b
  <2>0. \A q \in DOMAIN e : e[q] = c[m + q - 1]
    BY DEF WayFrom
  <2>1. e[1] = c[m + 1 - 1] /\ m \in Nat
    BY <1>1, <2>0
  <2>2. m + 1 - 1 = m
    BY <2>1
  <2> QED
    BY <1>1, <2>1, <2>2
<1>3. s \in DOMAIN scopes /\ Len(f) = Len(c) - p + 1
      /\ \A q \in 1 .. Len(f) : f[q] = c[p + q - 1] /\ p + q - 1 \in DOMAIN c
  BY <1>1, Rest
<1>4. DOMAIN f = 1 .. Len(f)
  BY <1>3, Chains
<1>5. \A q \in 1 .. m - 1 : c[q] \in ListScopes
  BY DEF WayFrom
<1> HIDE DEF c, f, s, e
<1>6. k \in DOMAIN f /\ f[k] = b
  <2>1. k \in 1 .. Len(f) /\ p + k - 1 = m
    BY <1>1, <1>3
  <2> QED
    BY <1>2, <1>3, <1>4, <2>1
<1>7. \A q \in 1 .. k - 1 : f[q] \in ListScopes
  <2> TAKE q \in 1 .. k - 1
  <2>1. q \in 1 .. Len(f) /\ p + q - 1 \in 1 .. m - 1
    BY <1>1, <1>3
  <2> QED
    BY <1>3, <1>5, <2>1
<1> HIDE DEF k
<1>8. b \in Within[s]
  BY <1>3, <1>6, <1>7, InsideAt DEF f
<1> QED
  BY <1>8 DEF s, c

---------------------------------------------------------------------------
(* The theorems.                                                             *)

\* Whatever is declared and however it is nested, what the tables of scope.cpp
\* know exists: no lookup, type or call stack refers to nothing.
THEOREM ScopesTypes == ScopesSpec => []ScopesTypeOK
<1>1. SInv => ScopesTypeOK
  BY DEF SInv, TablesOK, StackOK, ReportOK, Acts, ScopesTypeOK
<1> QED
  BY <1>1, ScopesInvariant, PTL

\* The end of a parameter list, a member list, a block and a body (parse.cpp,
\* parse_decl.cpp) leads back to the scope it began in, at any depth.
THEOREM ScopesRestored == ScopesSpec => []ScopeRestored
<1>1. SInv => ScopeRestored
  BY DEF SInv, StackOK
<1> QED
  BY <1>1, ScopesInvariant, PTL

\* No name of a scope is taken over by another (Scope::InsertUsual and
\* InsertTag), and no step changes a scope it is not in or does not return to.
THEOREM KeepsEntries == ScopesSpec => EntriesKept
<1>1. ASSUME SInv, [ScopesNext]_svars
      PROVE  KeptEntries({scope, scope'}) \/ UNCHANGED svars
  BY <1>1, ScopesStep
<1> QED
  BY <1>1, ScopesInvariant, PTL DEF ScopesSpec, EntriesKept, KeptEntries
===========================================================================
