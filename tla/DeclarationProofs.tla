------------------------- MODULE DeclarationProofs -------------------------
(***************************************************************************)
(* The theorems about a translation unit, for any names and tags, any kit  *)
(* of declarations and any length and nesting.                             *)
(*                                                                         *)
(* A translation unit is read by the steps of Scopes: what holds of those  *)
(* holds of every file (ReadsAsScopes).  That kcc takes what C allows, and *)
(* nothing else in silence, needs more: what scope.cpp has entered must be *)
(* what C has in scope, which Coupled says.  A lemma for each action shows *)
(* that it keeps Coupled, with the same verdict on both sides, unless the  *)
(* step meets one of the differences that are known: the actions that make *)
(* no tag are in CouplingProofs, those that do are here.                   *)
(***************************************************************************)
EXTENDS CouplingProofs

---------------------------------------------------------------------------
(* Tags and member lists.                                                    *)

IdentsKept ==
  \A i \in DOMAIN idents :
    i \in DOMAIN idents' /\ idents'[i] = idents[i] /\ stands'[i] = stands[i]

LEMMA KeptCarried ==
  ASSUME IdentsKept
  PROVE  IdentsCarried
BY DEF IdentsKept, IdentsCarried

\* Where no name is entered, the names correspond as they did.
LEMMA NamesKept ==
  ASSUME TablesOK, Coupled, NEW b, NEW cs, At(b, cs), IdentsKept, EntsCarried,
         Len(cscopes') = Len(cs), DOMAIN cscopes' = DOMAIN cs,
         \A j \in DOMAIN cs, m \in Names : cscopes'[j].names[m] = cs[j].names[m],
         scopes'[b].chain = scopes[b].chain,
         \A r \in DOMAIN scopes : r \notin ListScopes =>
           /\ scopes'[r].type = scopes[r].type
           /\ \A m \in Names : scopes'[r].usual[m] = scopes[r].usual[m]
  PROVE  NamesOK(b, cscopes)'
<1> DEFINE c == scopes[b].chain
<1>1. /\ DOMAIN cs = 1 .. Len(cs) /\ Len(c) = Len(cs) /\ DOMAIN c = 1 .. Len(cs)
      /\ Len(cs) \in Nat /\ Len(cs) >= 1
      /\ \A j \in DOMAIN cs : c[j] \in DOMAIN scopes
  BY AtDomains
<1>2. b \in DOMAIN scopes /\ b \notin ListScopes /\ NamesOK(b, cs) /\ \A j \in DOMAIN cs : InRange(cs[j])
  BY DEF At
<1>3. \A j \in DOMAIN cs : /\ scopes'[c[j]].type = scopes[c[j]].type
                           /\ \A m \in Names : scopes'[c[j]].usual[m] = scopes[c[j]].usual[m]
  <2>1. \A j \in DOMAIN cs : c[j] \notin ListScopes
    BY <1>1, <1>2, Rest DEF Coupled
  <2> QED
    BY <1>1, <2>1
<1>4. ASSUME NEW j \in DOMAIN cs, NEW m \in Names, scopes[c[j]].usual[m] # 0
      PROVE  LET i == scopes[c[j]].usual[m]
                 x == cs[j].names[m]
             IN  x.ent # 0 /\ stands'[i] = x.ent /\ idents'[i].ty = x.ty
  <2>1. scopes[c[j]].usual[m] \in DOMAIN idents
    <3>1. c[j] \in DOMAIN scopes
      BY <1>1
    <3> QED
      BY <1>4, <3>1, EntryIdent
  <2> QED
    BY <1>1, <1>2, <1>4, <2>1 DEF NamesOK, Stands, IdentsKept
<1>5. ASSUME NEW j \in DOMAIN cs, NEW m \in Names, scopes[c[j]].usual[m] = 0, cs[j].names[m].ent # 0
      PROVE  Extern(b, cscopes, j, m)'
  <2>1. /\ j < Len(cs) /\ scopes[c[j]].type = "block" /\ cs[j].names[m] = FileEntry(cs, m)
        /\ LinkageOf(cs[j].names[m].ent) # "none"
        /\ \A k \in j .. Len(cs) - 1 : scopes[c[k]].usual[m] = 0
    BY <1>1, <1>2, <1>5 DEF NamesOK, Extern
  <2>2. ents'[cs[j].names[m].ent].linkage # "none"
    BY <1>2, <1>5, <2>1 DEF InRange, EntsCarried, LinkageOf
  <2>3. \A k \in j .. Len(cs) - 1 : scopes'[c[k]].usual[m] = 0
    <3> TAKE k \in j .. Len(cs) - 1
    <3>1. k \in DOMAIN cs
      BY <1>1
    <3> QED
      BY <1>3, <2>1, <3>1
  <2>4. Len(cs) \in DOMAIN cs /\ FileEntry(cs, m) = cscopes'[Len(cs)].names[m]
    BY <1>1 DEF FileEntry
  <2> HIDE DEF c
  <2>5. /\ scopes'[b].chain = c /\ scopes'[c[j]].type = "block"
        /\ cscopes'[j].names[m] = cs[j].names[m] /\ cs[j].names[m] = cscopes'[Len(cscopes')].names[m]
    BY <1>3, <2>1, <2>4 DEF c
  <2> QED
    BY <1>5, <2>1, <2>2, <2>3, <2>5 DEF Extern, FileEntry, LinkageOf
<1>6. ASSUME NEW j \in DOMAIN cscopes', NEW m \in Names
      PROVE  LET i == scopes'[c[j]].usual[m]
                 x == cscopes'[j].names[m]
             IN  IF i # 0 THEN x.ent # 0 /\ stands'[i] = x.ent /\ idents'[i].ty = x.ty
                 ELSE x.ent = 0 \/ Extern(b, cscopes, j, m)'
  <2>1. scopes'[c[j]].usual[m] = scopes[c[j]].usual[m] /\ cscopes'[j].names[m] = cs[j].names[m]
    BY <1>3
  <2>2. CASE scopes[c[j]].usual[m] # 0
    <3> HIDE DEF c
    <3> QED
      BY <1>4, <2>1, <2>2
  <2>3. CASE scopes[c[j]].usual[m] = 0
    <3> HIDE DEF c
    <3> QED
      BY <1>5, <2>1, <2>3
  <2> QED
    BY <2>2, <2>3
<1> HIDE DEF c
<1>7. scopes'[b].chain = c /\ Len(c) = Len(cscopes')
  BY <1>1 DEF c
<1> QED
  BY <1>6, <1>7 DEF NamesOK, Stands

\* The tag t is entered where the parser is, with the identifier k, and in C
\* with the entity l.
TagSet(t, k, l) ==
  /\ \A r \in DOMAIN scopes, x \in Tags :
       scopes'[r].tags[x] = IF r = scope /\ x = t THEN k ELSE scopes[r].tags[x]
  /\ \A j \in DOMAIN cscopes, x \in Tags :
       cscopes'[j].tags[x] = IF j = 1 /\ x = t THEN l ELSE cscopes[j].tags[x]
  /\ t \in Tags => cscopes[1].tags[t] = 0

LEMMA TagsEntered ==
  ASSUME TablesOK, StackOK, Coupled, ScopesCarried, IdentsKept, NEW b, b = Around,
         scopes'[b].chain = scopes[b].chain,
         NEW t \in Tags \cup {NoTag}, NEW i, NEW e,
         TagSet(t, i, e), t \in Tags => i # 0 /\ e # 0 /\ stands'[i] = e,
         \A r \in DOMAIN scopes' : r \in DOMAIN scopes \/ \A x \in Tags : scopes'[r].tags[x] = 0,
         DOMAIN cscopes' = DOMAIN cscopes,
         \A k \in 1 .. Lists : \E m \in 1 .. Lists' : ScopeAt(m)' = ScopeAt(k)
  PROVE  TagsOK(b, cscopes)'
<1> DEFINE c == scopes[b].chain
<1>1. /\ At(b, cscopes) /\ ChainsOK /\ StandsOK
      /\ Lists \in Nat /\ b \in Within[scope] /\ scope \in DOMAIN scopes /\ scope = ScopeAt(1)
      /\ (Lists = 0 => b = scope) /\ b \in DOMAIN scopes /\ b \notin ListScopes
  <2>1. OpenListsOK /\ CTablesOK /\ ChainsOK /\ StandsOK
    BY DEF Coupled
  <2>2. /\ Lists \in Nat /\ b \in DOMAIN scopes /\ b \notin ListScopes /\ (Lists = 0 => b = scope)
        /\ scope = ScopeAt(1) /\ ScopeAt(1) \in DOMAIN scopes
        /\ \A j \in 1 .. Lists + 1 : ScopeAt(j) \in Within[ScopeAt(1)]
    BY <2>1, ListsAround
  <2>3. b \in Within[scope]
    BY <2>2 DEF Around
  <2> QED
    BY <2>1, <2>2, <2>3, AtAround
<1>2. /\ DOMAIN cscopes = 1 .. Len(cscopes) /\ Len(cscopes) \in Nat /\ Len(cscopes) >= 1
      /\ DOMAIN c = DOMAIN cscopes
      /\ c[1] = b /\ \A j \in DOMAIN cscopes : c[j] \in DOMAIN scopes
  BY <1>1, AtDomains
<1>3. TagsOK(b, cscopes)
  BY <1>1 DEF At
<1>4. \A r \in DOMAIN scopes, x \in Tags :
        scopes[r].tags[x] # 0 =>
          /\ scopes[r].tags[x] \in DOMAIN idents
          /\ stands[scopes[r].tags[x]] # 0
          /\ stands'[scopes[r].tags[x]] = stands[scopes[r].tags[x]]
  BY <1>1, StructTags DEF StandsOK, StandOK, IdentsKept
<1>5. ASSUME NEW j \in DOMAIN cscopes, NEW x \in Tags, NEW r \in DOMAIN scopes',
             c[j] \in Within'[r], scopes'[r].tags[x] # 0
      PROVE  stands'[scopes'[r].tags[x]] = cscopes'[j].tags[x]
  <2>1. r \in DOMAIN scopes /\ c[j] \in Within[r]
    BY <1>5 DEF ScopesCarried
  <2>2. CASE r = scope /\ x = t
    <3>1. j = 1
      <4>1. c[j] \notin ListScopes
        BY <1>1, <1>2, Rest
      <4>2. c[j] = c[1]
        BY <1>1, <1>2, <2>1, <2>2, <4>1, InsideUnique
      <4> QED
        BY <1>1, <1>2, <4>2, ChainDistinct
    <3> QED
      BY <2>1, <2>2, <3>1 DEF TagSet
  <2>3. CASE ~(r = scope /\ x = t)
    <3>1. scopes'[r].tags[x] = scopes[r].tags[x]
      BY <2>1, <2>3 DEF TagSet
    <3>2. stands[scopes[r].tags[x]] = cscopes[j].tags[x]
      BY <1>3, <1>5, <2>1, <3>1 DEF TagsOK
    <3>3. stands[scopes[r].tags[x]] # 0
      BY <1>4, <1>5, <2>1, <3>1
    <3>4. ~(j = 1 /\ x = t)
      BY <3>2, <3>3 DEF TagSet
    <3> QED
      BY <1>4, <1>5, <2>1, <3>1, <3>2, <3>4 DEF TagSet
  <2> QED
    BY <2>2, <2>3
<1>6. ASSUME NEW j \in DOMAIN cscopes, NEW x \in Tags, cscopes'[j].tags[x] # 0
      PROVE  \/ scopes'[c[j]].tags[x] # 0
             \/ j = 1 /\ \E k \in 1 .. Lists' : scopes'[ScopeAt(k)'].tags[x] # 0
  <2>0. \A r \in DOMAIN scopes : scopes[r].tags[x] # 0 => scopes'[r].tags[x] # 0
    BY DEF TagSet
  <2>1. CASE j = 1 /\ x = t
    <3>1. scopes'[scope].tags[t] # 0
      BY <1>1, <2>1 DEF TagSet
    <3>2. CASE Lists = 0
      BY <1>1, <1>2, <2>1, <3>1, <3>2
    <3>3. CASE Lists # 0
      <4>1. 1 \in 1 .. Lists
        BY <1>1, <3>3
      <4>2. PICK m \in 1 .. Lists' : ScopeAt(m)' = scope
        BY <1>1, <4>1
      <4> QED
        BY <2>1, <3>1, <4>2
    <3> QED
      BY <3>2, <3>3
  <2>2. CASE ~(j = 1 /\ x = t)
    <3>1. \/ scopes[c[j]].tags[x] # 0
          \/ j = 1 /\ \E k \in 1 .. Lists : scopes[ScopeAt(k)].tags[x] # 0
      BY <1>3, <1>6, <2>2 DEF TagsOK, TagSet
    <3>2. CASE scopes[c[j]].tags[x] # 0
      BY <1>2, <2>0, <3>2
    <3>3. ASSUME j = 1, NEW k \in 1 .. Lists, scopes[ScopeAt(k)].tags[x] # 0
          PROVE  \E m \in 1 .. Lists' : scopes'[ScopeAt(m)'].tags[x] # 0
      <4>1. PICK m \in 1 .. Lists' : ScopeAt(m)' = ScopeAt(k)
        OBVIOUS
      <4>2. ScopeAt(k) \in DOMAIN scopes
        BY ListsAround DEF Coupled
      <4> QED
        BY <2>0, <3>3, <4>1, <4>2
    <3> QED
      BY <3>1, <3>2, <3>3
  <2> QED
    BY <2>1, <2>2
<1> HIDE DEF c
<1>7. scopes'[b].chain = c
  BY DEF c
<1> QED
  BY <1>5, <1>6, <1>7 DEF TagsOK

\* No tag is entered.
LEMMA TagsAsTheyWere ==
  ASSUME TablesOK, StackOK, Coupled, ScopesCarried, IdentsKept, NEW b, b = Around,
         scopes'[b].chain = scopes[b].chain,
         \A r \in DOMAIN scopes, x \in Tags : scopes'[r].tags[x] = scopes[r].tags[x],
         \A r \in DOMAIN scopes' : r \in DOMAIN scopes \/ \A x \in Tags : scopes'[r].tags[x] = 0,
         cscopes' = cscopes,
         \A k \in 1 .. Lists : \E m \in 1 .. Lists' : ScopeAt(m)' = ScopeAt(k)
  PROVE  TagsOK(b, cscopes)'
<1>1. NoTag \in Tags \cup {NoTag} /\ NoTag \notin Tags
  BY DeclaratorsAssumption
<1>2. PICK i, e : i = 0 /\ e = 0
  OBVIOUS
<1>3. TagSet(NoTag, i, e) /\ DOMAIN cscopes' = DOMAIN cscopes
  BY <1>1 DEF TagSet
<1> QED
  BY <1>1, <1>2, <1>3, TagsEntered

\* What the identifiers stand for, what has linkage, and the ranges.
LEMMA StandsKept ==
  ASSUME TablesOK, Coupled, IdentsKept, EntsCarried,
         \A i \in DOMAIN idents :
           idents[i].kind = "tag" =>
             /\ ents'[stands[i]].def = ents[stands[i]].def
             /\ idents[i].ty.k = "struct" =>
                  types'[TypeOf(i)].complete = types[TypeOf(i)].complete,
         \A i \in DOMAIN idents' : i \in DOMAIN idents \/ StandOK(i)'
  PROVE  StandsOK'
<1>1. ASSUME NEW i \in DOMAIN idents' PROVE StandOK(i)'
  <2>1. CASE i \in DOMAIN idents
    BY <2>1, KeptCarried, StandCarried
  <2> QED
    BY <2>1
<1> QED
  BY <1>1 DEF StandsOK

LEMMA LinkedKept ==
  ASSUME Coupled, Len(cscopes') = Len(cscopes),
         \A e \in DOMAIN ents' : ents'[e].linkage # "none" =>
           /\ e \in DOMAIN ents /\ ents'[e].name = ents[e].name /\ ents'[e].kind = ents[e].kind
           /\ ents'[e].linkage = ents[e].linkage /\ ents'[e].ty = ents[e].ty,
         \A m \in Names : LET x == cscopes[Len(cscopes)].names[m]
                          IN  x.ent # 0 => cscopes'[Len(cscopes)].names[m] = x
  PROVE  LinkedOK'
<1>1. \A e \in DOMAIN ents : e # 0
  BY EntNumbers
<1>2. ASSUME NEW e \in DOMAIN ents', ents'[e].linkage # "none"
      PROVE  /\ ents'[e].name \in Names /\ ents'[e].kind \in {"func", "object"}
             /\ e = cscopes'[Len(cscopes')].names[ents'[e].name].ent
             /\ ents'[e].ty = cscopes'[Len(cscopes')].names[ents'[e].name].ty
  <2>1. /\ e \in DOMAIN ents /\ ents'[e].name = ents[e].name /\ ents'[e].kind = ents[e].kind
        /\ ents'[e].linkage = ents[e].linkage /\ ents'[e].ty = ents[e].ty
    BY <1>2
  <2>2. /\ ents[e].name \in Names /\ ents[e].kind \in {"func", "object"}
        /\ e = cscopes[Len(cscopes)].names[ents[e].name].ent
        /\ ents[e].ty = cscopes[Len(cscopes)].names[ents[e].name].ty
    BY <1>2, <2>1 DEF Coupled, LinkedOK, LinkedAt, FileEntry
  <2>3. cscopes'[Len(cscopes)].names[ents[e].name] = cscopes[Len(cscopes)].names[ents[e].name]
    BY <1>1, <2>1, <2>2
  <2> QED
    BY <2>1, <2>2, <2>3
<1> QED
  BY <1>2 DEF LinkedOK, LinkedAt, FileEntry

LEMMA RangesKept ==
  ASSUME Coupled, EntsCarried, DOMAIN cscopes' = DOMAIN cscopes, params' = params,
         \A j \in DOMAIN cscopes, m \in Names :
           LET x == cscopes'[j].names[m]
           IN  x = cscopes[j].names[m] \/ (x.ent \in DOMAIN ents' /\ ents'[x.ent].name = m),
         \A j \in DOMAIN cscopes, t \in Tags :
           LET e == cscopes'[j].tags[t]
           IN  e = cscopes[j].tags[t] \/ e \in DOMAIN ents',
         \A i \in DOMAIN stands' : stands'[i] # 0 => stands'[i] \in DOMAIN ents'
  PROVE  RangesOK'
<1>1. ASSUME NEW j \in DOMAIN cscopes'
      PROVE  /\ \A m \in Names : LET x == cscopes'[j].names[m]
                                 IN  x.ent # 0 => x.ent \in DOMAIN ents' /\ ents'[x.ent].name = m
             /\ \A t \in Tags : cscopes'[j].tags[t] # 0 => cscopes'[j].tags[t] \in DOMAIN ents'
  <2>1. InRange(cscopes[j])
    BY DEF Coupled, RangesOK
  <2> QED
    BY <2>1 DEF InRange, EntsCarried
<1>2. /\ \A m \in Names : params'.names[m].ent # 0 =>
           params'.names[m].ent \in DOMAIN ents' /\ ents'[params'.names[m].ent].name = m
      /\ \A t \in Tags : params'.tags[t] # 0 => params'.tags[t] \in DOMAIN ents'
  <2>1. InRange(params)
    BY DEF Coupled, RangesOK
  <2> QED
    BY <2>1 DEF InRange, EntsCarried
<1> QED
  BY <1>1, <1>2 DEF RangesOK, InRange

---------------------------------------------------------------------------
(* Enumerations.                                                         *)

\* The new identifiers stand for what the step meant, however many they are.
LEMMA StandsAll ==
  ASSUME TablesOK, Coupled, NewStand, NEW m, m = meant', m \in Seq(Nat),
         Len(idents') = Len(idents) + Len(m)
  PROVE  /\ stands' \in Seq(Nat) /\ Len(stands') = Len(idents')
         /\ \A i \in DOMAIN idents : stands'[i] = stands[i]
         /\ \A k \in DOMAIN m : stands'[Len(idents) + k] = m[k]
<1>1. /\ Len(idents) \in Nat /\ DOMAIN idents = 1 .. Len(idents)
      /\ stands \in Seq(Nat) /\ Len(stands) = Len(idents)
  BY Domains DEF Coupled, CTablesOK
<1>2. Len(m) \in Nat /\ DOMAIN m = 1 .. Len(m)
  OBVIOUS
<1>3. Len(idents') - Len(idents) = Len(m) /\ Len(m) - Len(m) + 1 = 1
  BY <1>1, <1>2
<1> DEFINE q == SubSeq(m, 1, Len(m))
<1>4. stands' = stands \o q
  BY <1>3 DEF NewStand
<1>5. q \in Seq(Nat) /\ Len(q) = Len(m) /\ DOMAIN q = DOMAIN m /\ \A k \in DOMAIN m : q[k] = m[k]
  OBVIOUS
<1> HIDE DEF q
<1>6. /\ stands' \in Seq(Nat) /\ Len(stands') = Len(stands) + Len(q)
      /\ \A i \in 1 .. Len(stands) + Len(q) :
           stands'[i] = IF i <= Len(stands) THEN stands[i] ELSE q[i - Len(stands)]
  <2>1. PICK w : w = stands \o q
    OBVIOUS
  <2>2. stands \in Seq(Nat) /\ q \in Seq(Nat)
    BY <1>1, <1>5
  <2>3. /\ w \in Seq(Nat) /\ Len(w) = Len(stands) + Len(q)
        /\ \A i \in 1 .. Len(stands) + Len(q) :
             w[i] = IF i <= Len(stands) THEN stands[i] ELSE q[i - Len(stands)]
    BY <2>1, <2>2, ConcatProperties
  <2> QED
    BY <1>4, <2>1, <2>3
<1>7. ASSUME NEW k \in DOMAIN m PROVE stands'[Len(idents) + k] = m[k]
  <2>1. PICK j : j = Len(idents) + k
    OBVIOUS
  <2>2. j \in 1 .. Len(stands) + Len(q) /\ ~ (j <= Len(stands)) /\ j - Len(stands) = k
    BY <1>1, <1>2, <1>5, <2>1
  <2>3. stands'[j] = q[j - Len(stands)]
    BY <1>6, <2>2
  <2> QED
    BY <1>5, <2>1, <2>2, <2>3
<1>8. \A i \in DOMAIN idents : i \in 1 .. Len(stands) + Len(q) /\ i <= Len(stands)
  BY <1>1, <1>2, <1>5
<1> QED
  BY <1>1, <1>5, <1>6, <1>7, <1>8

\* A tag is entered in the innermost scope of C.
LEMMA TaggedInC ==
  ASSUME Coupled, NEW t \in Tags \cup {NoTag}, NEW e \in Nat
  PROVE  LET cs == WithTag(t, e)
         IN  /\ cs \in Seq(CScopeType) /\ Len(cs) = Len(cscopes) /\ DOMAIN cs = DOMAIN cscopes
             /\ DOMAIN cscopes = 1 .. Len(cscopes) /\ Len(cscopes) \in Nat /\ Len(cscopes) >= 1
             /\ \A j \in DOMAIN cscopes :
                  /\ cs[j].names = cscopes[j].names
                  /\ \A x \in Tags : cs[j].tags[x] = IF j = 1 /\ x = t THEN e ELSE cscopes[j].tags[x]
<1>1. cscopes \in Seq(CScopeType) /\ cscopes # <<>>
  BY DEF Coupled, CTablesOK
<1>2. /\ Len(cscopes) \in Nat /\ DOMAIN cscopes = 1 .. Len(cscopes) /\ Len(cscopes) >= 1
      /\ cscopes[1] \in CScopeType
  <2> HIDE DEF CScopeType
  <2> QED
    BY <1>1
<1>3. CASE t = NoTag
  BY <1>1, <1>2, <1>3, DeclaratorsAssumption DEF WithTag
<1>4. CASE t # NoTag
  <2> DEFINE c == [cscopes[1] EXCEPT !.tags[t] = e]
  <2>1. /\ c \in CScopeType /\ c.names = cscopes[1].names
        /\ \A x \in Tags : c.tags[x] = IF x = t THEN e ELSE cscopes[1].tags[x]
    BY <1>2, <1>4 DEF CScopeType
  <2>2. WithTag(t, e) = [cscopes EXCEPT ![1] = c]
    BY <1>4 DEF WithTag
  <2>3. 1 \in DOMAIN cscopes
    BY <1>2
  <2> HIDE DEF c
  <2>4. PICK S : S = CScopeType
    OBVIOUS
  <2>5. PICK cs : cs = WithTag(t, e)
    OBVIOUS
  <2>6. /\ cs \in Seq(S) /\ Len(cs) = Len(cscopes) /\ DOMAIN cs = DOMAIN cscopes
        /\ \A j \in DOMAIN cscopes : cs[j] = IF j = 1 THEN c ELSE cscopes[j]
    BY <1>1, <2>1, <2>2, <2>3, <2>4, <2>5, Replaced
  <2> QED
    BY <1>2, <2>1, <2>4, <2>5, <2>6
<1> QED
  BY <1>3, <1>4

\* The same of kcc.
LEMMA TaggedScopes ==
  ASSUME TablesOK, scope \in DOMAIN scopes, NEW t \in Tags \cup {NoTag},
         NEW mid, mid = InsertTag(scope, t, NewIdent)
  PROVE  /\ Len(mid) = Len(scopes) /\ DOMAIN mid = DOMAIN scopes /\ mid \in Seq(ScopeType)
         /\ \A r \in DOMAIN scopes :
              /\ mid[r].type = scopes[r].type /\ mid[r].chain = scopes[r].chain
              /\ mid[r].usual = scopes[r].usual
              /\ \A x \in Tags : mid[r].tags[x] = IF r = scope /\ x = t THEN NewIdent ELSE scopes[r].tags[x]
              /\ r # scope => mid[r] = scopes[r]
<1>1. scopes[scope] \in ScopeType /\ Len(idents) \in Nat /\ scopes \in Seq(ScopeType)
  BY Domains DEF TablesOK
<1>2. CASE t = NoTag
  BY <1>1, <1>2, DeclaratorsAssumption DEF InsertTag
<1>3. CASE t # NoTag
  <2> DEFINE e == [scopes[scope] EXCEPT !.tags[t] = NewIdent]
  <2>1. /\ e \in ScopeType /\ e.type = scopes[scope].type /\ e.chain = scopes[scope].chain
        /\ e.usual = scopes[scope].usual
        /\ \A x \in Tags : e.tags[x] = IF x = t THEN NewIdent ELSE scopes[scope].tags[x]
    <3>1. t \in Tags /\ NewIdent \in Nat
      BY <1>1, <1>3 DEF NewIdent
    <3> QED
      BY <1>1, <3>1 DEF ScopeType
  <2>2. mid = [scopes EXCEPT ![scope] = e]
    BY <1>3 DEF InsertTag
  <2> HIDE DEF e, ScopeType
  <2>3. /\ mid \in Seq(ScopeType) /\ Len(mid) = Len(scopes) /\ DOMAIN mid = DOMAIN scopes
        /\ \A r \in DOMAIN scopes : mid[r] = IF r = scope THEN e ELSE scopes[r]
    BY <1>1, <2>1, <2>2, Replaced
  <2> QED
    BY <2>1, <2>3
<1> QED
  BY <1>2, <1>3

\* The scopes behind an enumerator.
LEMMA EnumScopes ==
  ASSUME TablesOK, scope \in DOMAIN scopes, NEW t \in Tags \cup {NoTag}, NEW n \in Names,
         NEW i \in Nat, types' = types,
         scopes' = [InsertTag(scope, t, NewIdent) EXCEPT ![scope].usual[n] = i]
  PROVE  /\ SameChains /\ OneUsual(scope, n) /\ scopes'[scope].usual[n] = i
         /\ \A r \in DOMAIN scopes, x \in Tags :
              scopes'[r].tags[x] = IF r = scope /\ x = t THEN Len(idents) + 1 ELSE scopes[r].tags[x]
         /\ \A r \in DOMAIN scopes : r # scope => scopes'[r] = scopes[r]
<1>1. PICK mid : mid = InsertTag(scope, t, NewIdent)
  OBVIOUS
<1>2. /\ Len(mid) = Len(scopes) /\ DOMAIN mid = DOMAIN scopes /\ mid \in Seq(ScopeType)
      /\ \A r \in DOMAIN scopes :
           /\ mid[r].type = scopes[r].type /\ mid[r].chain = scopes[r].chain
           /\ mid[r].usual = scopes[r].usual
           /\ \A x \in Tags : mid[r].tags[x] = IF r = scope /\ x = t THEN NewIdent ELSE scopes[r].tags[x]
           /\ r # scope => mid[r] = scopes[r]
  BY <1>1, TaggedScopes
<1> DEFINE e == [mid[scope] EXCEPT !.usual[n] = i]
<1>3. /\ e \in ScopeType /\ e.type = mid[scope].type /\ e.chain = mid[scope].chain
      /\ e.tags = mid[scope].tags
      /\ \A m \in Names : e.usual[m] = IF m = n THEN i ELSE mid[scope].usual[m]
  <2>1. mid[scope] \in ScopeType
    <3> HIDE DEF ScopeType
    <3> QED
      BY <1>2
  <2> QED
    BY <2>1 DEF ScopeType
<1>4. scopes' = [mid EXCEPT ![scope] = e]
  BY <1>1
<1> HIDE DEF e
<1>5. /\ Len(scopes') = Len(mid) /\ DOMAIN scopes' = DOMAIN mid
      /\ \A r \in DOMAIN mid : scopes'[r] = IF r = scope THEN e ELSE mid[r]
  <2>1. PICK S, a : S = ScopeType /\ a = scopes'
    OBVIOUS
  <2>2. mid \in Seq(S) /\ scope \in DOMAIN mid /\ e \in S /\ a = [mid EXCEPT ![scope] = e]
    BY <1>2, <1>3, <1>4, <2>1
  <2>3. Len(a) = Len(mid) /\ DOMAIN a = DOMAIN mid
        /\ \A r \in DOMAIN mid : a[r] = IF r = scope THEN e ELSE mid[r]
    BY <2>2, Replaced
  <2> QED
    BY <2>1, <2>3
<1>6. /\ Len(scopes') = Len(scopes)
      /\ \A r \in DOMAIN scopes :
           /\ scopes'[r].type = scopes[r].type /\ scopes'[r].chain = scopes[r].chain
           /\ scopes'[r].tags = mid[r].tags
           /\ \A m \in Names : scopes'[r].usual[m] = IF r = scope /\ m = n THEN i ELSE scopes[r].usual[m]
           /\ r # scope => scopes'[r] = scopes[r]
  <2>1. Len(scopes') = Len(scopes)
    BY <1>2, <1>5
  <2>2. ASSUME NEW r \in DOMAIN scopes
        PROVE  /\ scopes'[r].type = scopes[r].type /\ scopes'[r].chain = scopes[r].chain
               /\ scopes'[r].tags = mid[r].tags
               /\ \A m \in Names : scopes'[r].usual[m] = IF r = scope /\ m = n THEN i ELSE scopes[r].usual[m]
               /\ r # scope => scopes'[r] = scopes[r]
    <3>1. CASE r = scope
      <4>1. /\ mid[r].type = scopes[r].type /\ mid[r].chain = scopes[r].chain
            /\ mid[r].usual = scopes[r].usual
        BY <1>2
      <4>2. scopes'[r] = e
        BY <1>2, <1>5, <3>1
      <4> QED
        BY <1>3, <3>1, <4>1, <4>2
    <3>2. CASE r # scope
      BY <1>2, <1>5, <3>2
    <3> QED
      BY <3>1, <3>2
  <2> QED
    BY <2>1, <2>2
<1> QED
  BY <1>2, <1>6 DEF SameChains, OneUsual, NewIdent

\* The entities of an enumeration.
LEMMA EnumEntities ==
  ASSUME NEW t \in Tags \cup {NoTag}, NEW n \in Names
  PROVE  /\ [TagEntity("enum", t) EXCEPT !.def = "yes"] \in EntityType
         /\ Entity("enumerator", n, "none", IntType) \in EntityType
BY DEF EntityType, TagEntity, Entity, IntType, Types, Linkages

\* One entry, and one before it if there is a tag.
LEMMA OneOrTwo ==
  ASSUME NEW S, NEW q \in Seq(S), NEW new \in Seq(S), NEW x \in S, Len(new) \in {0, 1},
         NEW a, a = q \o new \o <<x>>
  PROVE  /\ Len(q) \in Nat /\ DOMAIN q = 1 .. Len(q)
         /\ a \in Seq(S) /\ DOMAIN a = 1 .. Len(a) /\ Len(a) = Len(q) + Len(new) + 1
         /\ a[Len(a)] = x
         /\ \A j \in DOMAIN q : j \in DOMAIN a /\ a[j] = q[j]
         /\ Len(new) = 1 => a[Len(q) + 1] = new[1]
<1>1. PICK p : p = q \o new
  OBVIOUS
<1>2. /\ p \in Seq(S) /\ Len(p) = Len(q) + Len(new)
      /\ \A j \in 1 .. Len(q) + Len(new) : p[j] = IF j <= Len(q) THEN q[j] ELSE new[j - Len(q)]
  BY <1>1, ConcatProperties
<1>3. Len(q) \in Nat /\ DOMAIN q = 1 .. Len(q)
  OBVIOUS
<1>4. a = p \o <<x>>
  BY <1>1
<1>5. a = Append(p, x)
  <2>1. p \in Seq(S) /\ x \in S
    BY <1>2
  <2>2. Append(p, x) = p \o <<x>>
    BY <2>1, AppendIsConcat
  <2> QED
    BY <1>4, <2>2
<1>6. /\ a \in Seq(S) /\ Len(a) = Len(p) + 1 /\ DOMAIN a = 1 .. Len(p) + 1 /\ a[Len(p) + 1] = x
      /\ \A j \in DOMAIN p : j \in DOMAIN a /\ a[j] = p[j]
      /\ DOMAIN p = 1 .. Len(p)
  BY <1>2, <1>5, Appended
<1>7. ASSUME Len(new) = 1 PROVE a[Len(q) + 1] = new[1]
  <2>1. Len(q) + 1 \in 1 .. Len(q) + Len(new) /\ ~(Len(q) + 1 <= Len(q)) /\ Len(q) + 1 - Len(q) = 1
    BY <1>3, <1>7
  <2> QED
    BY <1>2, <1>6, <2>1
<1>8. ASSUME NEW j \in DOMAIN q PROVE j \in DOMAIN a /\ a[j] = q[j]
  <2>1. j \in 1 .. Len(q) + Len(new) /\ j <= Len(q)
    BY <1>3
  <2> QED
    BY <1>2, <1>6, <2>1
<1> QED
  BY <1>2, <1>3, <1>6, <1>7, <1>8

EnumScoped(t, n, k, e) ==
  cscopes' = [WithTag(t, k) EXCEPT ![1].names[n] = [ent |-> e, ty |-> IntType]]

NamesTagged(w, t, n, k, e) ==
  /\ w \in Seq(CScopeType) /\ Len(w) = Len(cscopes)
  /\ DOMAIN w = DOMAIN cscopes
  /\ \A j \in DOMAIN cscopes, m \in Names :
       w[j].names[m] = IF j = 1 /\ m = n THEN [ent |-> e, ty |-> IntType]
                              ELSE cscopes[j].names[m]
  /\ \A j \in DOMAIN cscopes, y \in Tags :
       w[j].tags[y] = IF j = 1 /\ y = t THEN k ELSE cscopes[j].tags[y]

\* The scopes of C behind an enumerator.
LEMMA EnumNames ==
  ASSUME Coupled, NEW t \in Tags \cup {NoTag}, NEW n \in Names, NEW k \in Nat, NEW e \in Nat,
         NEW w, w = cscopes', EnumScoped(t, n, k, e)
  PROVE  NamesTagged(w, t, n, k, e)
<1>8. PICK cs : cs = WithTag(t, k)
  OBVIOUS
<1>9. /\ cs \in Seq(CScopeType) /\ Len(cs) = Len(cscopes) /\ DOMAIN cs = DOMAIN cscopes
      /\ DOMAIN cscopes = 1 .. Len(cscopes) /\ Len(cscopes) \in Nat /\ Len(cscopes) >= 1
      /\ \A j \in DOMAIN cscopes :
           /\ cs[j].names = cscopes[j].names
           /\ \A y \in Tags : cs[j].tags[y] = IF j = 1 /\ y = t THEN k ELSE cscopes[j].tags[y]
  BY <1>8, TaggedInC
<1> DEFINE c == [cs[1] EXCEPT !.names[n] = [ent |-> e, ty |-> IntType]]
<1>10. /\ c \in CScopeType /\ c.tags = cs[1].tags
       /\ \A m \in Names : c.names[m] = IF m = n THEN [ent |-> e, ty |-> IntType] ELSE cs[1].names[m]
  <2>1. cs[1] \in CScopeType
    <3> HIDE DEF CScopeType
    <3> QED
      BY <1>9
  <2>2. [ent |-> e, ty |-> IntType] \in [ent : Nat, ty : Types]
    BY DEF IntType, Types
  <2> QED
    BY <2>1, <2>2 DEF CScopeType
<1>11. w = [cs EXCEPT ![1] = c] /\ 1 \in DOMAIN cs
  BY <1>8, <1>9 DEF EnumScoped
<1> HIDE DEF c
<1>12. /\ w \in Seq(CScopeType) /\ Len(w) = Len(cs) /\ DOMAIN w = DOMAIN cs
       /\ \A j \in DOMAIN cs : w[j] = IF j = 1 THEN c ELSE cs[j]
  <2>1. PICK S : S = CScopeType
    OBVIOUS
  <2>2. PICK a : a = w
    OBVIOUS
  <2>3. cs \in Seq(S) /\ c \in S /\ a = [cs EXCEPT ![1] = c] /\ 1 \in DOMAIN cs
    BY <1>9, <1>10, <1>11, <2>1, <2>2
  <2>4. /\ a \in Seq(S) /\ Len(a) = Len(cs) /\ DOMAIN a = DOMAIN cs
        /\ \A j \in DOMAIN cs : a[j] = IF j = 1 THEN c ELSE cs[j]
    BY <2>3, Replaced
  <2> QED
    BY <2>1, <2>2, <2>4
<1>13. ASSUME NEW j \in DOMAIN cscopes
       PROVE  /\ \A m \in Names :
                   w[j].names[m] = IF j = 1 /\ m = n THEN [ent |-> e, ty |-> IntType]
                                          ELSE cscopes[j].names[m]
              /\ \A y \in Tags :
                   w[j].tags[y] = IF j = 1 /\ y = t THEN k ELSE cscopes[j].tags[y]
  <2>1. CASE j = 1
    <3>1. w[1] = c /\ cs[1].names = cscopes[1].names /\ 1 \in DOMAIN cscopes
          /\ \A y \in Tags : cs[1].tags[y] = IF y = t THEN k ELSE cscopes[1].tags[y]
      BY <1>9, <1>12
    <3>2. \A m \in Names :
            w[1].names[m] = IF m = n THEN [ent |-> e, ty |-> IntType] ELSE cscopes[1].names[m]
      BY <1>10, <3>1
    <3>3. \A y \in Tags : w[1].tags[y] = IF y = t THEN k ELSE cscopes[1].tags[y]
      BY <1>10, <3>1
    <3> QED
      BY <2>1, <3>2, <3>3
  <2>2. CASE j # 1
    BY <1>9, <1>12, <2>2
  <2> QED
    BY <2>1, <2>2
<1> QED
  BY <1>9, <1>12, <1>13 DEF NamesTagged

\* In a flat scope both find a tag, or neither.
LEMMA TagHere ==
  ASSUME TablesOK, StackOK, Coupled, NEW t \in Tags
  PROVE  /\ scope \in DOMAIN scopes
         /\ scopes[scope].tags[t] # 0 =>
              /\ scopes[scope].tags[t] \in DOMAIN idents /\ IsStructTag(scopes[scope].tags[t]) \in BOOLEAN
              /\ idents[scopes[scope].tags[t]].kind = "tag"
              /\ stands[scopes[scope].tags[t]] = cscopes[1].tags[t] /\ cscopes[1].tags[t] # 0
         /\ Lists = 0 => (scopes[scope].tags[t] = 0) = (cscopes[1].tags[t] = 0)
<1>1. /\ OpenListsOK /\ CTablesOK /\ ChainsOK /\ StandsOK /\ TagsOK(Around, cscopes)
  BY DEF Coupled
<1>2. /\ Lists \in Nat /\ Around \in DOMAIN scopes /\ (Lists = 0 => Around = scope)
      /\ scope = ScopeAt(1) /\ scope \in DOMAIN scopes
      /\ \A j \in 1 .. Lists + 1 : ScopeAt(j) \in Within[ScopeAt(1)]
  BY <1>1, ListsAround DEF StackOK
<1>3. Around \in Within[scope]
  BY <1>2 DEF Around
<1>4. 1 \in DOMAIN cscopes /\ scopes[Around].chain[1] = Around
  <2>1. At(Around, cscopes)
    BY AtAround
  <2> QED
    BY <2>1, AtDomains
<1>5. scopes[scope].tags[t] # 0 =>
        /\ scopes[scope].tags[t] \in DOMAIN idents /\ idents[scopes[scope].tags[t]].kind = "tag"
        /\ stands[scopes[scope].tags[t]] = cscopes[1].tags[t] /\ cscopes[1].tags[t] # 0
  <2> SUFFICES ASSUME scopes[scope].tags[t] # 0
               PROVE  /\ scopes[scope].tags[t] \in DOMAIN idents /\ idents[scopes[scope].tags[t]].kind = "tag"
                      /\ stands[scopes[scope].tags[t]] = cscopes[1].tags[t] /\ cscopes[1].tags[t] # 0
    OBVIOUS
  <2>1. scopes[scope].tags[t] \in DOMAIN idents /\ idents[scopes[scope].tags[t]].kind = "tag"
    BY <1>2, StructTags
  <2>2. stands[scopes[scope].tags[t]] # 0
    BY <1>1, <2>1 DEF StandsOK, StandOK
  <2>3. stands[scopes[scope].tags[t]] = cscopes[1].tags[t]
    BY <1>1, <1>2, <1>3, <1>4 DEF TagsOK
  <2> QED
    BY <2>1, <2>2, <2>3
<1>6. Lists = 0 /\ cscopes[1].tags[t] # 0 => scopes[scope].tags[t] # 0
  <2> SUFFICES ASSUME Lists = 0, cscopes[1].tags[t] # 0 PROVE scopes[scope].tags[t] # 0
    OBVIOUS
  <2>1. ~ \E k \in 1 .. Lists : TRUE
    OBVIOUS
  <2> QED
    BY <1>1, <1>2, <1>4, <2>1 DEF TagsOK
<1> QED
  BY <1>2, <1>5, <1>6 DEF IsStructTag

\* An enumerator and the tag before it, if there is one: the identifiers i
\* and k of kcc for the entities e and l of C.
EntsKept == \A x \in DOMAIN ents : x \in DOMAIN ents' /\ ents'[x] = ents[x]

EnumName(n, i, e) ==
  /\ i \in DOMAIN idents' /\ i # 0 /\ stands'[i] = e
  /\ idents'[i].kind = "enumerator" /\ idents'[i].linkage = "none"
  /\ idents'[i].scope = scope /\ idents'[i].ty = IntType
  /\ cscopes[1].names[n].ent = 0 /\ e \in DOMAIN ents' /\ e # 0
  /\ ents'[e].kind = "enumerator" /\ ents'[e].linkage = "none" /\ ents'[e].name = n

EnumTag(t, k, l) ==
  t # NoTag =>
    /\ k \in DOMAIN idents' /\ k # 0 /\ stands'[k] = l
    /\ idents'[k].kind = "tag" /\ idents'[k].linkage = "none" /\ idents'[k].ty = IntType
    /\ l \in DOMAIN ents' /\ l # 0
    /\ ents'[l].kind = "enum" /\ ents'[l].linkage = "none"

OnlyThese(t, i, k, e, l) ==
  /\ \A j \in DOMAIN idents' : j \in DOMAIN idents \/ j = i \/ (t # NoTag /\ j = k)
  /\ \A x \in DOMAIN ents' : x \in DOMAIN ents \/ x = e \/ (t # NoTag /\ x = l)

TablesAre ==
  /\ ents' \in Seq(EntityType) /\ cscopes' \in Seq(CScopeType)
  /\ stands' \in Seq(Nat) /\ Len(stands') = Len(idents')
  /\ DOMAIN cscopes' = DOMAIN cscopes

OtherScopes == \A r \in DOMAIN scopes : r # scope => scopes'[r] = scopes[r]

\* All of it, of an enumerator.
LEMMA EnumCoupled ==
  ASSUME SInv, SInv', Coupled, FlatOpen, FlatOpen', UNCHANGED <<scope, types, members, params>>,
         NEW t \in Tags \cup {NoTag}, NEW n \in Names, NEW i, NEW k, NEW e, NEW l,
         SameChains, OneUsual(scope, n), OtherScopes, scopes'[scope].usual[n] = i,
         TagSet(t, k, l), CNamed(cscopes, n, e, IntType), TablesAre,
         IdentsKept, EntsKept, OnlyThese(t, i, k, e, l), EnumName(n, i, e), EnumTag(t, k, l),
         last'.ident = i
  PROVE  Coupled'
<1>1. TablesOK /\ TablesOK' /\ StackOK /\ StackOK'
  BY DEF SInv
<1>2. /\ ChainsOK /\ UsualOK /\ TagTypesOK /\ UnopenedOK /\ StructsOK /\ CTablesOK /\ RangesOK
  BY DEF Coupled
<1>3. Lists = 0 /\ Lists' = 0 /\ Around' = scope /\ OpenListsOK' /\ Around = scope
  BY <1>1, FlatLists DEF FlatOpen, Lists, Around, ScopeAt
<1>4. ScopesCarried /\ TypesCarried /\ DOMAIN scopes' = DOMAIN scopes /\ ListScopes' = ListScopes
  BY <1>1, SameCarried, SameLists
<1>5. At(scope, cscopes) /\ scope \in DOMAIN scopes /\ scope \notin ListScopes
  BY <1>1, <1>3, AtAround DEF At
<1>6. /\ Len(cscopes) \in Nat /\ Len(cscopes) >= 1 /\ DOMAIN cscopes = 1 .. Len(cscopes)
      /\ Len(cscopes') = Len(cscopes) /\ cscopes' \in Seq(CScopeType) /\ cscopes' # <<>>
  <2>1. /\ Len(cscopes) \in Nat /\ Len(cscopes) >= 1 /\ DOMAIN cscopes = 1 .. Len(cscopes)
    BY <1>1, <1>5, AtDomains
  <2>2. Len(cscopes') = Len(cscopes) /\ cscopes' \in Seq(CScopeType)
    BY DEF CNamed, TablesAre
  <2> HIDE DEF CScopeType
  <2> QED
    BY <2>1, <2>2
<1>7. EntsCarried /\ IdentsCarried
  BY KeptCarried DEF CNamed
<1>8. \A j \in DOMAIN idents : idents[j].kind = "tag" => stands[j] \in DOMAIN ents
  <2>1. stands \in Seq(Nat) /\ Len(stands) = Len(idents) /\ DOMAIN idents = 1 .. Len(idents)
    BY <1>1, <1>2, Domains DEF CTablesOK
  <2> QED
    BY <1>2, <2>1 DEF RangesOK, Coupled, StandsOK, StandOK
<1>9. CTablesOK'
  <2>1. CScopeType' = CScopeType /\ EntityType' = EntityType
    BY DEF CScopeType, EntityType
  <2> QED
    BY <1>2, <1>6, <2>1 DEF CTablesOK, TablesAre
<1>10. RangesOK'
  <2>1. \A j \in DOMAIN cscopes, m \in Names :
          LET x == cscopes'[j].names[m]
          IN  x = cscopes[j].names[m] \/ (x.ent \in DOMAIN ents' /\ ents'[x.ent].name = m)
    BY DEF CNamed, EnumName
  <2>2. \A j \in DOMAIN cscopes, x \in Tags :
          LET y == cscopes'[j].tags[x]
          IN  y = cscopes[j].tags[x] \/ y \in DOMAIN ents'
    <3> TAKE j \in DOMAIN cscopes, x \in Tags
    <3>1. x # NoTag
      BY DeclaratorsAssumption
    <3> QED
      BY <3>1 DEF TagSet, EnumTag
  <2>3. \A j \in DOMAIN stands' : stands'[j] # 0 => stands'[j] \in DOMAIN ents'
    <3> SUFFICES ASSUME NEW j \in DOMAIN stands', stands'[j] # 0 PROVE stands'[j] \in DOMAIN ents'
      OBVIOUS
    <3>1. j \in DOMAIN idents'
      BY DEF TablesAre
    <3>2. CASE j \in DOMAIN idents
      <4>1. j \in DOMAIN stands
        BY <1>2, <3>2 DEF CTablesOK
      <4> QED
        BY <1>2, <3>2, <4>1 DEF IdentsKept, EntsKept, RangesOK
    <3> QED
      BY <3>1, <3>2 DEF OnlyThese, EnumName, EnumTag
  <2> QED
    BY <1>7, <2>1, <2>2, <2>3, RangesKept DEF TablesAre
<1>11. ChainsOK'
  BY <1>1, <1>2, KeptChains
<1>12. UsualOK'
  <2>1. UsualAt(scope, n)'
    BY <1>3, <1>4, <1>5 DEF UsualAt, EnumName
  <2>2. \A r \in DOMAIN scopes', m \in Names :
          \/ r \in DOMAIN scopes /\ scopes'[r].usual[m] = scopes[r].usual[m]
          \/ UsualAt(r, m)'
    <3> SUFFICES ASSUME NEW r \in DOMAIN scopes', NEW m \in Names
                 PROVE  \/ r \in DOMAIN scopes /\ scopes'[r].usual[m] = scopes[r].usual[m]
                        \/ UsualAt(r, m)'
      OBVIOUS
    <3>1. CASE r = scope /\ m = n
      BY <2>1, <3>1 DEF UsualAt
    <3>2. CASE ~(r = scope /\ m = n)
      BY <1>4, <3>2 DEF OneUsual
    <3> QED
      BY <3>1, <3>2
  <2> QED
    BY <1>1, <1>2, <1>4, <1>7, <2>2, UsualCarried
<1>13. TagTypesOK'
  <2>1. \A r \in DOMAIN scopes', x \in Tags :
          \/ r \in DOMAIN scopes /\ scopes'[r].tags[x] = scopes[r].tags[x]
          \/ TagTypeAt(r, x)'
    <3> SUFFICES ASSUME NEW r \in DOMAIN scopes', NEW x \in Tags
                 PROVE  \/ r \in DOMAIN scopes /\ scopes'[r].tags[x] = scopes[r].tags[x]
                        \/ TagTypeAt(r, x)'
      OBVIOUS
    <3>1. CASE r = scope /\ x = t
      <4>1. scopes'[r].tags[x] = k /\ t # NoTag
        BY <1>4, <3>1, DeclaratorsAssumption DEF TagSet
      <4>2. idents'[k].ty.k # "struct"
        BY <4>1 DEF EnumTag, IntType
      <4> QED
        BY <4>1, <4>2 DEF TagTypeAt, IsStructTag
    <3>2. CASE ~(r = scope /\ x = t)
      BY <1>4, <3>2 DEF TagSet
    <3> QED
      BY <3>1, <3>2
  <2> QED
    BY <1>1, <1>2, <1>4, <1>7, <2>1, TagTypesCarried
<1>14. UnopenedOK'
  <2>1. \A r \in ListScopes : r \in DOMAIN scopes /\ r # scope
    BY <1>1, <1>5, Domains DEF ListScopes
  <2> QED
    BY <1>1, <1>2, <1>3, <2>1, FlatUnopened DEF OtherScopes
<1>15. NamesOK(Around, cscopes)' /\ TagsOK(Around, cscopes)'
  <2>1. PICK s, cs : s = scope /\ cs = cscopes
    OBVIOUS
  <2>2. NamesOK(s, cscopes)'
    <3>1. TypesChanged(cs, e)
      BY DEF TypesChanged, IdentsKept
    <3>2. EntryAfter(s, cs, n, e, IntType)
      BY <2>1 DEF EntryAfter, EnumName
    <3>3. At(s, cs) /\ CNamed(cs, n, e, IntType) /\ OneUsual(s, n)
      BY <1>5, <2>1
    <3> QED
      BY <1>1, <1>7, <3>1, <3>2, <3>3, EnteredNames
  <2>3. TagsOK(s, cscopes)'
    <3>1. scopes'[s].chain = scopes[s].chain
      BY <1>5, <2>1 DEF SameChains
    <3>2. \A q \in 1 .. Lists : \E m \in 1 .. Lists' : ScopeAt(m)' = ScopeAt(q)
      BY <1>3
    <3>3. t \in Tags => t # NoTag
      BY DeclaratorsAssumption
    <3>4. t \in Tags => k # 0 /\ l # 0 /\ stands'[k] = l
      BY <3>3 DEF EnumTag
    <3>5. TagSet(t, k, l) /\ DOMAIN cscopes' = DOMAIN cscopes
      BY DEF TablesAre
    <3>6. s = Around
      BY <1>3, <2>1
    <3>7. \A r \in DOMAIN scopes' : r \in DOMAIN scopes \/ \A x \in Tags : scopes'[r].tags[x] = 0
      BY <1>4
    <3>8. TablesOK /\ StackOK /\ Coupled /\ ScopesCarried /\ IdentsKept
      BY <1>1, <1>4
    <3> QED
      BY <3>1, <3>2, <3>4, <3>5, <3>6, <3>7, <3>8, TagsEntered
  <2> QED
    BY <1>3, <2>1, <2>2, <2>3, NamesMoved
<1>16. LinkedOK'
  <2>1. \A x \in DOMAIN ents' : ents'[x].linkage # "none" =>
          /\ x \in DOMAIN ents /\ ents'[x].name = ents[x].name /\ ents'[x].kind = ents[x].kind
          /\ ents'[x].linkage = ents[x].linkage /\ ents'[x].ty = ents[x].ty
    BY DEF EntsKept, OnlyThese, EnumName, EnumTag
  <2>2. \A m \in Names : LET x == cscopes[Len(cscopes)].names[m]
                         IN  x.ent # 0 => cscopes'[Len(cscopes)].names[m] = x
    <3>1. Len(cscopes) \in DOMAIN cscopes
      BY <1>6
    <3> QED
      BY <3>1 DEF CNamed, EnumName
  <2> QED
    BY <1>6, <2>1, <2>2, LinkedKept
<1>17. StandsOK'
  <2>1. \A j \in DOMAIN idents' : j \in DOMAIN idents \/ StandOK(j)'
    <3>1. StandOK(i)'
      BY DEF StandOK, LinkageOf, EnumName
    <3>2. t # NoTag => StandOK(k)'
      BY DEF StandOK, LinkageOf, EnumTag, IntType
    <3> QED
      BY <3>1, <3>2 DEF OnlyThese
  <2>2. \A j \in DOMAIN idents : idents[j].kind = "tag" => ents'[stands[j]].def = ents[stands[j]].def
    BY <1>8 DEF EntsKept
  <2> QED
    BY <1>1, <1>7, <2>1, <2>2, StandsKept
<1>18. StructsOK'
  <2>1. \A j \in DOMAIN idents' :
          j \in DOMAIN idents \/ idents'[j].kind # "tag" \/ idents'[j].ty.k # "struct"
    BY DEF OnlyThese, EnumName, EnumTag, IntType
  <2> QED
    BY <1>2, <1>4, <1>7, <2>1, StructsCarried
<1>19. ParamsOK'
  BY DEF ParamsOK, EnumName
<1> QED
  BY <1>3, <1>9, <1>10, <1>11, <1>12, <1>13, <1>14, <1>15, <1>16, <1>17, <1>18, <1>19 DEF Coupled

\* The tag of an enumeration, if it has one.
LEMMA NoneOrOne ==
  ASSUME NEW S, NEW h \in S, NEW t, NEW new, new = IF t = NoTag THEN <<>> ELSE <<h>>
  PROVE  /\ new \in Seq(S) /\ Len(new) \in {0, 1}
         /\ t = NoTag => Len(new) = 0
         /\ t # NoTag => Len(new) = 1 /\ new[1] = h
OBVIOUS

LEMMA MoreNumbers ==
  ASSUME NEW p \in Nat, NEW w \in {0, 1}, NEW t, t = NoTag => w = 0, t # NoTag => w = 1,
         NEW i, i = p + w + 1, NEW k, k = p + 1
  PROVE  /\ i \in Nat /\ i # 0 /\ i \in 1 .. i /\ k \in Nat /\ k # 0
         /\ \A j \in 1 .. i : j \in 1 .. p \/ j = i \/ (t # NoTag /\ j = k)
         /\ t = NoTag => i = p + 1
         /\ t # NoTag => i = p + 2 /\ k \in 1 .. i
OBVIOUS

\* What kcc does.
EnumIdents(t, n, k, i) ==
  /\ i = Len(idents') /\ i \in DOMAIN idents' /\ i # 0 /\ k \in Nat /\ k # 0
  /\ Len(idents) \in Nat
  /\ \A j \in DOMAIN idents : j \in DOMAIN idents' /\ idents'[j] = idents[j]
  /\ \A j \in DOMAIN idents' : j \in DOMAIN idents \/ j = i \/ (t # NoTag /\ j = k)
  /\ idents'[i].kind = "enumerator" /\ idents'[i].linkage = "none"
  /\ idents'[i].scope = scope /\ idents'[i].ty = IntType
  /\ t = NoTag => i = Len(idents) + 1
  /\ t # NoTag => /\ i = Len(idents) + 2 /\ k \in DOMAIN idents'
                  /\ idents'[k].kind = "tag" /\ idents'[k].linkage = "none"
                  /\ idents'[k].ty = IntType
  /\ scopes' = [InsertTag(scope, t, NewIdent) EXCEPT ![scope].usual[n] = i]
  /\ last'.ident = i

\* The numbers of what is entered.
LEMMA EnumIdentifiers ==
  ASSUME TablesOK, scope \in DOMAIN scopes, NEW t \in Tags \cup {NoTag}, NEW n \in Names,
         Enum(t, n), verdict' = verdict, verdict = "ok", NEW k, k = Len(idents) + 1
  PROVE  \E i \in Nat : EnumIdents(t, n, k, i)
<1> DEFINE h == Ident("tag", t, IntType, "none", "", scope)
           x == Ident("enumerator", n, IntType, "none", "", scope)
           S == IdentType \cup {h, x}
<1>1. PICK new : new = IF t = NoTag THEN <<>> ELSE <<h>>
  OBVIOUS
<1>2. /\ new \in Seq(S) /\ Len(new) \in {0, 1}
      /\ t = NoTag => Len(new) = 0
      /\ t # NoTag => Len(new) = 1 /\ new[1] = h
  <2>1. h \in S
    OBVIOUS
  <2> HIDE DEF S, h
  <2> QED
    BY <1>1, <2>1, NoneOrOne
<1>3. /\ idents' = idents \o new \o <<x>>
      /\ scopes' = [InsertTag(scope, t, NewIdent) EXCEPT ![scope].usual[n] = NewIdent + Len(new)]
      /\ last'.ident = NewIdent + Len(new)
  <2> DEFINE made == IF t = NoTag THEN <<>> ELSE <<h>>
  <2>1. verdict' # "error"
    OBVIOUS
  <2>2. /\ idents' = idents \o made \o <<x>>
        /\ scopes' = [InsertTag(scope, t, NewIdent) EXCEPT ![scope].usual[n] = NewIdent + Len(made)]
        /\ last' = [act |-> "declare", ident |-> NewIdent + Len(made)]
    BY <2>1, Zenon DEF Enum, Stop, Denotes
  <2>3. new = made
    BY <1>1
  <2> HIDE DEF made, x
  <2> QED
    BY <2>2, <2>3
<1>4. x \in S /\ idents \in Seq(S)
  <2>1. x \in S
    OBVIOUS
  <2>2. idents \in Seq(IdentType)
    BY DEF TablesOK
  <2>3. PICK T, q : T = IdentType /\ q = idents
    OBVIOUS
  <2>4. q \in Seq(T) /\ T \subseteq S
    BY <2>2, <2>3
  <2> HIDE DEF S, x
  <2>5. q \in Seq(S)
    BY <2>4
  <2> QED
    BY <2>1, <2>3, <2>5
<1>5. /\ x.kind = "enumerator" /\ x.linkage = "none" /\ x.scope = scope /\ x.ty = IntType
      /\ h.kind = "tag" /\ h.linkage = "none" /\ h.ty = IntType
  BY DEF Ident
<1> HIDE DEF S, x, h
<1>6. PICK a : a = idents'
  OBVIOUS
<1>7. PICK q : q = idents
  OBVIOUS
<1>8. a = q \o new \o <<x>> /\ q \in Seq(S)
  BY <1>3, <1>4, <1>6, <1>7
<1>9. /\ Len(q) \in Nat /\ DOMAIN q = 1 .. Len(q)
      /\ a \in Seq(S) /\ DOMAIN a = 1 .. Len(a) /\ Len(a) = Len(q) + Len(new) + 1
      /\ a[Len(a)] = x
      /\ \A j \in DOMAIN q : j \in DOMAIN a /\ a[j] = q[j]
      /\ Len(new) = 1 => a[Len(q) + 1] = new[1]
  <2>1. q \in Seq(S) /\ new \in Seq(S) /\ x \in S /\ a = q \o new \o <<x>> /\ Len(new) \in {0, 1}
    BY <1>2, <1>4, <1>8
  <2> QED
    BY <2>1, OneOrTwo
<1>10. PICK i : i = Len(a)
  OBVIOUS
<1>11. /\ i \in Nat /\ i \in DOMAIN a /\ i # 0 /\ k \in Nat /\ k # 0 /\ Len(q) \in Nat
       /\ \A j \in DOMAIN a : j \in DOMAIN q \/ j = i \/ (t # NoTag /\ j = k)
       /\ t = NoTag => i = Len(q) + 1
       /\ t # NoTag => i = Len(q) + 2 /\ k \in DOMAIN a
       /\ i = NewIdent + Len(new)
  <2>1. k = Len(q) + 1 /\ i = Len(q) + Len(new) + 1 /\ NewIdent = Len(q) + 1
    BY <1>7, <1>9, <1>10 DEF NewIdent
  <2>2. Len(new) \in {0, 1} /\ (t = NoTag => Len(new) = 0) /\ (t # NoTag => Len(new) = 1)
    BY <1>2
  <2>3. Len(q) \in Nat /\ DOMAIN q = 1 .. Len(q) /\ DOMAIN a = 1 .. i
    BY <1>9, <1>10
  <2>4. PICK w : w = Len(new)
    OBVIOUS
  <2>5. PICK p : p = Len(q)
    OBVIOUS
  <2>6. p \in Nat /\ w \in {0, 1} /\ i = p + w + 1 /\ k = p + 1 /\ (t = NoTag => w = 0) /\ (t # NoTag => w = 1)
    BY <2>1, <2>2, <2>3, <2>4, <2>5
  <2>7. /\ i \in Nat /\ i # 0 /\ i \in 1 .. i /\ k \in Nat /\ k # 0
        /\ \A j \in 1 .. i : j \in 1 .. p \/ j = i \/ (t # NoTag /\ j = k)
        /\ t = NoTag => i = p + 1
        /\ t # NoTag => i = p + 2 /\ k \in 1 .. i
    BY <2>6, MoreNumbers
  <2>8. i = NewIdent + Len(new)
    BY <2>1, <2>3, <2>2
  <2> QED
    BY <2>3, <2>5, <2>7, <2>8
<1>12. t # NoTag => a[k] = h
  BY <1>2, <1>7, <1>9
<1>13. scopes' = [InsertTag(scope, t, NewIdent) EXCEPT ![scope].usual[n] = i] /\ last'.ident = i
  BY <1>3, <1>11
<1>14. a[i] = x
  BY <1>9, <1>10
<1>15. EnumIdents(t, n, k, i)
  BY <1>5, <1>6, <1>7, <1>9, <1>10, <1>11, <1>12, <1>13, <1>14 DEF EnumIdents
<1> QED
  BY <1>11, <1>15

\* What C makes of an enumerator.
EnumEntered(t, n, l, e, m) ==
  /\ e = Len(ents') /\ e \in DOMAIN ents' /\ e # 0 /\ l \in Nat /\ l # 0
  /\ Len(ents) \in Nat /\ ents' \in Seq(EntityType) /\ EntsKept
  /\ \A j \in DOMAIN ents' : j \in DOMAIN ents \/ j = e \/ (t # NoTag /\ j = l)
  /\ ents'[e].kind = "enumerator" /\ ents'[e].linkage = "none" /\ ents'[e].name = n
  /\ t # NoTag => /\ l \in DOMAIN ents' /\ ents'[l].kind = "enum" /\ ents'[l].linkage = "none"
  /\ cscopes' = [WithTag(t, l) EXCEPT ![1].names[n] = [ent |-> e, ty |-> IntType]]
  /\ m = meant'
  /\ t = NoTag => Len(m) = 1 /\ m[1] = e
  /\ t # NoTag => Len(m) = 2 /\ m[1] = l /\ m[2] = e
  /\ UNCHANGED <<members, params, cverdict>>

LEMMA EnumMeant ==
  ASSUME Coupled, NEW t \in Tags \cup {NoTag}, NEW n \in Names, CEnum(t, n),
         TagIn(t) = 0, Here(cscopes, n).ent = 0, NEW l, l = Len(ents) + 1
  PROVE  \E e \in Nat, m \in Seq(Nat) : EnumEntered(t, n, l, e, m)
<1> DEFINE h == [TagEntity("enum", t) EXCEPT !.def = "yes"]
           x == Entity("enumerator", n, "none", IntType)
<1>1. PICK new : new = IF t = NoTag THEN <<>> ELSE <<h>>
  OBVIOUS
<1>2. h \in EntityType /\ x \in EntityType
  BY EnumEntities
<1>3. /\ x.kind = "enumerator" /\ x.linkage = "none" /\ x.name = n
      /\ h.kind = "enum" /\ h.linkage = "none"
  BY DEF Entity, TagEntity
<1>4. /\ new \in Seq(EntityType) /\ Len(new) \in {0, 1}
      /\ t = NoTag => Len(new) = 0
      /\ t # NoTag => Len(new) = 1 /\ new[1] = h
  <2> HIDE DEF h, x, EntityType
  <2> QED
    BY <1>1, <1>2, NoneOrOne
<1>5. PICK tag : tag = Named(t, NewEntity)
  OBVIOUS
<1>6. /\ Len(tag) = Len(new) /\ (tag = <<>>) = (t = NoTag)
      /\ t # NoTag => tag = <<NewEntity>>
  BY <1>4, <1>5 DEF Named
<1>7. PICK e : e = NewEntity + Len(tag)
  OBVIOUS
<1>8. /\ ents' = ents \o new \o <<x>>
      /\ cscopes' = [WithTag(t, NewEntity) EXCEPT ![1].names[n] = [ent |-> e, ty |-> IntType]]
      /\ meant' = tag \o <<e>>
      /\ UNCHANGED <<members, params, cverdict>>
  BY <1>1, <1>5, <1>6, <1>7 DEF CEnum
<1> HIDE DEF h, x
<1>9. PICK a : a = ents'
  OBVIOUS
<1>10. /\ Len(ents) \in Nat /\ DOMAIN ents = 1 .. Len(ents)
       /\ a \in Seq(EntityType) /\ DOMAIN a = 1 .. Len(a) /\ Len(a) = Len(ents) + Len(new) + 1
       /\ a[Len(a)] = x
       /\ \A j \in DOMAIN ents : j \in DOMAIN a /\ a[j] = ents[j]
       /\ Len(new) = 1 => a[Len(ents) + 1] = new[1]
  <2>1. PICK S, q : S = EntityType /\ q = ents
    OBVIOUS
  <2>2. q \in Seq(S) /\ new \in Seq(S) /\ x \in S /\ a = q \o new \o <<x>> /\ Len(new) \in {0, 1}
    BY <1>2, <1>4, <1>8, <1>9, <2>1, EntNumbers
  <2>3. /\ Len(q) \in Nat /\ DOMAIN q = 1 .. Len(q)
        /\ a \in Seq(S) /\ DOMAIN a = 1 .. Len(a) /\ Len(a) = Len(q) + Len(new) + 1
        /\ a[Len(a)] = x
        /\ \A j \in DOMAIN q : j \in DOMAIN a /\ a[j] = q[j]
        /\ Len(new) = 1 => a[Len(q) + 1] = new[1]
    BY <2>2, OneOrTwo
  <2> HIDE DEF EntityType
  <2> QED
    BY <2>1, <2>3
<1>11. /\ e \in Nat /\ e = Len(a) /\ e \in DOMAIN a /\ e # 0 /\ l \in Nat /\ l # 0 /\ l = NewEntity
       /\ \A j \in DOMAIN a : j \in DOMAIN ents \/ j = e \/ (t # NoTag /\ j = l)
       /\ t # NoTag => l \in DOMAIN a /\ a[l] = h
  <2>1. e = Len(a) /\ l = NewEntity /\ e \in Nat /\ l \in Nat
    BY <1>4, <1>6, <1>7, <1>10 DEF NewEntity
  <2>2. /\ Len(ents) \in Nat /\ DOMAIN ents = 1 .. Len(ents) /\ DOMAIN a = 1 .. e
        /\ e = Len(ents) + Len(new) + 1
        /\ Len(new) \in {0, 1} /\ (t = NoTag => Len(new) = 0) /\ (t # NoTag => Len(new) = 1)
    BY <1>4, <1>10, <2>1
  <2>3. PICK w : w = Len(new)
    OBVIOUS
  <2>4. PICK p : p = Len(ents)
    OBVIOUS
  <2>5. p \in Nat /\ w \in {0, 1} /\ e = p + w + 1 /\ l = p + 1 /\ (t = NoTag => w = 0) /\ (t # NoTag => w = 1)
    BY <2>2, <2>3, <2>4
  <2>6. /\ e \in Nat /\ e # 0 /\ e \in 1 .. e /\ l \in Nat /\ l # 0
        /\ \A j \in 1 .. e : j \in 1 .. p \/ j = e \/ (t # NoTag /\ j = l)
        /\ t # NoTag => l \in 1 .. e
    BY <2>5, MoreNumbers
  <2>7. t # NoTag => a[l] = h
    BY <1>4, <1>10
  <2> QED
    BY <2>1, <2>2, <2>4, <2>6, <2>7
<1>12. PICK m : m = meant'
  OBVIOUS
<1>13. /\ m \in Seq(Nat) /\ (t = NoTag => Len(m) = 1 /\ m[1] = e)
       /\ t # NoTag => Len(m) = 2 /\ m[1] = l /\ m[2] = e
  <2>1. CASE t = NoTag
    <3>1. m = <<e>>
      <4>1. tag = <<>> /\ m = tag \o <<e>>
        BY <1>6, <1>8, <1>12, <2>1
      <4> QED
        BY <1>11, <4>1
    <3> QED
      BY <1>11, <2>1, <3>1
  <2>2. CASE t # NoTag
    <3>1. tag = <<l>> /\ m = tag \o <<e>> /\ l \in Nat /\ e \in Nat
      BY <1>6, <1>8, <1>11, <1>12, <2>2
    <3>2. m = Append(tag, e) /\ tag \in Seq(Nat) /\ Len(tag) = 1 /\ tag[1] = l
      BY <3>1
    <3> QED
      BY <2>2, <3>1, <3>2
  <2> QED
    BY <2>1, <2>2
<1>14. EntsKept
  BY <1>9, <1>10 DEF EntsKept
<1>15. cscopes' = [WithTag(t, l) EXCEPT ![1].names[n] = [ent |-> e, ty |-> IntType]]
  BY <1>8, <1>11
<1>16. a[e] = x
  BY <1>10, <1>11
<1>17. e \in Nat /\ m \in Seq(Nat)
  BY <1>11, <1>13
<1>18. EnumEntered(t, n, l, e, m)
  BY <1>3, <1>8, <1>9, <1>10, <1>11, <1>12, <1>13, <1>14, <1>15, <1>16 DEF EnumEntered
<1> QED
  BY <1>17, <1>18

\* Both take the enumerator, or both report it.
LEMMA EnumVerdicts ==
  ASSUME TablesOK, StackOK, Coupled, NEW t \in Tags \cup {NoTag}, NEW n \in Names, Lists = 0,
         Forgotten(cscopes, n) = {}, Around = scope, Enum(t, n), CEnum(t, n)
  PROVE  LET bad == TagIn(t) # 0 \/ Here(cscopes, n).ent # 0
         IN  /\ bad => Stop("error") /\ Breaks("constraint")
             /\ ~bad => verdict' = verdict /\ UNCHANGED <<scope, types, open>>
<1>1. At(scope, cscopes)
  BY AtAround
<1>2. KnownHere(scope, cscopes, n)
  BY <1>1, NameHere
<1>3. (scopes[scope].usual[n] # 0) = (Here(cscopes, n).ent # 0)
  <2>1. scopes[scope].usual[n] = 0 => Here(cscopes, n).ent = 0
    BY <1>2 DEF KnownHere, Here, Forgotten, Known
  <2>2. scopes[scope].usual[n] # 0 => Here(cscopes, n).ent # 0
    BY <1>2 DEF KnownHere, Here, IdentFor, Stands
  <2> QED
    BY <2>1, <2>2
<1> DEFINE tag == IF t = NoTag THEN 0 ELSE scopes[scope].tags[t]
<1>4. (tag # 0) = (TagIn(t) # 0)
  <2>1. t # NoTag => (scopes[scope].tags[t] = 0) = (cscopes[1].tags[t] = 0)
    BY TagHere
  <2> QED
    BY <2>1 DEF TagIn
<1> DEFINE bad == TagIn(t) # 0 \/ Here(cscopes, n).ent # 0
<1>5. bad = (tag # 0 \/ scopes[scope].usual[n] # 0)
  BY <1>3, <1>4
<1>6. \/ (tag # 0 \/ scopes[scope].usual[n] # 0) /\ Stop("error")
      \/ ~(tag # 0 \/ scopes[scope].usual[n] # 0) /\ UNCHANGED <<scope, types, open>> /\ verdict' = verdict
  <2> HIDE DEF Stop
  <2> QED
    BY Zenon DEF Enum, Denotes, FindTagInCurrScope, FindUsualInCurrScope
<1>7. bad => Breaks("constraint")
  BY DEF CEnum
<1> HIDE DEF bad, tag
<1>8. (bad => Stop("error") /\ Breaks("constraint")) /\ (~bad => verdict' = verdict /\ UNCHANGED <<scope, types, open>>)
  BY <1>5, <1>6, <1>7
<1> QED
  BY <1>8 DEF bad

\* Both take it.
LEMMA EnumTaken ==
  ASSUME SInv, SInv', Coupled, NEW t \in Tags \cup {NoTag}, NEW n \in Names, FlatOpen,
         Enum(t, n), CEnum(t, n), UNCHANGED <<scope, types, open>>, verdict' = verdict, verdict = "ok",
         TagIn(t) = 0, Here(cscopes, n).ent = 0, NewStand
  PROVE  Coupled' /\ cverdict' = cverdict
<1>1. TablesOK /\ scope \in DOMAIN scopes
  BY DEF SInv, StackOK
<1>2. PICK k, l : k = Len(idents) + 1 /\ l = Len(ents) + 1
  OBVIOUS
<1>3. PICK i \in Nat : EnumIdents(t, n, k, i)
  BY <1>1, <1>2, EnumIdentifiers
<1>4. PICK e \in Nat, m \in Seq(Nat) : EnumEntered(t, n, l, e, m)
  BY <1>2, EnumMeant
<1>5. Len(idents') = Len(idents) + Len(m) /\ m = meant'
  <2>1. m = meant' /\ (t = NoTag => Len(m) = 1) /\ (t # NoTag => Len(m) = 2)
    BY <1>4 DEF EnumEntered
  <2>2. Len(idents) \in Nat /\ (t = NoTag => Len(idents') = Len(idents) + 1)
        /\ (t # NoTag => Len(idents') = Len(idents) + 2)
    BY <1>3 DEF EnumIdents
  <2> QED
    BY <2>1, <2>2
<1>6. /\ stands' \in Seq(Nat) /\ Len(stands') = Len(idents')
      /\ \A j \in DOMAIN idents : stands'[j] = stands[j]
      /\ \A j \in DOMAIN m : stands'[Len(idents) + j] = m[j]
  BY <1>1, <1>5, StandsAll
<1>7. stands'[i] = e /\ (t # NoTag => stands'[k] = l)
  <2>1. CASE t = NoTag
    <3>1. Len(m) = 1 /\ m[1] = e /\ i = Len(idents) + 1
      BY <1>3, <1>4, <2>1 DEF EnumEntered, EnumIdents
    <3> QED
      BY <1>6, <2>1, <3>1
  <2>2. CASE t # NoTag
    <3>1. Len(m) = 2 /\ m[1] = l /\ m[2] = e /\ i = Len(idents) + 2
      BY <1>3, <1>4, <2>2 DEF EnumEntered, EnumIdents
    <3>2. 1 \in DOMAIN m /\ 2 \in DOMAIN m
      BY <3>1
    <3> QED
      BY <1>2, <1>6, <3>1, <3>2
  <2> QED
    BY <2>1, <2>2
<1>8. IdentsKept
  BY <1>3, <1>6 DEF EnumIdents, IdentsKept
<1>9. EnumName(n, i, e) /\ EnumTag(t, k, l) /\ OnlyThese(t, i, k, e, l) /\ EntsKept /\ last'.ident = i
  BY <1>3, <1>4, <1>7 DEF EnumIdents, EnumEntered, EnumName, EnumTag, OnlyThese, Here
<1>10. /\ SameChains /\ OneUsual(scope, n) /\ scopes'[scope].usual[n] = i
       /\ \A r \in DOMAIN scopes, x \in Tags :
            scopes'[r].tags[x] = IF r = scope /\ x = t THEN k ELSE scopes[r].tags[x]
       /\ OtherScopes
  <2>1. scopes' = [InsertTag(scope, t, NewIdent) EXCEPT ![scope].usual[n] = i]
    BY <1>3 DEF EnumIdents
  <2>2. types' = types
    OBVIOUS
  <2>3. /\ SameChains /\ OneUsual(scope, n) /\ scopes'[scope].usual[n] = i
        /\ \A r \in DOMAIN scopes, x \in Tags :
             scopes'[r].tags[x] = IF r = scope /\ x = t THEN Len(idents) + 1 ELSE scopes[r].tags[x]
        /\ \A r \in DOMAIN scopes : r # scope => scopes'[r] = scopes[r]
    BY <1>1, <2>1, <2>2, EnumScopes
  <2> QED
    BY <1>2, <2>3 DEF OtherScopes
<1>11. /\ cscopes' \in Seq(CScopeType) /\ Len(cscopes') = Len(cscopes)
       /\ DOMAIN cscopes' = DOMAIN cscopes
       /\ \A j \in DOMAIN cscopes, y \in Names :
            cscopes'[j].names[y] = IF j = 1 /\ y = n THEN [ent |-> e, ty |-> IntType]
                                   ELSE cscopes[j].names[y]
       /\ \A j \in DOMAIN cscopes, y \in Tags :
            cscopes'[j].tags[y] = IF j = 1 /\ y = t THEN l ELSE cscopes[j].tags[y]
  <2>1. l \in Nat /\ cscopes' = [WithTag(t, l) EXCEPT ![1].names[n] = [ent |-> e, ty |-> IntType]]
    BY <1>4 DEF EnumEntered
  <2>2. l \in Nat /\ e \in Nat /\ t \in Tags \cup {NoTag} /\ n \in Names
    BY <2>1
  <2> HIDE DEF CScopeType
  <2>3. EnumScoped(t, n, l, e)
    BY <2>1 DEF EnumScoped
  <2>4. PICK w : w = cscopes'
    OBVIOUS
  <2>5. NamesTagged(w, t, n, l, e)
    BY <2>2, <2>3, <2>4, EnumNames
  <2> QED
    BY <2>4, <2>5 DEF NamesTagged
<1>12. TagSet(t, k, l)
  <2>1. t \in Tags => cscopes[1].tags[t] = 0
    BY DeclaratorsAssumption DEF TagIn
  <2> QED
    BY <1>10, <1>11, <2>1 DEF TagSet
<1>13. TablesAre /\ CNamed(cscopes, n, e, IntType)
  <2>1. ents' \in Seq(EntityType) /\ ents'[e].name = n /\ e # 0
    BY <1>4 DEF EnumEntered
  <2>2. EntsCarried
    BY <1>9 DEF EntsKept, EntsCarried
  <2> HIDE DEF CScopeType, EntityType
  <2> QED
    BY <1>6, <1>11, <2>1, <2>2 DEF TablesAre, CNamed
<1>14. /\ UNCHANGED <<scope, types, members, params>> /\ cverdict' = cverdict
  BY <1>4 DEF EnumEntered
<1>15. FlatOpen'
  BY <1>14 DEF FlatOpen, ListScopes
<1> QED
  BY <1>8, <1>9, <1>10, <1>12, <1>13, <1>14, <1>15, EnumCoupled

\* "enum t { n }".
LEMMA DefineEnumHeld ==
  ASSUME SInv, SInv', Coupled, NEW t \in Tags \cup {NoTag}, NEW n \in Names,
         DefineEnum(t, n), known' = {}
  PROVE  Held'
<1>1. TablesOK /\ StackOK
  BY DEF SInv
<1>2. /\ verdict = "ok" /\ cverdict = "ok" /\ ~In("struct") /\ Forgotten(cscopes, n) = {}
      /\ cverdict' = "ok" => NewStand
  <2>1. PICK differs : Both(differs) /\ differs =
          Known("enumeration in a struct", In("struct")) \cup Forgotten(cscopes, n)
    BY DEF DefineEnum
  <2>2. differs = {} /\ verdict = "ok" /\ cverdict = "ok" /\ (cverdict' = "ok" => NewStand)
    BY <2>1, OfBoth
  <2> QED
    BY <2>1, <2>2 DEF Known
<1>3. Enum(t, n) /\ CEnum(t, n)
  BY DEF DefineEnum
<1>4. FlatOpen /\ Lists = 0 /\ Around = scope
  BY <1>1, <1>2, FlatIn
<1>5. LET bad == TagIn(t) # 0 \/ Here(cscopes, n).ent # 0
      IN  /\ bad => Stop("error") /\ Breaks("constraint")
          /\ ~bad => verdict' = verdict /\ UNCHANGED <<scope, types, open>>
  BY <1>1, <1>2, <1>3, <1>4, EnumVerdicts
<1>6. CASE TagIn(t) # 0 \/ Here(cscopes, n).ent # 0
  BY <1>5, <1>6 DEF Stop, Breaks, Held
<1>7. CASE TagIn(t) = 0 /\ Here(cscopes, n).ent = 0
  <2>1. cverdict' = cverdict
    BY <1>3, <1>7 DEF CEnum
  <2>2. NewStand /\ verdict' = verdict /\ UNCHANGED <<scope, types, open>>
    BY <1>2, <1>5, <1>7, <2>1
  <2>3. Coupled'
    BY <1>2, <1>3, <1>4, <1>7, <2>2, EnumTaken
  <2> QED
    BY <1>2, <2>1, <2>2, <2>3 DEF Held
<1> QED
  BY <1>6, <1>7

---------------------------------------------------------------------------
(* Structs that are made.                                                *)

\* An open member list, apart from the stack: the scopes from the innermost
\* to what is around the lists are at[1] .. at[N], the list k of them is that
\* of the type y and the entity e, with the members ns.
ListAt(at, N, k, y, e, ns) ==
  /\ at[k] = types[y].scope
  /\ e \in DOMAIN ents /\ ents[e].kind = "struct"
  /\ \A n \in Names : (n \in ns) = (scopes[at[k]].usual[n] # 0)
  /\ \A i \in DOMAIN idents : IsStructTag(i) => (TypeOf(i) = y) = (stands[i] = e)
  /\ \A j \in 1 .. k, t \in Tags :
       IsStructTag(scopes[at[j]].tags[t]) => TypeOf(scopes[at[j]].tags[t]) # y
  /\ \A j \in k .. N : at[j] \in Within[at[k]]
  /\ \A j \in k + 1 .. N :
       /\ at[j] # at[k]
       /\ \A t \in Tags : scopes[at[k]].tags[t] = 0 \/ scopes[at[j]].tags[t] = 0

\* It says of the stack what OpenList does.
LEMMA ListsAt ==
  ASSUME TablesOK, StackOK, CTablesOK, OpenListsOK, NEW at, NEW N, N = Lists + 1,
         \A j \in 1 .. N : at[j] = ScopeAt(j), NEW k \in 1 .. Lists
  PROVE  ListAt(at, N, k, open[k].type, members[k].ent, members[k].names)
<1>1. OpenList(k) /\ Lists \in Nat
  BY ListsAround DEF OpenListsOK
<1>2. /\ k \in 1 .. N /\ k \in Nat /\ \A j \in 1 .. k : j \in 1 .. N
      /\ \A j \in k .. N : j \in 1 .. N /\ j \in k .. Lists + 1
      /\ \A j \in k + 1 .. N : j \in 1 .. N /\ j \in k + 1 .. Lists + 1
  BY <1>1
<1>3. /\ at[k] = types[open[k].type].scope
      /\ members[k].ent \in DOMAIN ents /\ ents[members[k].ent].kind = "struct"
      /\ \A n \in Names : (n \in members[k].names) = (scopes[at[k]].usual[n] # 0)
      /\ \A i \in DOMAIN idents :
           IsStructTag(i) => (TypeOf(i) = open[k].type) = (stands[i] = members[k].ent)
  BY <1>1, <1>2 DEF OpenList
<1>4. \A j \in 1 .. k, t \in Tags :
        IsStructTag(scopes[at[j]].tags[t]) => TypeOf(scopes[at[j]].tags[t]) # open[k].type
  BY <1>1, <1>2 DEF OpenList
<1>5. \A j \in k .. N : at[j] \in Within[at[k]]
  BY <1>1, <1>2 DEF OpenList
<1>6. \A j \in k + 1 .. N :
        /\ at[j] # at[k]
        /\ \A t \in Tags : scopes[at[k]].tags[t] = 0 \/ scopes[at[j]].tags[t] = 0
  BY <1>1, <1>2 DEF OpenList
<1> QED
  BY <1>3, <1>4, <1>5, <1>6 DEF ListAt

LEMMA Numbers ==
  ASSUME NEW L \in Nat, NEW N, N = L + 1, NEW k \in 1 .. L
  PROVE  /\ k \in 1 .. N /\ k \in Nat /\ \A j \in 1 .. k : j \in 1 .. N
         /\ \A j \in k .. L + 1 : j \in 1 .. N /\ j \in k .. N
         /\ \A j \in k + 1 .. L + 1 : j \in 1 .. N /\ j \in k + 1 .. N
OBVIOUS

\* The stack of the next state.
StackIs(at, N) == \A j \in 1 .. N : at[j] = ScopeAt(j)

\* And of the next state.
LEMMA AtLists ==
  ASSUME NEW at, NEW L \in Nat, L = Lists', NEW N, N = L + 1, StackIs(at, N)', NEW k \in 1 .. L,
         NEW y, y = open'[k].type, NEW e, e = members'[k].ent, NEW ns, ns = members'[k].names,
         ListAt(at, N, k, y, e, ns)'
  PROVE  OpenList(k)'
<1>2. /\ k \in 1 .. N /\ k \in Nat /\ \A j \in 1 .. k : j \in 1 .. N
      /\ \A j \in k .. L + 1 : j \in 1 .. N /\ j \in k .. N
      /\ \A j \in k + 1 .. L + 1 : j \in 1 .. N /\ j \in k + 1 .. N
  BY Numbers
<1>3. \A j \in 1 .. N : ScopeAt(j)' = at[j]
  BY DEF StackIs
<1>4. ScopeAt(k)' = at[k]
  BY <1>2, <1>3
<1>5. /\ ScopeAt(k)' = types'[open'[k].type].scope
      /\ members'[k].ent \in DOMAIN ents' /\ ents'[members'[k].ent].kind = "struct"
      /\ \A n \in Names : (n \in members'[k].names) = (scopes'[ScopeAt(k)'].usual[n] # 0)
      /\ \A i \in DOMAIN idents' :
           IsStructTag(i)' => (TypeOf(i)' = open'[k].type) = (stands'[i] = members'[k].ent)
  BY <1>4 DEF ListAt
<1>6. ASSUME NEW j \in 1 .. k, NEW t \in Tags
      PROVE  LET i == scopes'[at[j]].tags[t]
             IN  i # 0 /\ idents'[i].kind = "tag" /\ idents'[i].ty.k = "struct" => idents'[i].ty.n # y
  BY DEF ListAt, IsStructTag, TypeOf
<1>7. \A j \in k .. L + 1 : ScopeAt(j)' \in Within'[ScopeAt(k)']
  BY <1>2, <1>3, <1>4 DEF ListAt
<1>8. ASSUME NEW j \in k + 1 .. L + 1
      PROVE  /\ ScopeAt(j)' # ScopeAt(k)'
             /\ \A t \in Tags : scopes'[ScopeAt(k)'].tags[t] = 0 \/ scopes'[ScopeAt(j)'].tags[t] = 0
  <2>1. ScopeAt(j)' = at[j] /\ j \in k + 1 .. N
    BY <1>2, <1>3
  <2>2. \A i \in k + 1 .. N :
          /\ at[i] # at[k]
          /\ \A t \in Tags : scopes'[at[k]].tags[t] = 0 \/ scopes'[at[i]].tags[t] = 0
    BY DEF ListAt
  <2> QED
    BY <1>4, <2>1, <2>2
<1>9. ASSUME NEW j \in 1 .. k, NEW t \in Tags
      PROVE  LET i == scopes'[ScopeAt(j)'].tags[t]
             IN  i # 0 /\ idents'[i].kind = "tag" /\ idents'[i].ty.k = "struct"
                   => idents'[i].ty.n # open'[k].type
  <2>1. ScopeAt(j)' = at[j]
    BY <1>2, <1>3
  <2> QED
    BY <1>6, <2>1
<1>10. \A j \in k + 1 .. L + 1 :
        /\ ScopeAt(j)' # ScopeAt(k)'
        /\ \A t \in Tags : scopes'[ScopeAt(k)'].tags[t] = 0 \/ scopes'[ScopeAt(j)'].tags[t] = 0
  BY <1>8
<1> QED
  BY <1>5, <1>7, <1>9, <1>10 DEF OpenList, IsStructTag, TypeOf

\* One more open list or scope.
LEMMA OneMore ==
  ASSUME NEW S, NEW q \in Seq(S), NEW x, NEW new, new = <<x>> \o q
  PROVE  /\ Len(q) \in Nat /\ DOMAIN q = 1 .. Len(q)
         /\ Len(new) = Len(q) + 1 /\ DOMAIN new = 1 .. Len(q) + 1 /\ new[1] = x
         /\ \A j \in 1 .. Len(q) : new[j + 1] = q[j]
         /\ \A j \in 1 .. Len(q) + 1 : j # 1 => j - 1 \in DOMAIN q /\ new[j] = q[j - 1]
<1>1. PICK T : T = S \cup {x}
  OBVIOUS
<1>2. q \in Seq(T) /\ <<x>> \in Seq(T) /\ Len(<<x>>) = 1 /\ <<x>>[1] = x
  BY <1>1
<1>3. /\ new \in Seq(T) /\ Len(new) = 1 + Len(q)
      /\ \A i \in 1 .. 1 + Len(q) : new[i] = IF i <= 1 THEN <<x>>[i] ELSE q[i - 1]
  BY <1>2, ConcatProperties
<1>4. Len(q) \in Nat /\ DOMAIN q = 1 .. Len(q) /\ DOMAIN new = 1 .. Len(new)
  BY <1>2, <1>3
<1>5. new[1] = x
  BY <1>2, <1>3, <1>4
<1>6. ASSUME NEW j \in 1 .. Len(q) PROVE new[j + 1] = q[j]
  <2>1. j + 1 \in 1 .. 1 + Len(q) /\ ~(j + 1 <= 1) /\ j + 1 - 1 = j
    BY <1>4
  <2> QED
    BY <1>3, <2>1
<1>7. ASSUME NEW j \in 1 .. Len(q) + 1, j # 1 PROVE j - 1 \in DOMAIN q /\ new[j] = q[j - 1]
  <2>1. j \in 1 .. 1 + Len(q) /\ ~(j <= 1) /\ j - 1 \in 1 .. Len(q)
    BY <1>4, <1>7
  <2> QED
    BY <1>3, <1>4, <2>1
<1> QED
  BY <1>3, <1>4, <1>5, <1>6, <1>7

\* The stack with one more list open.
LEMMA StackMore ==
  ASSUME StackOK, CTablesOK, OpenListsOK, NEW o, NEW m, o.what = "struct", o.back = scope,
         open' = <<o>> \o open, members' = <<m>> \o members
  PROVE  /\ Lists \in Nat /\ Lists' = Lists + 1 /\ Lists' <= Len(open')
         /\ open'[1] = o /\ members'[1] = m
         /\ \A k \in 1 .. Lists : open'[k + 1] = open[k] /\ members'[k + 1] = members[k]
         /\ ScopeAt(1)' = scope' /\ \A j \in 1 .. Lists + 1 : ScopeAt(j + 1)' = ScopeAt(j)
         /\ Around' = Around
         /\ \A k \in DOMAIN open' :
              /\ (open'[k].what = "struct") = (k <= Lists')
              /\ open'[k].what = "proto" => Kind(open'[k].decl) = "func" /\ ~open'[k].decl.init
<1>1. PICK q, p, a, b : q = open /\ p = members /\ a = open' /\ b = members'
  OBVIOUS
<1>2. PICK S : S = OpenType
  OBVIOUS
<1>3. q \in Seq(S)
  BY <1>1, <1>2 DEF StackOK
<1>4. PICK T : p \in Seq(T)
  BY <1>1 DEF CTablesOK
<1>5. /\ Len(q) \in Nat /\ DOMAIN q = 1 .. Len(q)
      /\ Len(a) = Len(q) + 1 /\ DOMAIN a = 1 .. Len(q) + 1 /\ a[1] = o
      /\ \A j \in 1 .. Len(q) : a[j + 1] = q[j]
      /\ \A j \in 1 .. Len(q) + 1 : j # 1 => j - 1 \in DOMAIN q /\ a[j] = q[j - 1]
  BY <1>1, <1>3, OneMore
<1>6. /\ Len(p) \in Nat /\ Len(b) = Len(p) + 1 /\ b[1] = m
      /\ \A j \in 1 .. Len(p) : b[j + 1] = p[j]
  BY <1>1, <1>4, OneMore
<1>7. /\ Lists = Len(p) /\ Lists' = Len(p) + 1 /\ Len(p) <= Len(q)
  BY <1>1, <1>6 DEF Lists, OpenListsOK
<1>8. \A k \in 1 .. Lists : open'[k + 1] = open[k] /\ members'[k + 1] = members[k]
  BY <1>1, <1>5, <1>6, <1>7
<1>9. ASSUME NEW j \in 1 .. Lists + 1 PROVE ScopeAt(j + 1)' = ScopeAt(j)
  <2>1. j \in Nat /\ j + 1 # 1 /\ j + 1 - 1 = j
    BY <1>6, <1>7
  <2>2. ScopeAt(j + 1)' = open'[j].back
    <3>1. PICK i : i = j + 1
      OBVIOUS
    <3>2. i # 1 /\ i - 1 = j
      BY <2>1, <3>1
    <3>3. ScopeAt(i)' = open'[i - 1].back
      BY <3>2 DEF ScopeAt
    <3> QED
      BY <3>1, <3>2, <3>3
  <2>3. CASE j = 1
    BY <1>1, <1>5, <2>2, <2>3 DEF ScopeAt
  <2>4. CASE j # 1
    <3>1. a[j] = q[j - 1]
      BY <1>5, <1>6, <1>7, <2>4
    <3> QED
      BY <1>1, <2>2, <2>4, <3>1 DEF ScopeAt
  <2> QED
    BY <2>3, <2>4
<1>10. ScopeAt(1)' = scope'
  BY DEF ScopeAt
<1>11. Around' = Around
  <2>1. Lists' = Lists + 1 /\ Lists + 1 \in 1 .. Lists + 1
    BY <1>6, <1>7
  <2>2. PICK j : j = Lists + 1
    OBVIOUS
  <2>3. Around' = ScopeAt(j + 1)'
    BY <2>1, <2>2 DEF Around
  <2>4. Around = ScopeAt(j)
    BY <2>2 DEF Around
  <2> QED
    BY <1>9, <2>1, <2>2, <2>3, <2>4
<1>12. ASSUME NEW k \in DOMAIN open'
       PROVE  /\ (open'[k].what = "struct") = (k <= Lists')
              /\ open'[k].what = "proto" => Kind(open'[k].decl) = "func" /\ ~open'[k].decl.init
  <2>1. CASE k = 1
    <3>1. open'[1].what = "struct" /\ 1 <= Lists'
      BY <1>1, <1>5, <1>6, <1>7
    <3> QED
      BY <2>1, <3>1
  <2>2. CASE k # 1
    <3>1. k \in 1 .. Len(q) + 1 /\ k - 1 \in DOMAIN q /\ a[k] = q[k - 1]
      BY <1>1, <1>5, <2>2
    <3>2. PICK j : j = k - 1
      OBVIOUS
    <3>3. /\ (open[j].what = "struct") = (j <= Lists)
          /\ open[j].what = "proto" => Kind(open[j].decl) = "func" /\ ~open[j].decl.init
      BY <1>1, <3>1, <3>2 DEF OpenListsOK
    <3>4. (j <= Lists) = (k <= Lists')
      BY <1>5, <1>6, <1>7, <3>1, <3>2
    <3> QED
      BY <1>1, <3>1, <3>2, <3>3, <3>4
  <2> QED
    BY <2>1, <2>2
<1>13. Lists \in Nat /\ Lists' = Lists + 1 /\ Lists' <= Len(open')
  BY <1>1, <1>5, <1>6, <1>7
<1>14. open'[1] = o /\ members'[1] = m
  BY <1>1, <1>5, <1>6
<1> QED
  BY <1>8, <1>9, <1>10, <1>11, <1>12, <1>13, <1>14

\* A struct is made with the scope u and the number y, its tag, if it has
\* one, with the number k for the entity l.
ScopeMade(u) ==
  /\ Grown(scope) /\ u = Len(scopes) + 1
  /\ \A r \in DOMAIN scopes, n \in Names : scopes'[r].usual[n] = scopes[r].usual[n]
  /\ \A n \in Names : scopes'[u].usual[n] = 0
  /\ \A x \in Tags : scopes'[u].tags[x] = 0

TypeMade(u, y) ==
  /\ y \notin DOMAIN types /\ DOMAIN types' = DOMAIN types \cup {y}
  /\ types'[y].scope = u /\ types'[y].complete = FALSE
  /\ \A z \in DOMAIN types : types'[z] = types[z]

TagMade(t, y, k, l) ==
  /\ IdentsKept
  /\ \A j \in DOMAIN idents' : j \in DOMAIN idents \/ (t # NoTag /\ j = k)
  /\ t # NoTag =>
       /\ k \in DOMAIN idents' /\ k \notin DOMAIN idents /\ k # 0 /\ stands'[k] = l
       /\ idents'[k].kind = "tag" /\ idents'[k].linkage = "none"
       /\ idents'[k].ty.k = "struct" /\ idents'[k].ty.n = y

EntMade(l) ==
  /\ EntsKept /\ l # 0 /\ l \notin DOMAIN ents /\ DOMAIN ents' = DOMAIN ents \cup {l}
  /\ ents'[l].kind = "struct" /\ ents'[l].linkage = "none" /\ ents'[l].def = "no"

SameNames ==
  /\ Len(cscopes') = Len(cscopes)
  /\ \A j \in DOMAIN cscopes, m \in Names : cscopes'[j].names[m] = cscopes[j].names[m]

\* The scope of the struct is within where it is made.
LEMMA MadeScopes ==
  ASSUME TablesOK, TablesOK', ChainsOK, scope \in DOMAIN scopes, NEW u, NEW y,
         ScopeMade(u), TypeMade(u, y)
  PROVE  /\ u \notin DOMAIN scopes /\ DOMAIN scopes' = DOMAIN scopes \cup {u}
         /\ ListScopes' = ListScopes \cup {u} /\ u \notin ListScopes
         /\ ScopesCarried /\ TypesCarried /\ ChainsOK'
         /\ Within'[u] = {u} \cup Within[scope]
<1>1. u = Len(scopes) + 1 /\ Grown(scope)
  BY DEF ScopeMade
<1>2. u \notin DOMAIN scopes
  BY <1>1, Domains
<1>3. ListScopes \subseteq DOMAIN scopes
  BY Domains DEF ListScopes
<1>4. ListScopes' = ListScopes \cup {u}
  <2>1. \A r : r \in ListScopes' <=> \E z \in DOMAIN types' : types'[z].scope = r
    BY DEF ListScopes
  <2>2. \A r : r \in ListScopes <=> \E z \in DOMAIN types : types[z].scope = r
    BY DEF ListScopes
  <2>3. /\ DOMAIN types' = DOMAIN types \cup {y} /\ types'[y].scope = u
        /\ \A z \in DOMAIN types : types'[z] = types[z]
    BY DEF TypeMade
  <2>4. \A r : r \in ListScopes' <=> r \in ListScopes \/ r = u
    BY <2>1, <2>2, <2>3
  <2> QED
    BY <2>4
<1>5. \A r \in DOMAIN scopes : (r \in ListScopes') = (r \in ListScopes)
  BY <1>2, <1>4
<1>6. Len(scopes) + 1 \notin ListScopes' => scope \notin ListScopes
  BY <1>1, <1>4
<1>7. ScopesCarried
  BY <1>1, <1>5, <1>6, GrownCarried
<1>8. TypesCarried
  BY DEF TypesCarried, TypeMade
<1>9. /\ DOMAIN scopes' = DOMAIN scopes \cup {u}
      /\ \A q \in DOMAIN scopes' : ChainOK(q)'
      /\ Within'[u] = {u} \cup Within[scope]
  <2>1. LET new == Len(scopes) + 1
        IN  /\ DOMAIN scopes' = DOMAIN scopes \cup {new}
            /\ \A q \in DOMAIN scopes' : ChainOK(q)'
            /\ \A r \in DOMAIN scopes : Within'[r] = Within[r]
            /\ new \in ListScopes' => Within'[new] = {new} \cup Within[scope]
            /\ new \notin ListScopes' => Within'[new] = {new}
    BY <1>1, <1>5, <1>6, GrownWithin
  <2>2. u \in ListScopes'
    BY <1>4
  <2> QED
    BY <1>1, <2>1, <2>2
<1>10. ChainsOK'
  <2>1. 1 \in DOMAIN scopes' /\ scopes'[1].type = "file"
    BY <1>7 DEF ChainsOK, ScopesCarried
  <2>2. ASSUME NEW a \in DOMAIN types', NEW b \in DOMAIN types', types'[a].scope = types'[b].scope
        PROVE  a = b
    <3>1. \A z \in DOMAIN types : types'[z].scope # u /\ types'[z].scope = types[z].scope
      BY <1>2, Domains DEF TypeMade
    <3>2. \A c \in DOMAIN types' : c \in DOMAIN types \/ c = y
      BY DEF TypeMade
    <3>3. types'[y].scope = u
      BY DEF TypeMade
    <3> QED
      BY <2>2, <3>1, <3>2, <3>3 DEF ChainsOK
  <2> QED
    BY <1>9, <2>1, <2>2 DEF ChainsOK
<1> QED
  BY <1>2, <1>3, <1>4, <1>7, <1>8, <1>9, <1>10

\* What is entered is in order.
LEMMA MadeEntries ==
  ASSUME TablesOK, TablesOK', StackOK, Coupled, NEW t \in Tags \cup {NoTag}, NEW u, NEW y, NEW k, NEW l,
         ScopeMade(u), TypeMade(u, y), TagMade(t, y, k, l), EntMade(l), TagSet(t, k, l)
  PROVE  UsualOK' /\ TagTypesOK'
<1>1. ChainsOK /\ UsualOK /\ TagTypesOK /\ scope \in DOMAIN scopes
  BY DEF Coupled, StackOK
<1>2. /\ u \notin DOMAIN scopes /\ DOMAIN scopes' = DOMAIN scopes \cup {u}
      /\ ScopesCarried /\ TypesCarried /\ Within'[u] = {u} \cup Within[scope]
  BY <1>1, MadeScopes
<1>3. IdentsCarried
  BY KeptCarried DEF TagMade
<1>4. UsualOK'
  <2>1. \A n \in Names : UsualAt(u, n)'
    BY DEF UsualAt, ScopeMade
  <2>2. \A r \in DOMAIN scopes', n \in Names :
          \/ r \in DOMAIN scopes /\ scopes'[r].usual[n] = scopes[r].usual[n]
          \/ UsualAt(r, n)'
    <3> TAKE r \in DOMAIN scopes', n \in Names
    <3>1. r \in DOMAIN scopes => scopes'[r].usual[n] = scopes[r].usual[n]
      BY DEF ScopeMade
    <3>2. r = u => UsualAt(r, n)'
      BY <2>1
    <3> QED
      BY <1>2, <3>1, <3>2
  <2> QED
    BY <1>1, <1>2, <1>3, <2>2, UsualCarried
<1>5. TagTypesOK'
  <2>1. \A x \in Tags : TagTypeAt(u, x)'
    BY DEF TagTypeAt, IsStructTag, ScopeMade
  <2>0. PICK s : s = scope
    OBVIOUS
  <2>2. t # NoTag => TagTypeAt(s, t)'
    <3>1. scope \in Within'[u]
      BY <1>1, <1>2, InsideSelf
    <3>2. t # NoTag => scopes'[scope].tags[t] = k
      BY <1>1 DEF TagSet
    <3> QED
      BY <2>0, <3>1, <3>2 DEF TagTypeAt, TypeOf, TagMade, TypeMade
  <2>3. \A r \in DOMAIN scopes', x \in Tags :
          \/ r \in DOMAIN scopes /\ scopes'[r].tags[x] = scopes[r].tags[x]
          \/ TagTypeAt(r, x)'
    <3> TAKE r \in DOMAIN scopes', x \in Tags
    <3>1. r \in DOMAIN scopes => scopes'[r].tags[x] = IF r = scope /\ x = t THEN k ELSE scopes[r].tags[x]
      BY DEF TagSet
    <3>2. x = t => t # NoTag
      BY DeclaratorsAssumption
    <3> QED
      BY <1>2, <2>0, <2>1, <2>2, <3>1, <3>2
  <2> QED
    BY <1>1, <1>2, <1>3, <2>3, TagTypesCarried
<1> QED
  BY <1>4, <1>5

\* The names and the tags correspond.
LEMMA MadeNames ==
  ASSUME TablesOK, TablesOK', StackOK, Coupled, NEW t \in Tags \cup {NoTag}, NEW u, NEW y, NEW k, NEW l,
         ScopeMade(u), TypeMade(u, y), TagMade(t, y, k, l), EntMade(l), TagSet(t, k, l), SameNames,
         DOMAIN cscopes' = DOMAIN cscopes, NEW b, b = Around,
         \A j \in 1 .. Lists : \E m \in 1 .. Lists' : ScopeAt(m)' = ScopeAt(j)
  PROVE  NamesOK(b, cscopes)' /\ TagsOK(b, cscopes)'
<1>1. /\ ChainsOK /\ scope \in DOMAIN scopes
  BY DEF Coupled, StackOK
<1>2. /\ u \notin DOMAIN scopes /\ DOMAIN scopes' = DOMAIN scopes \cup {u}
      /\ ScopesCarried /\ IdentsKept
  BY <1>1, MadeScopes DEF TagMade
<1>3. EntsCarried
  BY DEF EntMade, EntsKept, EntsCarried
<1>4. PICK cs : cs = cscopes
  OBVIOUS
<1>5. At(b, cs) /\ b \in DOMAIN scopes
  BY <1>4, AtAround DEF At
<1>6. scopes'[b].chain = scopes[b].chain /\ \A r \in DOMAIN scopes : scopes'[r].type = scopes[r].type
  BY <1>5 DEF ScopeMade, Grown
<1>7. NamesOK(b, cscopes)'
  <2>1. /\ Len(cscopes') = Len(cs) /\ DOMAIN cscopes' = DOMAIN cs
        /\ \A j \in DOMAIN cs, m \in Names : cscopes'[j].names[m] = cs[j].names[m]
    BY <1>4 DEF SameNames
  <2>2. \A r \in DOMAIN scopes : r \notin ListScopes =>
          /\ scopes'[r].type = scopes[r].type
          /\ \A m \in Names : scopes'[r].usual[m] = scopes[r].usual[m]
    BY <1>6 DEF ScopeMade
  <2> QED
    BY <1>2, <1>3, <1>5, <1>6, <2>1, <2>2, NamesKept
<1>8. TagsOK(b, cscopes)'
  <2>1. \A r \in DOMAIN scopes' : r \in DOMAIN scopes \/ \A x \in Tags : scopes'[r].tags[x] = 0
    BY <1>2 DEF ScopeMade
  <2>2. t \in Tags => k # 0 /\ l # 0 /\ stands'[k] = l
    <3>1. t \in Tags => t # NoTag
      BY DeclaratorsAssumption
    <3> QED
      BY <3>1 DEF TagMade, EntMade
  <2>3. TagSet(t, k, l)
    OBVIOUS
  <2>4. scopes'[b].chain = scopes[b].chain
    BY <1>6
  <2>5. ScopesCarried /\ IdentsKept /\ TablesOK /\ StackOK /\ Coupled
    BY <1>2
  <2>6. DOMAIN cscopes' = DOMAIN cscopes /\ b = Around
    OBVIOUS
  <2>7. \A j \in 1 .. Lists : \E m \in 1 .. Lists' : ScopeAt(m)' = ScopeAt(j)
    OBVIOUS
  <2> QED
    BY <2>1, <2>2, <2>3, <2>4, <2>5, <2>6, <2>7, TagsEntered
<1> QED
  BY <1>7, <1>8

\* What a tag is for.
LEMMA TagNumbers ==
  ASSUME TablesOK, Coupled, NEW i \in DOMAIN idents, idents[i].kind = "tag"
  PROVE  /\ stands[i] \in DOMAIN ents
         /\ idents[i].ty.k = "struct" => TypeOf(i) \in DOMAIN types
<1>1. stands[i] # 0 /\ i \in DOMAIN stands
  <2>1. DOMAIN stands = DOMAIN idents
    BY Domains DEF Coupled, CTablesOK
  <2> QED
    BY <2>1 DEF Coupled, StandsOK, StandOK
<1>2. stands[i] \in DOMAIN ents
  BY <1>1 DEF Coupled, RangesOK
<1>3. idents[i].ty.k = "struct" => TypeOf(i) \in DOMAIN types
  <2>1. i # 0
    BY Domains
  <2> QED
    BY <2>1 DEF Coupled, StructsOK, IsStructTag
<1> QED
  BY <1>2, <1>3

\* What the identifiers stand for, and the ranges.
LEMMA MadeStands ==
  ASSUME TablesOK, Coupled, NEW t \in Tags \cup {NoTag}, NEW u, NEW y, NEW k, NEW l,
         TypeMade(u, y), TagMade(t, y, k, l), EntMade(l)
  PROVE  StandsOK' /\ StructsOK'
<1>1. EntsCarried /\ IdentsKept
  BY DEF EntMade, EntsKept, EntsCarried, TagMade
<1>2. \A j \in DOMAIN idents' : j \in DOMAIN idents \/ (t # NoTag /\ j = k)
  BY DEF TagMade
<1>3. StandsOK'
  <2>1. t # NoTag => StandOK(k)'
    BY DEF StandOK, LinkageOf, TypeOf, TagMade, TypeMade, EntMade
  <2>2. \A i \in DOMAIN idents :
          idents[i].kind = "tag" =>
            /\ ents'[stands[i]].def = ents[stands[i]].def
            /\ idents[i].ty.k = "struct" =>
                 types'[TypeOf(i)].complete = types[TypeOf(i)].complete
    BY TagNumbers DEF EntMade, EntsKept, TypeMade
  <2>3. \A i \in DOMAIN idents' : i \in DOMAIN idents \/ StandOK(i)'
    BY <1>2, <2>1
  <2> QED
    BY <1>1, <2>2, <2>3, StandsKept
<1>4. StructsOK'
  <2>1. \A i \in DOMAIN idents : idents[i].kind = "tag" =>
          /\ stands[i] \in DOMAIN ents /\ stands[i] # l
          /\ idents[i].ty.k = "struct" => idents[i].ty.n \in DOMAIN types /\ idents[i].ty.n # y
    BY TagNumbers DEF TypeOf, EntMade, TypeMade
  <2>2. \A i \in DOMAIN idents : idents'[i] = idents[i] /\ stands'[i] = stands[i]
    BY <1>1 DEF IdentsKept
  <2>3. \A i, j \in DOMAIN idents :
          i # 0 /\ idents[i].kind = "tag" /\ idents[i].ty.k = "struct" =>
            (j # 0 /\ idents[j].kind = "tag" /\ idents[j].ty.k = "struct" =>
               (idents[i].ty.n = idents[j].ty.n) = (stands[i] = stands[j]))
    <3>1. StructsOK
      BY DEF Coupled
    <3> QED
      BY <3>1 DEF StructsOK, IsStructTag, TypeOf
  <2>4. /\ DOMAIN types' = DOMAIN types \cup {y}
        /\ t # NoTag => stands'[k] = l /\ idents'[k].ty.n = y
    BY DEF TypeMade, TagMade
  <2>5. ASSUME NEW i \in DOMAIN idents', i # 0, idents'[i].kind = "tag", idents'[i].ty.k = "struct"
        PROVE  idents'[i].ty.n \in DOMAIN types'
    BY <1>2, <2>1, <2>2, <2>4, <2>5
  <2>6. ASSUME NEW i \in DOMAIN idents', NEW j \in DOMAIN idents',
               i # 0, idents'[i].kind = "tag", idents'[i].ty.k = "struct",
               j # 0, idents'[j].kind = "tag", idents'[j].ty.k = "struct"
        PROVE  (idents'[i].ty.n = idents'[j].ty.n) = (stands'[i] = stands'[j])
    <3>1. CASE i \in DOMAIN idents /\ j \in DOMAIN idents
      BY <2>2, <2>3, <2>6, <3>1
    <3>2. CASE i \in DOMAIN idents /\ t # NoTag /\ j = k
      BY <2>1, <2>2, <2>4, <2>6, <3>2
    <3>3. CASE j \in DOMAIN idents /\ t # NoTag /\ i = k
      BY <2>1, <2>2, <2>4, <2>6, <3>3
    <3>4. CASE i = k /\ j = k
      BY <3>4
    <3> QED
      BY <1>2, <3>1, <3>2, <3>3, <3>4
  <2> QED
    BY <2>5, <2>6 DEF StructsOK, IsStructTag, TypeOf
<1> QED
  BY <1>3, <1>4

LEMMA MadeRanges ==
  ASSUME TablesOK, Coupled, NEW t \in Tags \cup {NoTag}, NEW y, NEW k, NEW l,
         TagMade(t, y, k, l), EntMade(l), TagSet(t, k, l), SameNames, TablesAre, params' = params
  PROVE  RangesOK' /\ LinkedOK'
<1>1. EntsCarried /\ IdentsKept
  BY DEF EntMade, EntsKept, EntsCarried, TagMade
<1>2. \A j \in DOMAIN cscopes, m \in Names :
        LET x == cscopes'[j].names[m]
        IN  x = cscopes[j].names[m] \/ (x.ent \in DOMAIN ents' /\ ents'[x.ent].name = m)
  BY DEF SameNames
<1>3. \A j \in DOMAIN cscopes, x \in Tags :
        LET e == cscopes'[j].tags[x]
        IN  e = cscopes[j].tags[x] \/ e \in DOMAIN ents'
  BY DEF TagSet, EntMade
<1>4. \A j \in DOMAIN stands' : stands'[j] # 0 => stands'[j] \in DOMAIN ents'
  <2> SUFFICES ASSUME NEW j \in DOMAIN stands', stands'[j] # 0 PROVE stands'[j] \in DOMAIN ents'
    OBVIOUS
  <2>1. j \in DOMAIN idents' \/ TRUE
    OBVIOUS
  <2>2. CASE j \in DOMAIN idents
    <3>1. j \in DOMAIN stands
      BY <2>2, Domains DEF Coupled, CTablesOK
    <3>2. stands'[j] = stands[j]
      BY <1>1, <2>2 DEF IdentsKept
    <3> QED
      BY <3>1, <3>2 DEF EntMade, EntsKept, Coupled, RangesOK
  <2>3. CASE t # NoTag /\ j = k
    BY <2>3 DEF TagMade, EntMade
  <2>4. j \in DOMAIN idents'
    BY DEF TablesAre
  <2> QED
    BY <2>2, <2>3, <2>4 DEF TagMade
<1>5. RangesOK'
  BY <1>1, <1>2, <1>3, <1>4, RangesKept DEF TablesAre
<1>6. LinkedOK'
  <2>1. \A e \in DOMAIN ents' : ents'[e].linkage # "none" =>
          /\ e \in DOMAIN ents /\ ents'[e].name = ents[e].name /\ ents'[e].kind = ents[e].kind
          /\ ents'[e].linkage = ents[e].linkage /\ ents'[e].ty = ents[e].ty
    BY DEF EntMade, EntsKept
  <2>2. \A m \in Names : LET x == cscopes[Len(cscopes)].names[m]
                         IN  x.ent # 0 => cscopes'[Len(cscopes)].names[m] = x
    <3>1. Len(cscopes) \in DOMAIN cscopes
      <4>1. cscopes \in Seq(CScopeType) /\ cscopes # <<>>
        BY DEF Coupled, CTablesOK
      <4> HIDE DEF CScopeType
      <4> QED
        BY <4>1
    <3> QED
      BY <3>1 DEF SameNames
  <2> QED
    BY <2>1, <2>2, LinkedKept DEF SameNames
<1> QED
  BY <1>5, <1>6

\* A tag that C does not have here is in none of the lists.
LEMMA FreeTag ==
  ASSUME TablesOK, StackOK, Coupled, NEW t \in Tags, cscopes[1].tags[t] = 0,
         NEW r \in DOMAIN scopes, Around \in Within[r]
  PROVE  scopes[r].tags[t] = 0
<1>1. At(Around, cscopes)
  BY AtAround
<1>2. 1 \in DOMAIN cscopes /\ scopes[Around].chain[1] = Around
  BY <1>1, AtDomains
<1>3. scopes[r].tags[t] # 0 => stands[scopes[r].tags[t]] = 0
  BY <1>1, <1>2 DEF At, TagsOK
<1>4. scopes[r].tags[t] # 0 => stands[scopes[r].tags[t]] # 0
  <2>1. scopes[r].tags[t] # 0 =>
          scopes[r].tags[t] \in DOMAIN idents /\ idents[scopes[r].tags[t]].kind = "tag"
    BY StructTags
  <2> QED
    BY <2>1 DEF Coupled, StandsOK, StandOK
<1> QED
  BY <1>3, <1>4

\* The types of the open lists.
LEMMA OpenTypes ==
  ASSUME StackOK, OpenListsOK, Lists \in Nat
  PROVE  \A k \in 1 .. Lists : k \in DOMAIN open /\ open[k].type \in DOMAIN types
<1> TAKE k \in 1 .. Lists
<1>1. k \in DOMAIN open
  <2>1. k \in 1 .. Len(open) /\ open \in Seq(OpenType)
    BY DEF StackOK, OpenListsOK
  <2> HIDE DEF OpenType
  <2> QED
    BY <2>1
<1> QED
  BY <1>1 DEF OpenListsOK, StackOK, OpenOK

\* The open lists stay what they were.
LEMMA MadeListAt ==
  ASSUME TablesOK, TablesOK', StackOK, Coupled, NEW t \in Tags \cup {NoTag}, NEW u, NEW y, NEW k, NEW l,
         ScopeMade(u), TypeMade(u, y), TagMade(t, y, k, l), EntMade(l), TagSet(t, k, l),
         NEW at, NEW N, N = Lists + 1, StackIs(at, N), NEW m \in 1 .. Lists,
         NEW z, z = open[m].type, NEW e, e = members[m].ent, NEW ns, ns = members[m].names
  PROVE  ListAt(at, N, m, z, e, ns)'
<1>1. /\ ChainsOK /\ OpenListsOK /\ CTablesOK /\ Lists \in Nat
      /\ \A j \in 1 .. N : at[j] \in DOMAIN scopes /\ Around \in Within[at[j]]
      /\ z \in DOMAIN types /\ scope \in DOMAIN scopes /\ at[1] = scope
  <2>1. ChainsOK /\ OpenListsOK /\ CTablesOK
    BY DEF Coupled
  <2>2. /\ Lists \in Nat
        /\ \A j \in 1 .. Lists + 1 : ScopeAt(j) \in DOMAIN scopes
        /\ \A p \in 1 .. Lists + 1 : \A j \in p .. Lists + 1 : ScopeAt(j) \in Within[ScopeAt(p)]
        /\ scope = ScopeAt(1)
    BY <2>1, ListsAround
  <2>3. \A j \in 1 .. Lists + 1 : ScopeAt(j) \in DOMAIN scopes /\ Around \in Within[ScopeAt(j)]
    BY <2>2 DEF Around
  <2>4. 1 \in 1 .. N
    BY <2>2
  <2>5. open[m].type \in DOMAIN types
    BY <2>1, <2>2, OpenTypes
  <2> QED
    BY <2>1, <2>2, <2>3, <2>4, <2>5 DEF StackIs
<1>2. ListAt(at, N, m, z, e, ns)
  BY <1>1, ListsAt DEF StackIs
<1>3. /\ m \in 1 .. N /\ m \in Nat /\ \A j \in 1 .. m : j \in 1 .. N
      /\ \A j \in m .. N : j \in 1 .. N
      /\ \A j \in m + 1 .. N : j \in 1 .. N
  BY <1>1
<1>4. ASSUME NEW j \in 1 .. N, NEW x \in Tags
      PROVE  /\ x = t => scopes[at[j]].tags[x] = 0
             /\ at[j] # scope \/ x # t => scopes'[at[j]].tags[x] = scopes[at[j]].tags[x]
             /\ at[j] = scope /\ x = t => scopes'[at[j]].tags[x] = k /\ t # NoTag
  <2>1. x # NoTag
    BY DeclaratorsAssumption
  <2>2. x = t => cscopes[1].tags[x] = 0
    BY DEF TagSet
  <2>3. cscopes[1].tags[x] = 0 => scopes[at[j]].tags[x] = 0
    BY <1>1, FreeTag
  <2> QED
    BY <1>1, <2>1, <2>2, <2>3 DEF TagSet
<1>5. ASSUME NEW i \in DOMAIN idents, IsStructTag(i)
      PROVE  /\ IsStructTag(i)' /\ TypeOf(i)' = TypeOf(i) /\ stands'[i] = stands[i]
             /\ TypeOf(i) \in DOMAIN types
  BY <1>5, TagNumbers DEF TagMade, IdentsKept, IsStructTag, TypeOf
<1>6. t # NoTag => /\ IsStructTag(k)' /\ TypeOf(k)' = y /\ stands'[k] = l
                   /\ y # z /\ l # e
  <2>1. y # z
    BY <1>1 DEF TypeMade
  <2>2. l # e
    BY <1>2 DEF ListAt, EntMade
  <2> QED
    BY <2>1, <2>2 DEF TagMade, IsStructTag, TypeOf
<1>7. at[m] = types'[z].scope /\ e \in DOMAIN ents' /\ ents'[e].kind = "struct"
  BY <1>1, <1>2 DEF ListAt, TypeMade, EntMade, EntsKept
<1>8. \A n \in Names : (n \in ns) = (scopes'[at[m]].usual[n] # 0)
  <2>1. at[m] \in DOMAIN scopes
    BY <1>1, <1>3
  <2>2. \A r \in DOMAIN scopes, n \in Names : scopes'[r].usual[n] = scopes[r].usual[n]
    BY DEF ScopeMade
  <2>3. \A n \in Names : (n \in ns) = (scopes[at[m]].usual[n] # 0)
    BY <1>2 DEF ListAt
  <2> QED
    BY <2>1, <2>2, <2>3
<1>9. ASSUME NEW i \in DOMAIN idents', i # 0, idents'[i].kind = "tag", idents'[i].ty.k = "struct"
      PROVE  (idents'[i].ty.n = z) = (stands'[i] = e)
  <2>1. CASE i \in DOMAIN idents
    <3>1. IsStructTag(i)
      BY <1>9, <2>1 DEF TagMade, IdentsKept, IsStructTag
    <3> QED
      BY <1>2, <1>5, <2>1, <3>1 DEF ListAt, TypeOf
  <2>2. CASE t # NoTag /\ i = k
    BY <1>6, <2>2 DEF TypeOf
  <2> QED
    BY <2>1, <2>2 DEF TagMade
<1>10. ASSUME NEW j \in 1 .. m, NEW x \in Tags
       PROVE  LET i == scopes'[at[j]].tags[x]
              IN  i # 0 /\ idents'[i].kind = "tag" /\ idents'[i].ty.k = "struct" => idents'[i].ty.n # z
  <2>1. j \in 1 .. N
    BY <1>3
  <2>2. CASE at[j] = scope /\ x = t
    BY <1>4, <1>6, <2>1, <2>2 DEF TypeOf
  <2>3. CASE at[j] # scope \/ x # t
    <3>1. PICK i : i = scopes[at[j]].tags[x]
      OBVIOUS
    <3>2. scopes'[at[j]].tags[x] = i
      BY <1>4, <2>1, <2>3, <3>1
    <3>3. i # 0 => i \in DOMAIN idents
      BY <1>1, <2>1, <3>1, StructTags
    <3>4. IsStructTag(i) => TypeOf(i) # z
      BY <1>2, <3>1 DEF ListAt
    <3>5. i # 0 => idents'[i] = idents[i]
      BY <3>3 DEF TagMade, IdentsKept
    <3> QED
      BY <3>2, <3>4, <3>5 DEF IsStructTag, TypeOf
  <2> QED
    BY <2>2, <2>3
<1>11. \A j \in m .. N : at[j] \in Within'[at[m]]
  <2>1. ScopesCarried
    BY <1>1, MadeScopes
  <2>2. Within'[at[m]] = Within[at[m]]
    BY <1>1, <1>3, <2>1 DEF ScopesCarried
  <2> QED
    BY <1>2, <2>2 DEF ListAt
<1>12. ASSUME NEW j \in m + 1 .. N
       PROVE  /\ at[j] # at[m]
              /\ \A x \in Tags : scopes'[at[m]].tags[x] = 0 \/ scopes'[at[j]].tags[x] = 0
  <2>1. j \in 1 .. N /\ m \in 1 .. N
    BY <1>3
  <2>2. at[j] # at[m] /\ \A x \in Tags : scopes[at[m]].tags[x] = 0 \/ scopes[at[j]].tags[x] = 0
    BY <1>2 DEF ListAt
  <2>3. ASSUME NEW x \in Tags PROVE scopes'[at[m]].tags[x] = 0 \/ scopes'[at[j]].tags[x] = 0
    <3>1. CASE x = t
      <4>1. scopes[at[m]].tags[x] = 0 /\ scopes[at[j]].tags[x] = 0
        BY <1>4, <2>1, <3>1
      <4>2. at[m] # scope \/ at[j] # scope
        BY <2>2
      <4> QED
        BY <1>4, <2>1, <4>1, <4>2
    <3>2. CASE x # t
      BY <1>4, <2>1, <2>2, <3>2
    <3> QED
      BY <3>1, <3>2
  <2> QED
    BY <2>2, <2>3
<1> QED
  BY <1>7, <1>8, <1>9, <1>10, <1>11, <1>12 DEF ListAt, IsStructTag, TypeOf

\* What both do for a struct that is new.
CMade(t, l) ==
  /\ ents' = Append(ents, TagEntity("struct", t)) /\ cscopes' = WithTag(t, l)
  /\ params' = params

\* What MakeStruct does.
LEMMA StructScope ==
  ASSUME TablesOK, scope \in DOMAIN scopes, NEW t \in Tags \cup {NoTag}, MakeStruct(t),
         NEW u, u = Len(scopes) + 1
  PROVE  /\ ScopeMade(u)
         /\ \A r \in DOMAIN scopes, x \in Tags :
              scopes'[r].tags[x] = IF r = scope /\ x = t THEN Len(idents) + 1 ELSE scopes[r].tags[x]
         /\ \A r \in DOMAIN scopes : r # scope => scopes'[r] = scopes[r]
<1>1. PICK mid : mid = InsertTag(scope, t, NewIdent)
  OBVIOUS
<1>2. PICK h : h = NewScope("block", scopes[scope].chain)
  OBVIOUS
<1>3. /\ Len(mid) = Len(scopes) /\ DOMAIN mid = DOMAIN scopes /\ mid \in Seq(ScopeType)
      /\ \A r \in DOMAIN scopes :
           /\ mid[r].type = scopes[r].type /\ mid[r].chain = scopes[r].chain
           /\ mid[r].usual = scopes[r].usual
           /\ \A x \in Tags : mid[r].tags[x] = IF r = scope /\ x = t THEN NewIdent ELSE scopes[r].tags[x]
           /\ r # scope => mid[r] = scopes[r]
  BY <1>1, TaggedScopes
<1>4. scopes' = Append(mid, h)
  BY <1>1, <1>2 DEF MakeStruct
<1>5. /\ Len(scopes') = Len(mid) + 1 /\ scopes'[Len(mid) + 1] = h
      /\ \A r \in DOMAIN mid : scopes'[r] = mid[r]
  <2>1. PICK S : S = ScopeType
    OBVIOUS
  <2>2. mid \in Seq(S)
    BY <1>3, <2>1
  <2> QED
    BY <1>4, <2>2
<1>6. /\ h.type = "block" /\ h.chain = <<u>> \o scopes[scope].chain
      /\ \A n \in Names : h.usual[n] = 0
      /\ \A x \in Tags : h.tags[x] = 0
  BY <1>2 DEF NewScope
<1>7. Len(scopes') = u /\ scopes'[u] = h /\ \A r \in DOMAIN scopes : scopes'[r] = mid[r]
  BY <1>3, <1>5
<1>8. Grown(scope)
  BY <1>3, <1>6, <1>7 DEF Grown
<1>9. \A r \in DOMAIN scopes : \A n \in Names : scopes'[r].usual[n] = scopes[r].usual[n]
  BY <1>3, <1>7
<1>10. ScopeMade(u)
  BY <1>6, <1>7, <1>8, <1>9 DEF ScopeMade
<1> QED
  BY <1>3, <1>7, <1>10 DEF NewIdent

LEMMA StructTypeMade ==
  ASSUME TablesOK, NEW t, MakeStruct(t), NEW u, u = Len(scopes) + 1, NEW y, y = Len(types) + 1
  PROVE  TypeMade(u, y)
<1>1. PICK S : S = [scope : Nat, complete : BOOLEAN]
  OBVIOUS
<1>2. types \in Seq(S)
  <2>1. types \in Seq([scope : DOMAIN scopes, complete : BOOLEAN]) /\ DOMAIN scopes \subseteq Nat
    BY Domains DEF TablesOK
  <2>2. \A i \in DOMAIN types : types[i] \in [scope : DOMAIN scopes, complete : BOOLEAN]
    <3>1. PICK T : T = [scope : DOMAIN scopes, complete : BOOLEAN]
      OBVIOUS
    <3>2. types \in Seq(T)
      BY <2>1, <3>1
    <3>3. \A i \in DOMAIN types : types[i] \in T
      BY <3>2
    <3> QED
      BY <3>1, <3>3
  <2>3. \A i \in DOMAIN types : types[i] \in S
    BY <1>1, <2>1, <2>2
  <2>4. Len(types) \in Nat /\ DOMAIN types = 1 .. Len(types)
        /\ types = [i \in 1 .. Len(types) |-> types[i]]
    BY <2>1
  <2> QED
    BY <2>3, <2>4
<1>3. PICK e : e = [scope |-> u, complete |-> FALSE]
  OBVIOUS
<1>4. e \in S /\ e.scope = u /\ e.complete = FALSE
  BY <1>1, <1>3, Domains
<1>5. types' = Append(types, e)
  BY <1>3 DEF MakeStruct
<1>6. /\ DOMAIN types' = 1 .. Len(types) + 1 /\ types'[Len(types) + 1] = e
      /\ \A i \in DOMAIN types : types'[i] = types[i]
      /\ Len(types) \in Nat /\ DOMAIN types = 1 .. Len(types)
  BY <1>2, <1>4, <1>5, Appended
<1> QED
  BY <1>4, <1>6 DEF TypeMade

LEMMA StructIdent ==
  ASSUME TablesOK, Coupled, NEW t \in Tags \cup {NoTag}, MakeStruct(t), NewStand,
         NEW l \in Nat, meant' = Named(t, l), NEW y, y = Len(types) + 1, NEW k, k = Len(idents) + 1
  PROVE  TagMade(t, y, k, l) /\ stands' \in Seq(Nat) /\ Len(stands') = Len(idents')
<1>1. Len(idents) \in Nat /\ DOMAIN idents = 1 .. Len(idents)
  BY Domains
<1>2. stands \in Seq(Nat) /\ Len(stands) = Len(idents)
  BY DEF Coupled, CTablesOK
<1>3. CASE t = NoTag
  <2>1. idents' = idents
    BY <1>3 DEF MakeStruct
  <2>2. stands' = stands
    BY <2>1, StandsSame
  <2> QED
    BY <1>2, <1>3, <2>1, <2>2 DEF TagMade, IdentsKept
<1>4. CASE t # NoTag
  <2>1. PICK h : h = Ident("tag", t, StructType, "none", "", scope)
    OBVIOUS
  <2>2. h.kind = "tag" /\ h.linkage = "none" /\ h.ty.k = "struct" /\ h.ty.n = y
    BY <2>1 DEF Ident, StructType, NewType
  <2>3. idents' = Append(idents, h)
    BY <1>4, <2>1 DEF MakeStruct
  <2>4. PICK S : S = IdentType
    OBVIOUS
  <2>5. idents \in Seq(S)
    BY <2>4 DEF TablesOK
  <2>6. /\ Len(idents') = Len(idents) + 1 /\ DOMAIN idents' = 1 .. Len(idents) + 1
        /\ idents'[Len(idents) + 1] = h
        /\ \A i \in DOMAIN idents : idents'[i] = idents[i]
    BY <2>3, <2>5
  <2>7. meant' = <<l>>
    BY <1>4 DEF Named
  <2>8. stands' = Append(stands, l)
    BY <2>6, <2>7, StandsOne
  <2>9. /\ stands' \in Seq(Nat) /\ Len(stands') = Len(stands) + 1 /\ stands'[Len(stands) + 1] = l
        /\ \A i \in DOMAIN stands : stands'[i] = stands[i]
        /\ DOMAIN stands = 1 .. Len(stands)
    BY <1>2, <2>8, Appended
  <2>10. IdentsKept
    BY <1>1, <1>2, <2>6, <2>9 DEF IdentsKept
  <2>11. /\ k \in DOMAIN idents' /\ k \notin DOMAIN idents /\ k # 0
         /\ \A j \in DOMAIN idents' : j \in DOMAIN idents \/ j = k
    BY <1>1, <2>6
  <2> QED
    BY <1>2, <1>4, <2>2, <2>6, <2>9, <2>10, <2>11 DEF TagMade
<1> QED
  BY <1>3, <1>4

\* And what C does.
LEMMA StructEntity ==
  ASSUME Coupled, NEW t \in Tags \cup {NoTag}, NEW l, l = Len(ents) + 1, CMade(t, l)
  PROVE  /\ EntMade(l) /\ SameNames /\ l \in Nat
         /\ ents' \in Seq(EntityType) /\ cscopes' \in Seq(CScopeType) /\ DOMAIN cscopes' = DOMAIN cscopes
         /\ \A j \in DOMAIN cscopes, x \in Tags :
              cscopes'[j].tags[x] = IF j = 1 /\ x = t THEN l ELSE cscopes[j].tags[x]
<1>1. PICK h : h = TagEntity("struct", t)
  OBVIOUS
<1>2. h.kind = "struct" /\ h.linkage = "none" /\ h.def = "no" /\ h \in EntityType
  BY <1>1 DEF TagEntity, Entity, EntityType, Linkages, Types, IntType
<1>3. ents \in Seq(EntityType) /\ ents' = Append(ents, h)
  BY <1>1 DEF Coupled, CTablesOK, CMade
<1>4. /\ ents' \in Seq(EntityType) /\ DOMAIN ents' = 1 .. Len(ents) + 1 /\ ents'[Len(ents) + 1] = h
      /\ \A i \in DOMAIN ents : i \in DOMAIN ents' /\ ents'[i] = ents[i]
      /\ Len(ents) \in Nat /\ DOMAIN ents = 1 .. Len(ents)
  BY <1>2, <1>3, Appended
<1>5. EntMade(l) /\ l \in Nat
  BY <1>2, <1>4 DEF EntMade, EntsKept
<1>6. PICK w : w = WithTag(t, l)
  OBVIOUS
<1>7. /\ w \in Seq(CScopeType) /\ Len(w) = Len(cscopes) /\ DOMAIN w = DOMAIN cscopes
      /\ \A j \in DOMAIN cscopes :
           /\ w[j].names = cscopes[j].names
           /\ \A x \in Tags : w[j].tags[x] = IF j = 1 /\ x = t THEN l ELSE cscopes[j].tags[x]
  BY <1>5, <1>6, TaggedInC
<1>8. cscopes' = w
  BY <1>6 DEF CMade
<1>9. SameNames
  BY <1>7, <1>8 DEF SameNames
<1> QED
  BY <1>4, <1>5, <1>7, <1>8, <1>9

\* All of it.
Made(t, u, y, k, l) ==
  /\ ScopeMade(u) /\ TypeMade(u, y) /\ TagMade(t, y, k, l) /\ EntMade(l) /\ TagSet(t, k, l)
  /\ SameNames /\ TablesAre /\ params' = params /\ OtherScopes

LEMMA StructMade ==
  ASSUME TablesOK, Coupled, scope \in DOMAIN scopes, NEW t \in Tags \cup {NoTag}, MakeStruct(t),
         NEW u, u = Len(scopes) + 1, NEW y, y = Len(types) + 1, NEW k, k = Len(idents) + 1,
         NEW l, l = Len(ents) + 1, CMade(t, l), meant' = Named(t, l), NewStand, TagIn(t) = 0
  PROVE  Made(t, u, y, k, l)
<1>1. /\ ScopeMade(u)
      /\ \A r \in DOMAIN scopes, x \in Tags :
           scopes'[r].tags[x] = IF r = scope /\ x = t THEN k ELSE scopes[r].tags[x]
      /\ OtherScopes
  BY StructScope DEF OtherScopes
<1>2. TypeMade(u, y)
  BY StructTypeMade
<1>3. /\ EntMade(l) /\ SameNames /\ l \in Nat
      /\ ents' \in Seq(EntityType) /\ cscopes' \in Seq(CScopeType) /\ DOMAIN cscopes' = DOMAIN cscopes
      /\ \A j \in DOMAIN cscopes, x \in Tags :
           cscopes'[j].tags[x] = IF j = 1 /\ x = t THEN l ELSE cscopes[j].tags[x]
  BY StructEntity
<1>4. TagMade(t, y, k, l) /\ stands' \in Seq(Nat) /\ Len(stands') = Len(idents')
  BY <1>3, StructIdent
<1>5. t \in Tags => cscopes[1].tags[t] = 0
  BY DeclaratorsAssumption DEF TagIn
<1>6. TagSet(t, k, l)
  BY <1>1, <1>3, <1>5 DEF TagSet
<1>7. TablesAre
  BY <1>3, <1>4 DEF TablesAre
<1> QED
  BY <1>1, <1>2, <1>3, <1>4, <1>6, <1>7 DEF Made, CMade

\* The new list is empty.
LEMMA MadeUnopened ==
  ASSUME TablesOK, StackOK, Coupled, NEW t \in Tags \cup {NoTag}, NEW u, NEW y, NEW k, NEW l,
         Made(t, u, y, k, l), \A z \in DOMAIN types : Unopened(z)' => Unopened(z)
  PROVE  UnopenedOK'
<1>1. /\ UnopenedOK /\ ChainsOK /\ OpenListsOK /\ CTablesOK
      /\ ScopeMade(u) /\ TypeMade(u, y) /\ TagSet(t, k, l)
  BY DEF Coupled, Made
<1>2. ASSUME NEW z \in DOMAIN types, Unopened(z)' PROVE EmptyList(z)'
  <2>1. Unopened(z) /\ EmptyList(z)
    BY <1>1, <1>2 DEF UnopenedOK
  <2>2. PICK r : r = types[z].scope
    OBVIOUS
  <2>3. r \in DOMAIN scopes /\ r \in ListScopes /\ types'[z].scope = r
    <3>1. r \in DOMAIN scopes
      BY <2>2, Domains DEF TablesOK
    <3> QED
      BY <1>1, <2>2, <3>1 DEF ListScopes, TypeMade
  <2>4. r # scope
    <3> SUFFICES ASSUME r = scope PROVE FALSE
      OBVIOUS
    <3>1. /\ Lists \in Nat /\ scope = ScopeAt(1) /\ (Lists = 0 => Around = scope)
          /\ Around \notin ListScopes
      BY <1>1, ListsAround
    <3>2. 1 \in 1 .. Lists
      BY <2>3, <3>1
    <3>3. ScopeAt(1) = types[open[1].type].scope
      BY <1>1, <3>2 DEF OpenListsOK, OpenList
    <3>4. open[1].type \in DOMAIN types
      BY <1>1, <3>1, <3>2, OpenTypes
    <3>5. open[1].type = z
      BY <1>1, <2>2, <3>1, <3>3, <3>4 DEF ChainsOK
    <3> QED
      BY <2>1, <3>2, <3>5 DEF Unopened
  <2>5. \A n \in Names : scopes'[r].usual[n] = 0
    BY <1>1, <2>1, <2>2, <2>3 DEF EmptyList, ScopeMade
  <2>6. \A x \in Tags : scopes'[r].tags[x] = 0
    BY <1>1, <2>1, <2>2, <2>3, <2>4 DEF EmptyList, TagSet
  <2> QED
    BY <2>3, <2>5, <2>6 DEF EmptyList
<1>3. EmptyList(y)'
  BY <1>1 DEF EmptyList, ScopeMade, TypeMade
<1>4. DOMAIN types' = DOMAIN types \cup {y}
  BY <1>1 DEF TypeMade
<1> QED
  BY <1>2, <1>3, <1>4 DEF UnopenedOK

\* All of it, of a struct that is made.
LEMMA MadeCoupled ==
  ASSUME SInv, SInv', Coupled, NEW t \in Tags \cup {NoTag}, NEW u, NEW y, NEW k, NEW l,
         Made(t, u, y, k, l), members' \in Seq([ent : Nat, names : SUBSET Names]), Around' = Around,
         \A j \in 1 .. Lists : \E m \in 1 .. Lists' : ScopeAt(m)' = ScopeAt(j),
         OpenListsOK', UnopenedOK', last'.act # "declare"
  PROVE  Coupled'
<1>1. TablesOK /\ TablesOK' /\ StackOK /\ ChainsOK /\ scope \in DOMAIN scopes
  BY DEF SInv, StackOK, Coupled
<1>2. /\ ScopeMade(u) /\ TypeMade(u, y) /\ TagMade(t, y, k, l) /\ EntMade(l) /\ TagSet(t, k, l)
      /\ SameNames /\ TablesAre /\ params' = params /\ DOMAIN cscopes' = DOMAIN cscopes
  BY DEF Made, TablesAre
<1>3. ChainsOK'
  BY <1>1, <1>2, MadeScopes
<1>4. UsualOK' /\ TagTypesOK'
  BY <1>1, <1>2, MadeEntries
<1>5. PICK b : b = Around
  OBVIOUS
<1>6. NamesOK(b, cscopes)' /\ TagsOK(b, cscopes)'
  BY <1>1, <1>2, <1>5, MadeNames
<1>7. b = Around'
  BY <1>5
<1>8. NamesOK(Around, cscopes)' /\ TagsOK(Around, cscopes)'
  BY <1>6, <1>7, NamesMoved
<1>9. StandsOK' /\ StructsOK'
  BY <1>1, <1>2, MadeStands
<1>10. RangesOK' /\ LinkedOK'
  BY <1>1, <1>2, MadeRanges
<1>11. ParamsOK'
  BY DEF ParamsOK
<1>12. CTablesOK'
  <2>1. cscopes \in Seq(CScopeType) /\ cscopes # <<>> /\ params \in CScopeType
    BY DEF Coupled, CTablesOK
  <2>2. cscopes' \in Seq(CScopeType) /\ Len(cscopes') = Len(cscopes)
    BY <1>2 DEF TablesAre, SameNames
  <2>3. cscopes' # <<>>
    <3> HIDE DEF CScopeType
    <3> QED
      BY <2>1, <2>2
  <2> QED
    BY <1>2, <2>1, <2>2, <2>3 DEF CTablesOK, TablesAre
<1> QED
  BY <1>3, <1>4, <1>8, <1>9, <1>10, <1>11, <1>12 DEF Coupled

\* Nothing else is opened.
LEMMA MadeHere ==
  ASSUME SInv, SInv', Coupled, NEW t \in Tags \cup {NoTag}, NEW u, NEW y, NEW k, NEW l,
         Made(t, u, y, k, l), UNCHANGED <<scope, open, members>>
  PROVE  OpenListsOK' /\ Around' = Around /\ UnopenedOK'
         /\ \A j \in 1 .. Lists : \E m \in 1 .. Lists' : ScopeAt(m)' = ScopeAt(j)
<1>1. /\ TablesOK /\ TablesOK' /\ StackOK /\ ChainsOK /\ scope \in DOMAIN scopes
      /\ CTablesOK /\ OpenListsOK
  BY DEF SInv, StackOK, Coupled
<1>2. /\ ScopeMade(u) /\ TypeMade(u, y) /\ TagMade(t, y, k, l) /\ EntMade(l) /\ TagSet(t, k, l)
  BY DEF Made
<1>3. Lists' = Lists /\ Around' = Around /\ \A j \in 1 .. Lists + 1 : ScopeAt(j)' = ScopeAt(j)
  BY DEF Lists, Around, ScopeAt
<1>4. PICK L, N : L = Lists /\ N = L + 1
  OBVIOUS
<1>5. L \in Nat /\ L = Lists' /\ Around \in DOMAIN scopes /\ Around \notin ListScopes
  BY <1>1, <1>3, <1>4, ListsAround
<1>6. PICK at : at = [j \in 1 .. N |-> ScopeAt(j)]
  OBVIOUS
<1>7. StackIs(at, N) /\ StackIs(at, N)'
  BY <1>3, <1>4, <1>6 DEF StackIs
<1>8. ASSUME NEW m \in 1 .. L PROVE OpenList(m)'
  <2>1. PICK z, e, ns : z = open[m].type /\ e = members[m].ent /\ ns = members[m].names
    OBVIOUS
  <2>2. ListAt(at, N, m, z, e, ns)'
    BY <1>1, <1>2, <1>4, <1>7, <2>1, MadeListAt
  <2>3. z = open'[m].type /\ e = members'[m].ent /\ ns = members'[m].names
    BY <2>1
  <2> QED
    BY <1>4, <1>5, <1>7, <2>2, <2>3, AtLists
<1>9. Around' \notin ListScopes'
  BY <1>1, <1>2, <1>3, <1>5, MadeScopes DEF ScopesCarried
<1>10. OpenListsOK'
  <2>1. /\ Lists <= Len(open)
        /\ \A j \in DOMAIN open :
             /\ (open[j].what = "struct") = (j <= Lists)
             /\ open[j].what = "proto" => Kind(open[j].decl) = "func" /\ ~open[j].decl.init
    BY <1>1 DEF OpenListsOK
  <2>2. open' = open
    OBVIOUS
  <2>3. /\ Lists' <= Len(open')
        /\ \A j \in DOMAIN open' :
             /\ (open'[j].what = "struct") = (j <= Lists')
             /\ open'[j].what = "proto" => Kind(open'[j].decl) = "func" /\ ~open'[j].decl.init
    BY <1>3, <2>1, <2>2
  <2> QED
    BY <1>4, <1>5, <1>8, <1>9, <2>3 DEF OpenListsOK
<1>11. \A z \in DOMAIN types : Unopened(z)' => Unopened(z)
  BY <1>2, <1>3 DEF Unopened, TypeMade
<1>12. UnopenedOK'
  BY <1>1, <1>11, MadeUnopened
<1>13. \A j \in 1 .. Lists : \E m \in 1 .. Lists' : ScopeAt(m)' = ScopeAt(j)
  <2>1. \A j \in 1 .. L : j \in 1 .. L + 1
    BY <1>4, <1>5, Numbers
  <2>2. ASSUME NEW j \in 1 .. L PROVE j \in 1 .. Lists' /\ ScopeAt(j)' = ScopeAt(j)
    BY <1>3, <1>4, <1>5, <2>1
  <2> QED
    BY <1>4, <2>2
<1> QED
  BY <1>3, <1>10, <1>12, <1>13

\* "struct t", of a tag that there is not.
LEMMA SpecifierNew ==
  ASSUME SInv, SInv', Coupled, NEW t \in Tags, NEW alone \in BOOLEAN, Specifier(t, alone), known' = {},
         FindTag(scope, t) = 0
  PROVE  Held'
<1>1. TablesOK /\ StackOK /\ scope \in DOMAIN scopes /\ t # NoTag /\ t \in Tags \cup {NoTag}
  BY DeclaratorsAssumption DEF SInv, StackOK
<1>2. verdict = "ok" /\ cverdict = "ok" /\ (cverdict' = "ok" => NewStand)
  BY OfBoth DEF Specifier
<1>3. TagSpecifier(t) /\ CTagSpecifier(t, alone)
  BY DEF Specifier
<1>4. VisibleTag(cscopes, t) = 0
  BY <1>1, TagMeant
<1>5. TagIn(t) = 0
  <2>1. cscopes \in Seq(CScopeType) /\ cscopes # <<>>
    BY DEF Coupled, CTablesOK
  <2>2. 1 \in DOMAIN cscopes
    <3> HIDE DEF CScopeType
    <3> QED
      BY <2>1
  <2>3. \A j \in DOMAIN cscopes : cscopes[j].tags[t] = 0
    BY <1>4, <2>1, VisibleTagFound
  <2> QED
    BY <2>2, <2>3 DEF TagIn
<1>6. (IF alone THEN TagIn(t) ELSE VisibleTag(cscopes, t)) = 0
  BY <1>4, <1>5
<1>7. /\ ents' = Append(ents, TagEntity("struct", t)) /\ cscopes' = WithTag(t, NewEntity)
      /\ meant' = <<NewEntity>> /\ UNCHANGED <<members, params, cverdict>>
  BY <1>3, <1>6 DEF CTagSpecifier
<1>8. MakeStruct(t) /\ UNCHANGED <<scope, open, verdict>> /\ last'.act = "tag"
  BY <1>3 DEF TagSpecifier, Denotes
<1>9. PICK u, y, k, l : u = Len(scopes) + 1 /\ y = Len(types) + 1 /\ k = Len(idents) + 1
                        /\ l = Len(ents) + 1
  OBVIOUS
<1>10. CMade(t, l) /\ meant' = Named(t, l) /\ NewStand
  BY <1>1, <1>2, <1>7, <1>9 DEF CMade, NewEntity, Named
<1>11. Made(t, u, y, k, l)
  BY <1>1, <1>5, <1>8, <1>9, <1>10, StructMade
<1>12. UNCHANGED <<scope, open, members>>
  BY <1>7, <1>8
<1>13. /\ OpenListsOK' /\ Around' = Around /\ UnopenedOK'
       /\ \A j \in 1 .. Lists : \E m \in 1 .. Lists' : ScopeAt(m)' = ScopeAt(j)
  BY <1>1, <1>11, <1>12, MadeHere
<1>14. members' \in Seq([ent : Nat, names : SUBSET Names])
  BY <1>7 DEF Coupled, CTablesOK
<1>15. last'.act # "declare"
  BY <1>8
<1>16. Coupled'
  BY <1>1, <1>11, <1>13, <1>14, <1>15, MadeCoupled
<1> QED
  BY <1>2, <1>7, <1>8, <1>16 DEF Held

---------------------------------------------------------------------------
(* Member lists that begin.                                              *)

\* The scopes of at are in at2 behind its first.
Behind(at, at2, N) == \A j \in 1 .. N : at2[j + 1] = at[j]

Moved(at, at2, N, m, M, p) ==
  /\ at2[p] = at[m]
  /\ \A j \in 1 .. p : j = 1 \/ \E i \in 1 .. m : at2[j] = at[i]
  /\ \A j \in p .. M : \E i \in m .. N : at2[j] = at[i]
  /\ \A j \in p + 1 .. M : \E i \in m + 1 .. N : at2[j] = at[i]

\* What that says of a list and those inside and around it.
LEMMA Shifts ==
  ASSUME NEW N \in Nat, NEW m \in 1 .. N, NEW at, NEW at2, Behind(at, at2, N),
         NEW M, M = N + 1, NEW p, p = m + 1
  PROVE  Moved(at, at2, N, m, M, p)
<1> USE DEF Behind
<1>1. ASSUME NEW j \in 2 .. N + 1 PROVE j - 1 \in 1 .. N /\ at2[j] = at[j - 1]
  <2>1. j - 1 \in 1 .. N /\ j = (j - 1) + 1
    OBVIOUS
  <2> QED
    BY <2>1
<1>2. at2[m + 1] = at[m]
  OBVIOUS
<1>3. ASSUME NEW j \in 1 .. m + 1, j # 1 PROVE \E i \in 1 .. m : at2[j] = at[i]
  <2>1. j \in 2 .. N + 1 /\ j - 1 \in 1 .. m
    BY <1>3
  <2> QED
    BY <1>1, <2>1
<1>4. ASSUME NEW j \in m + 1 .. N + 1 PROVE \E i \in m .. N : at2[j] = at[i]
  <2>1. j \in 2 .. N + 1 /\ j - 1 \in m .. N
    BY <1>4
  <2> QED
    BY <1>1, <2>1
<1>5. ASSUME NEW j \in m + 1 + 1 .. N + 1 PROVE \E i \in m + 1 .. N : at2[j] = at[i]
  <2>1. j \in 2 .. N + 1 /\ j - 1 \in m + 1 .. N
    BY <1>5
  <2> QED
    BY <1>1, <2>1
<1> QED
  BY <1>2, <1>3, <1>4, <1>5 DEF Moved

\* A list, with one more inside it.
LEMMA ListInside ==
  ASSUME NEW at, NEW N \in Nat, NEW m \in 1 .. N, NEW at2, NEW M, M = N + 1, NEW p, p = m + 1,
         Behind(at, at2, N),
         \A x \in Tags : scopes'[at2[1]].tags[x] = 0,
         NEW y, NEW e, NEW ns, ListAt(at, N, m, y, e, ns)'
  PROVE  ListAt(at2, M, p, y, e, ns)'
<1>1. /\ at2[p] = at[m]
      /\ \A j \in 1 .. p : j = 1 \/ \E i \in 1 .. m : at2[j] = at[i]
      /\ \A j \in p .. M : \E i \in m .. N : at2[j] = at[i]
      /\ \A j \in p + 1 .. M : \E i \in m + 1 .. N : at2[j] = at[i]
  <2>1. Moved(at, at2, N, m, M, p)
    BY Shifts
  <2> QED
    BY <2>1 DEF Moved
<1>2. ASSUME NEW j \in 1 .. p, NEW t \in Tags, IsStructTag(scopes[at2[j]].tags[t])'
      PROVE TypeOf(scopes[at2[j]].tags[t])' # y
  <2>1. j # 1
    BY <1>2 DEF IsStructTag
  <2>2. PICK i \in 1 .. m : at2[j] = at[i]
    BY <1>1, <2>1
  <2> QED
    BY <1>2, <2>2 DEF ListAt
<1>3. \A j \in p .. M : at2[j] \in Within'[at2[p]]
  <2>1. \A i \in m .. N : at[i] \in Within'[at[m]]
    BY DEF ListAt
  <2> QED
    BY <1>1, <2>1
<1>4. \A j \in p + 1 .. M :
        /\ at2[j] # at2[p]
        /\ \A t \in Tags : scopes'[at2[p]].tags[t] = 0 \/ scopes'[at2[j]].tags[t] = 0
  <2>1. \A i \in m + 1 .. N :
          /\ at[i] # at[m]
          /\ \A t \in Tags : scopes'[at[m]].tags[t] = 0 \/ scopes'[at[i]].tags[t] = 0
    BY DEF ListAt
  <2> QED
    BY <1>1, <2>1
<1>5. at2[p] = types'[y].scope /\ \A n \in Names : (n \in ns) = (scopes'[at2[p]].usual[n] # 0)
  BY <1>1 DEF ListAt
<1>6. /\ e \in DOMAIN ents' /\ ents'[e].kind = "struct"
      /\ \A i \in DOMAIN idents' : IsStructTag(i)' => (TypeOf(i)' = y) = (stands'[i] = e)
  BY DEF ListAt
<1> QED
  BY <1>2, <1>3, <1>4, <1>5, <1>6 DEF ListAt

\* What is left to show of a member list that begins.
LEMMA ListBegins ==
  ASSUME StackOK, CTablesOK, OpenListsOK, NEW o, NEW m, o.what = "struct", o.back = scope,
         open' = <<o>> \o open, members' = <<m>> \o members, NEW N, N = Lists + 1,
         NEW at, StackIs(at, N), NEW at2, at2[1] = scope', Behind(at, at2, N),
         \A x \in Tags : scopes'[at2[1]].tags[x] = 0, Around \notin ListScopes',
         NEW y, y = o.type, NEW e, e = m.ent, NEW ns, ns = m.names, ListAt(at2, N + 1, 1, y, e, ns)',
         \A k \in 1 .. Lists : \E z, f, ms : /\ z = open[k].type /\ f = members[k].ent
                                            /\ ms = members[k].names /\ ListAt(at, N, k, z, f, ms)'
  PROVE  /\ OpenListsOK' /\ Around' = Around /\ Lists' = Lists + 1
         /\ \A j \in 1 .. Lists : \E i \in 1 .. Lists' : ScopeAt(i)' = ScopeAt(j)
<1>1. /\ Lists \in Nat /\ Lists' = Lists + 1 /\ Lists' <= Len(open')
      /\ open'[1] = o /\ members'[1] = m
      /\ \A k \in 1 .. Lists : open'[k + 1] = open[k] /\ members'[k + 1] = members[k]
      /\ ScopeAt(1)' = scope' /\ \A j \in 1 .. Lists + 1 : ScopeAt(j + 1)' = ScopeAt(j)
      /\ Around' = Around
      /\ \A k \in DOMAIN open' :
           /\ (open'[k].what = "struct") = (k <= Lists')
           /\ open'[k].what = "proto" => Kind(open'[k].decl) = "func" /\ ~open'[k].decl.init
  BY StackMore
<1>2. PICK L, M : L = Lists + 1 /\ M = L + 1
  OBVIOUS
<1>3. L \in Nat /\ L = Lists' /\ N \in Nat /\ M = N + 1 /\ L = N
  BY <1>1, <1>2
<1>4. StackIs(at2, M)'
  <2>1. \A j \in 1 .. N : at[j] = ScopeAt(j)
    BY DEF StackIs
  <2>2. at2[1] = ScopeAt(1)' /\ \A j \in 1 .. N : at2[j + 1] = ScopeAt(j + 1)'
    BY <1>1, <2>1 DEF Behind
  <2>3. \A j \in 1 .. M : at2[j] = ScopeAt(j)'
    <3> TAKE j \in 1 .. M
    <3>1. CASE j = 1
      BY <2>2, <3>1
    <3>2. CASE j # 1
      <4>1. PICK i : i = j - 1
        OBVIOUS
      <4>2. i \in 1 .. N /\ j = i + 1
        BY <1>3, <3>2, <4>1
      <4> QED
        BY <2>2, <4>2
    <3> QED
      BY <3>1, <3>2
  <2> QED
    BY <2>3 DEF StackIs
<1>5. 1 \in 1 .. L /\ \A k \in 1 .. L : k # 1 => k - 1 \in 1 .. Lists /\ k = (k - 1) + 1
  BY <1>1, <1>2
<1>6. OpenList(1)'
  <2>1. y = open'[1].type /\ e = members'[1].ent /\ ns = members'[1].names
    BY <1>1
  <2>2. ListAt(at2, M, 1, y, e, ns)'
    BY <1>3
  <2> QED
    BY <1>2, <1>3, <1>4, <1>5, <2>1, <2>2, AtLists
<1>7. ASSUME NEW k \in 1 .. Lists, NEW p, p = k + 1 PROVE OpenList(p)'
  <2>1. PICK z, f, ms : /\ z = open[k].type /\ f = members[k].ent
                        /\ ms = members[k].names /\ ListAt(at, N, k, z, f, ms)'
    OBVIOUS
  <2>2. k \in 1 .. N /\ p \in 1 .. L
    BY <1>1, <1>2, <1>3, <1>7
  <2>3. ListAt(at2, M, p, z, f, ms)'
    <3>1. ListAt(at, N, k, z, f, ms)'
      BY <2>1
    <3>2. N \in Nat /\ k \in 1 .. N /\ M = N + 1 /\ p = k + 1
      BY <1>3, <1>7, <2>2
    <3>3. Behind(at, at2, N)
      OBVIOUS
    <3>4. \A x \in Tags : scopes'[at2[1]].tags[x] = 0
      OBVIOUS
    <3> QED
      BY <3>1, <3>2, <3>3, <3>4, ListInside
  <2>4. z = open'[p].type /\ f = members'[p].ent /\ ms = members'[p].names
    BY <1>1, <1>7, <2>1
  <2> QED
    BY <1>2, <1>3, <1>4, <2>2, <2>3, <2>4, AtLists
<1>8. ASSUME NEW k \in 1 .. L PROVE OpenList(k)'
  <2>1. CASE k = 1
    BY <1>6, <2>1
  <2>2. CASE k # 1
    <3>1. PICK i : i = k - 1
      OBVIOUS
    <3>2. i \in 1 .. Lists /\ k = i + 1
      BY <1>5, <2>2, <3>1
    <3> QED
      BY <1>7, <3>2
  <2> QED
    BY <2>1, <2>2
<1>9. \A j \in 1 .. Lists : \E i \in 1 .. Lists' : ScopeAt(i)' = ScopeAt(j)
  <2> TAKE j \in 1 .. Lists
  <2>1. PICK i : i = j + 1
    OBVIOUS
  <2>2. i \in 1 .. Lists' /\ j \in 1 .. Lists + 1
    BY <1>1, <2>1
  <2>3. ScopeAt(i)' = ScopeAt(j)
    BY <1>1, <2>1, <2>2
  <2> QED
    BY <2>2, <2>3
<1>10. Around' \notin ListScopes'
  BY <1>1
<1> QED
  BY <1>1, <1>3, <1>8, <1>9, <1>10 DEF OpenListsOK

\* "struct t {", of a struct that is new.
LEMMA FreshListAt ==
  ASSUME SInv, SInv', Coupled, NEW t \in Tags \cup {NoTag}, NEW u, NEW y, NEW k, NEW l,
         Made(t, u, y, k, l), NEW N, N = Lists + 1, NEW at, StackIs(at, N),
         NEW at2, at2[1] = u, Behind(at, at2, N), NEW M, M = N + 1
  PROVE  ListAt(at2, M, 1, y, l, {})'
<1>1. /\ TablesOK /\ TablesOK' /\ StackOK /\ ChainsOK /\ scope \in DOMAIN scopes
      /\ CTablesOK /\ OpenListsOK
  BY DEF SInv, StackOK, Coupled
<1>2. /\ ScopeMade(u) /\ TypeMade(u, y) /\ TagMade(t, y, k, l) /\ EntMade(l) /\ TagSet(t, k, l)
  BY DEF Made
<1>3. /\ u \notin DOMAIN scopes /\ Within'[u] = {u} \cup Within[scope]
  BY <1>1, <1>2, MadeScopes
<1>4. /\ N \in Nat /\ 1 \in 1 .. N /\ at[1] = scope
      /\ \A j \in 1 .. N : at[j] \in DOMAIN scopes /\ at[j] \in Within[scope]
  <2>1. /\ Lists \in Nat /\ \A j \in 1 .. Lists + 1 : ScopeAt(j) \in DOMAIN scopes
        /\ \A p \in 1 .. Lists + 1 : \A j \in p .. Lists + 1 : ScopeAt(j) \in Within[ScopeAt(p)]
        /\ scope = ScopeAt(1)
    BY <1>1, ListsAround
  <2>2. 1 \in 1 .. Lists + 1
    BY <2>1
  <2>3. \A j \in 1 .. Lists + 1 : ScopeAt(j) \in Within[scope]
    BY <2>1, <2>2
  <2> QED
    BY <2>1, <2>2, <2>3 DEF StackIs
<1>5. \A j \in 1 .. M : j = 1 \/ (j \in 2 .. M /\ \E i \in 1 .. N : at2[j] = at[i])
  <2> TAKE j \in 1 .. M
  <2>1. CASE j # 1
    <3>1. PICK i : i = j - 1
      OBVIOUS
    <3>2. i \in 1 .. N /\ j = i + 1 /\ j \in 2 .. M
      BY <1>4, <2>1, <3>1
    <3> QED
      BY <3>2 DEF Behind
  <2> QED
    BY <2>1
<1>6. \A j \in 1 + 1 .. M : j \in 1 .. M /\ j # 1
  BY <1>4
<1>7. ASSUME NEW i \in DOMAIN idents', i # 0, idents'[i].kind = "tag", idents'[i].ty.k = "struct"
      PROVE  (idents'[i].ty.n = y) = (stands'[i] = l)
  <2>1. CASE i \in DOMAIN idents
    <3>1. idents'[i] = idents[i] /\ stands'[i] = stands[i]
      BY <1>2, <2>1 DEF TagMade, IdentsKept
    <3>2. stands[i] \in DOMAIN ents /\ TypeOf(i) \in DOMAIN types
      BY <1>1, <1>7, <2>1, <3>1, TagNumbers
    <3>3. idents'[i].ty.n # y
      BY <1>2, <3>1, <3>2 DEF TypeOf, TypeMade
    <3>4. stands'[i] # l
      BY <1>2, <3>1, <3>2 DEF EntMade
    <3> QED
      BY <3>3, <3>4
  <2>2. CASE t # NoTag /\ i = k
    BY <1>2, <2>2 DEF TagMade
  <2> QED
    BY <1>2, <2>1, <2>2 DEF TagMade
<1>8. /\ at2[1] = types'[y].scope /\ l \in DOMAIN ents' /\ ents'[l].kind = "struct"
      /\ \A n \in Names : (n \in {}) = (scopes'[at2[1]].usual[n] # 0)
      /\ \A x \in Tags : scopes'[at2[1]].tags[x] = 0
  BY <1>2 DEF TypeMade, EntMade, ScopeMade
<1>9. \A j \in 1 .. M : at2[j] \in Within'[at2[1]]
  BY <1>3, <1>4, <1>5
<1>10. \A j \in 1 + 1 .. M : at2[j] # at2[1]
  BY <1>3, <1>4, <1>5, <1>6
<1>11. \A j \in 1 .. 1 : j = 1
  OBVIOUS
<1> QED
  BY <1>7, <1>8, <1>9, <1>10, <1>11 DEF ListAt, IsStructTag, TypeOf

LEMMA InFront ==
  ASSUME NEW S, NEW q \in Seq(S), NEW x \in S
  PROVE  <<x>> \o q \in Seq(S)
OBVIOUS

LEMMA OneFurther ==
  ASSUME NEW L \in Nat
  PROVE  \A j \in 1 .. L : j + 1 \in 1 .. L + 1
OBVIOUS

\* The list of a new struct is open.
LEMMA BeginNew ==
  ASSUME SInv, SInv', Coupled, NEW t \in Tags \cup {NoTag}, MakeStruct(t), scope' = Len(scopes) + 1,
         open' = <<Opened("struct", scope, NewType, NoDecl)>> \o open, last'.act # "declare",
         NEW l, l = Len(ents) + 1, CMade(t, l), meant' = Named(t, l), NewStand, TagIn(t) = 0,
         members' = <<[ent |-> l, names |-> {}]>> \o members
  PROVE  Coupled'
<1>1. /\ TablesOK /\ TablesOK' /\ StackOK /\ ChainsOK /\ scope \in DOMAIN scopes
      /\ CTablesOK /\ OpenListsOK
  BY DEF SInv, StackOK, Coupled
<1>2. PICK u, y, k : u = Len(scopes) + 1 /\ y = Len(types) + 1 /\ k = Len(idents) + 1
  OBVIOUS
<1>3. Made(t, u, y, k, l)
  BY <1>1, <1>2, StructMade
<1>4. /\ ScopeMade(u) /\ TypeMade(u, y) /\ TagMade(t, y, k, l) /\ EntMade(l) /\ TagSet(t, k, l)
  BY <1>3 DEF Made
<1>5. PICK o, m : o = Opened("struct", scope, NewType, NoDecl) /\ m = [ent |-> l, names |-> {}]
  OBVIOUS
<1>6. /\ o.what = "struct" /\ o.back = scope /\ o.type = y /\ m.ent = l /\ m.names = {}
      /\ open' = <<o>> \o open /\ members' = <<m>> \o members
  BY <1>2, <1>5 DEF Opened, NewType
<1>7. PICK N : N = Lists + 1
  OBVIOUS
<1>8. PICK at, at2 : at = [j \in 1 .. N |-> ScopeAt(j)]
                     /\ at2 = [j \in 1 .. N + 1 |-> IF j = 1 THEN u ELSE at[j - 1]]
  OBVIOUS
<1>9. Lists \in Nat /\ N \in Nat /\ Around \in DOMAIN scopes /\ Around \notin ListScopes
  BY <1>1, <1>7, ListsAround
<1>10. StackIs(at, N) /\ at2[1] = u /\ Behind(at, at2, N)
  <2>1. StackIs(at, N)
    BY <1>8 DEF StackIs
  <2>2. 1 \in 1 .. N + 1 /\ \A j \in 1 .. N : j + 1 \in 1 .. N + 1 /\ j + 1 # 1 /\ (j + 1) - 1 = j
    BY <1>9
  <2>3. at2[1] = u
    BY <1>8, <2>2
  <2>4. ASSUME NEW j \in 1 .. N PROVE at2[j + 1] = at[j]
    BY <1>8, <2>2
  <2> QED
    BY <2>1, <2>3, <2>4 DEF Behind
<1>11. ListAt(at2, N + 1, 1, y, l, {})'
  BY <1>3, <1>7, <1>10, FreshListAt
<1>12. \A x \in Tags : scopes'[at2[1]].tags[x] = 0
  BY <1>4, <1>10 DEF ScopeMade
<1>13. Around \notin ListScopes'
  BY <1>1, <1>4, <1>9, MadeScopes DEF ScopesCarried
<1>14. \A p \in 1 .. Lists : \E z, f, ms : /\ z = open[p].type /\ f = members[p].ent
                                          /\ ms = members[p].names /\ ListAt(at, N, p, z, f, ms)'
  <2> TAKE p \in 1 .. Lists
  <2>1. PICK z, f, ms : z = open[p].type /\ f = members[p].ent /\ ms = members[p].names
    OBVIOUS
  <2>2. ListAt(at, N, p, z, f, ms)'
    BY <1>1, <1>4, <1>7, <1>10, <2>1, MadeListAt
  <2> QED
    BY <2>1, <2>2
<1>15. scope' = u
  BY <1>2
<1>16. /\ OpenListsOK' /\ Around' = Around /\ Lists' = Lists + 1
       /\ \A j \in 1 .. Lists : \E i \in 1 .. Lists' : ScopeAt(i)' = ScopeAt(j)
  <2>1. PICK ns : ns = m.names
    OBVIOUS
  <2>2. ListAt(at2, N + 1, 1, y, l, ns)'
    BY <1>6, <1>11, <2>1
  <2>3. at2[1] = scope' /\ y = o.type /\ l = m.ent /\ o.what = "struct" /\ o.back = scope
        /\ open' = <<o>> \o open /\ members' = <<m>> \o members
    BY <1>6, <1>10, <1>15
  <2> QED
    BY <1>1, <1>7, <1>10, <1>12, <1>13, <1>14, <2>1, <2>2, <2>3, ListBegins
<1>17. UnopenedOK'
  <2>1. \A j \in 1 .. Lists : open'[j + 1] = open[j] /\ j + 1 \in 1 .. Lists'
    <3>1. Lists' = Lists + 1 /\ \A p \in 1 .. Lists : open'[p + 1] = open[p]
      BY <1>1, <1>6, StackMore
    <3>2. \A j \in 1 .. Lists : j + 1 \in 1 .. Lists + 1
      BY <1>9, OneFurther
    <3> QED
      BY <3>1, <3>2
  <2>2. \A z \in DOMAIN types : Unopened(z)' => Unopened(z)
    <3>1. \A z \in DOMAIN types : types'[z] = types[z]
      BY <1>4 DEF TypeMade
    <3> QED
      BY <2>1, <3>1 DEF Unopened
  <2> QED
    BY <1>1, <1>3, <2>2, MadeUnopened
<1>18. members' \in Seq([ent : Nat, names : SUBSET Names])
  <2>1. PICK S : S = [ent : Nat, names : SUBSET Names]
    OBVIOUS
  <2>2. members \in Seq(S)
    BY <1>1, <2>1 DEF CTablesOK
  <2>3. l \in Nat
    BY <1>9, EntNumbers
  <2>4. m \in S
    BY <1>5, <2>1, <2>3
  <2>5. members' \in Seq(S)
    BY <1>6, <2>2, <2>4, InFront
  <2> QED
    BY <2>1, <2>5
<1> QED
  BY <1>3, <1>16, <1>17, <1>18, MadeCoupled

\* "struct t {", of a struct that has its tag here.
LEMMA TagOfOpen ==
  ASSUME TablesOK, StackOK, Coupled, NEW t \in Tags, NEW tag, tag = scopes[scope].tags[t],
         IsStructTag(tag), NEW k \in 1 .. Lists
  PROVE  TypeOf(tag) # open[k].type /\ stands[tag] # members[k].ent
<1>1. OpenListsOK /\ CTablesOK /\ scope \in DOMAIN scopes
  BY DEF Coupled, StackOK
<1>2. scope = ScopeAt(1) /\ Lists \in Nat
  BY <1>1, ListsAround
<1>3. 1 \in 1 .. k
  OBVIOUS
<1>4. OpenList(k)
  BY <1>1 DEF OpenListsOK
<1>5. TypeOf(tag) # open[k].type
  BY <1>2, <1>3, <1>4 DEF OpenList
<1>6. tag \in DOMAIN idents
  BY <1>1, StructTags DEF IsStructTag
<1> QED
  BY <1>4, <1>5, <1>6 DEF OpenList

\* Nothing changes but what is read.
Reread ==
  /\ UNCHANGED <<scopes, idents, types, cscopes, ents, params>> /\ last'.act # "declare"
  /\ stands' = stands

\* The list of a struct that was is open.
LEMMA RereadCoupled ==
  ASSUME SInv, SInv', Coupled, Reread, members' \in Seq([ent : Nat, names : SUBSET Names]),
         Around' = Around, \A j \in 1 .. Lists : \E m \in 1 .. Lists' : ScopeAt(m)' = ScopeAt(j),
         OpenListsOK', UnopenedOK'
  PROVE  Coupled'
<1>1. TablesOK /\ StackOK
  BY DEF SInv
<1>2. CTablesOK' /\ RangesOK'
  BY DEF Reread, Coupled, CTablesOK, RangesOK, InRange, CScopeType, EntityType
<1>3. ListScopes' = ListScopes /\ Within' = Within
  BY DEF Reread, ListScopes, Within
<1>4. ChainsOK' /\ UsualOK'
  BY <1>3 DEF Reread, Coupled, ChainsOK, ChainOK, UsualOK, UsualAt
<1>5. TagTypesOK'
  BY <1>3 DEF Reread, Coupled, TagTypesOK, TagTypeAt, IsStructTag, TypeOf
<1>6. PICK s : s = Around
  OBVIOUS
<1>7. NamesOK(s, cscopes)'
  BY <1>6, NamesStay DEF Reread, Coupled
<1>8. TagsOK(s, cscopes)'
  <2>1. ScopesCarried /\ IdentsKept
    BY <1>3 DEF Reread, ScopesCarried, IdentsKept
  <2>2. /\ scopes'[s].chain = scopes[s].chain /\ cscopes' = cscopes
        /\ \A r \in DOMAIN scopes, x \in Tags : scopes'[r].tags[x] = scopes[r].tags[x]
        /\ \A r \in DOMAIN scopes' : r \in DOMAIN scopes \/ \A x \in Tags : scopes'[r].tags[x] = 0
    BY DEF Reread
  <2>3. \A k \in 1 .. Lists : \E m \in 1 .. Lists' : ScopeAt(m)' = ScopeAt(k)
    OBVIOUS
  <2> QED
    BY <1>1, <1>6, <2>1, <2>2, <2>3, TagsAsTheyWere
<1>9. NamesOK(Around, cscopes)' /\ TagsOK(Around, cscopes)'
  <2>1. s = Around'
    BY <1>6
  <2> QED
    BY <1>7, <1>8, <2>1, NamesMoved
<1>10. LinkedOK' /\ StandsOK'
  BY DEF Reread, Coupled, LinkedOK, LinkedAt, FileEntry, StandsOK, StandOK, LinkageOf, TypeOf
<1>11. StructsOK'
  BY DEF Reread, Coupled, StructsOK, IsStructTag, TypeOf
<1>12. ParamsOK'
  BY DEF Reread, ParamsOK
<1> QED
  BY <1>2, <1>4, <1>5, <1>9, <1>10, <1>11, <1>12 DEF Coupled

\* The tag t of a struct without its content.
TagOpens(t, tag, y, l, u) ==
  /\ tag = scopes[scope].tags[t] /\ IsStructTag(tag) /\ y = TypeOf(tag) /\ l = stands[tag]
  /\ u = types[y].scope /\ ~types[y].complete

\* Its list is like a new one.
LEMMA AgainListAt ==
  ASSUME SInv, SInv', Coupled, Reread, NEW t \in Tags, NEW tag, NEW y, NEW l, NEW u,
         TagOpens(t, tag, y, l, u), NEW N, N = Lists + 1, NEW at, StackIs(at, N),
         NEW at2, at2[1] = u, Behind(at, at2, N), NEW M, M = N + 1
  PROVE  ListAt(at2, M, 1, y, l, {})' /\ \A x \in Tags : scopes'[u].tags[x] = 0
<1> USE DEF TagOpens
<1>1. /\ TablesOK /\ TablesOK' /\ StackOK /\ ChainsOK /\ scope \in DOMAIN scopes
      /\ CTablesOK /\ OpenListsOK /\ UnopenedOK /\ TagTypesOK /\ StructsOK /\ StandsOK
  BY DEF SInv, StackOK, Coupled
<1>2. /\ tag \in DOMAIN idents /\ idents[tag].kind = "tag" /\ y \in DOMAIN types
      /\ u \in DOMAIN scopes /\ u \in ListScopes
  BY <1>1, StructTags DEF IsStructTag
<1>3. \A k \in 1 .. Lists : y # open[k].type
  BY <1>1, TagOfOpen
<1>4. EmptyList(y)
  BY <1>1, <1>2, <1>3 DEF UnopenedOK, Unopened
<1>5. scope \in Within[u]
  BY <1>1 DEF TagTypesOK, TagTypeAt
<1>6. /\ N \in Nat /\ Lists \in Nat /\ 1 \in 1 .. N /\ at[1] = scope
      /\ \A j \in 1 .. N : at[j] \in DOMAIN scopes /\ at[j] \in Within[scope]
      /\ \A j \in 1 .. N : at[j] = ScopeAt(j)
      /\ Around \notin ListScopes
  <2>1. /\ Lists \in Nat /\ \A j \in 1 .. Lists + 1 : ScopeAt(j) \in DOMAIN scopes
        /\ \A p \in 1 .. Lists + 1 : \A j \in p .. Lists + 1 : ScopeAt(j) \in Within[ScopeAt(p)]
        /\ scope = ScopeAt(1) /\ Around \notin ListScopes
    BY <1>1, ListsAround
  <2>2. 1 \in 1 .. Lists + 1
    BY <2>1
  <2>3. \A j \in 1 .. Lists + 1 : ScopeAt(j) \in Within[scope]
    BY <2>1, <2>2
  <2> QED
    BY <2>1, <2>2, <2>3 DEF StackIs
<1>7. ASSUME NEW j \in 1 .. N PROVE at[j] # u /\ at[j] \in Within[u]
  <2>1. at[j] \in Within[u]
    <3>1. at[j] \in Within[scope]
      BY <1>6
    <3> QED
      BY <1>1, <1>2, <1>5, <3>1, InsideTrans
  <2>2. CASE j \in 1 .. Lists
    <3>1. OpenList(j) /\ open[j].type \in DOMAIN types
      BY <1>1, <1>6, <2>2, OpenTypes DEF OpenListsOK
    <3>2. at[j] = types[open[j].type].scope
      BY <1>6, <3>1 DEF OpenList
    <3> QED
      BY <1>1, <1>2, <1>3, <2>1, <2>2, <3>1, <3>2 DEF ChainsOK
  <2>3. CASE j = Lists + 1
    <3>1. at[j] = Around
      BY <1>6, <2>3 DEF Around
    <3> QED
      BY <1>2, <1>6, <2>1, <3>1
  <2> QED
    BY <1>6, <2>2, <2>3
<1>8. \A j \in 1 .. M : j = 1 \/ (j \in 2 .. M /\ \E i \in 1 .. N : at2[j] = at[i])
  <2> TAKE j \in 1 .. M
  <2>1. CASE j # 1
    <3>1. PICK i : i = j - 1
      OBVIOUS
    <3>2. i \in 1 .. N /\ j = i + 1 /\ j \in 2 .. M
      BY <1>6, <2>1, <3>1
    <3> QED
      BY <3>2 DEF Behind
  <2> QED
    BY <2>1
<1>9. \A j \in 1 + 1 .. M : j \in 1 .. M /\ j # 1
  BY <1>6
<1>10. Within' = Within
  BY DEF Reread, Within, ListScopes
<1>11. \A j \in 1 .. M : at2[j] \in Within'[at2[1]]
  <2>1. u \in Within[u]
    BY <1>1, <1>2, InsideSelf
  <2> QED
    BY <1>7, <1>8, <1>10, <2>1
<1>12. \A j \in 1 + 1 .. M : at2[j] # at2[1]
  BY <1>7, <1>8, <1>9
<1>13. /\ at2[1] = types'[y].scope
       /\ \A n \in Names : (n \in {}) = (scopes'[at2[1]].usual[n] # 0)
       /\ \A x \in Tags : scopes'[at2[1]].tags[x] = 0
  <2>1. /\ \A n \in Names : scopes[u].usual[n] = 0
        /\ \A x \in Tags : scopes[u].tags[x] = 0
    BY <1>4 DEF EmptyList
  <2>2. scopes' = scopes /\ types' = types
    BY DEF Reread
  <2>3. /\ \A n \in Names : scopes'[at2[1]].usual[n] = 0
        /\ \A x \in Tags : scopes'[at2[1]].tags[x] = 0
    BY <2>1, <2>2
  <2>4. ASSUME NEW n \in Names PROVE (n \in {}) = (scopes'[at2[1]].usual[n] # 0)
    <3>1. scopes'[at2[1]].usual[n] = 0
      BY <2>3
    <3> QED
      BY <3>1
  <2>5. at2[1] = types'[y].scope
    BY <2>2
  <2> QED
    BY <2>3, <2>4, <2>5
<1>14. l \in DOMAIN ents' /\ ents'[l].kind = "struct"
  <2>1. l \in DOMAIN ents
    BY <1>1, <1>2, TagNumbers
  <2> QED
    BY <1>1, <1>2, <2>1 DEF StandsOK, StandOK, Reread, IsStructTag
<1>15. \A i \in DOMAIN idents' : IsStructTag(i)' => (TypeOf(i)' = y) = (stands'[i] = l)
  BY <1>1, <1>2 DEF StructsOK, Reread, IsStructTag, TypeOf
<1>16. \A j \in 1 .. 1 : j = 1
  OBVIOUS
<1>17. ASSUME NEW j \in 1 .. 1, NEW x \in Tags PROVE ~IsStructTag(scopes[at2[j]].tags[x])'
  BY <1>13, <1>16 DEF IsStructTag
<1> QED
  BY <1>11, <1>12, <1>13, <1>14, <1>15, <1>17 DEF ListAt

\* All of it.
LEMMA BeginAgain ==
  ASSUME SInv, SInv', Coupled, Reread, NEW t \in Tags, NEW tag, tag = scopes[scope].tags[t],
         IsStructTag(tag), NEW y, y = TypeOf(tag), NEW l, l = stands[tag],
         scope' = types[y].scope, ~types[y].complete,
         open' = <<Opened("struct", scope, y, NoDecl)>> \o open,
         members' = <<[ent |-> l, names |-> {}]>> \o members
  PROVE  Coupled'
<1>1. /\ TablesOK /\ TablesOK' /\ StackOK /\ ChainsOK /\ scope \in DOMAIN scopes
      /\ CTablesOK /\ OpenListsOK /\ UnopenedOK
  BY DEF SInv, StackOK, Coupled
<1>2. PICK o, m, u : /\ o = Opened("struct", scope, y, NoDecl) /\ m = [ent |-> l, names |-> {}]
                     /\ u = types[y].scope
  OBVIOUS
<1>3. /\ o.what = "struct" /\ o.back = scope /\ o.type = y /\ m.ent = l /\ m.names = {}
      /\ open' = <<o>> \o open /\ members' = <<m>> \o members
  BY <1>2 DEF Opened
<1>4. PICK N : N = Lists + 1
  OBVIOUS
<1>5. PICK at, at2 : at = [j \in 1 .. N |-> ScopeAt(j)]
                     /\ at2 = [j \in 1 .. N + 1 |-> IF j = 1 THEN u ELSE at[j - 1]]
  OBVIOUS
<1>6. Lists \in Nat /\ N \in Nat /\ Around \in DOMAIN scopes /\ Around \notin ListScopes
  BY <1>1, <1>4, ListsAround
<1>7. StackIs(at, N) /\ at2[1] = u /\ Behind(at, at2, N)
  <2>1. StackIs(at, N)
    BY <1>5 DEF StackIs
  <2>2. 1 \in 1 .. N + 1 /\ \A j \in 1 .. N : j + 1 \in 1 .. N + 1 /\ j + 1 # 1 /\ (j + 1) - 1 = j
    BY <1>6
  <2>3. at2[1] = u
    BY <1>5, <2>2
  <2>4. ASSUME NEW j \in 1 .. N PROVE at2[j + 1] = at[j]
    BY <1>5, <2>2
  <2> QED
    BY <2>1, <2>3, <2>4 DEF Behind
<1>8. ListAt(at2, N + 1, 1, y, l, {})' /\ \A x \in Tags : scopes'[u].tags[x] = 0
  <2>1. PICK M : M = N + 1
    OBVIOUS
  <2>2. TagOpens(t, tag, y, l, u)
    BY <1>2 DEF TagOpens
  <2>3. N = Lists + 1
    BY <1>4
  <2>4. StackIs(at, N) /\ at2[1] = u /\ Behind(at, at2, N)
    BY <1>7
  <2>5. ListAt(at2, M, 1, y, l, {})' /\ \A x \in Tags : scopes'[u].tags[x] = 0
    BY <2>1, <2>2, <2>3, <2>4, AgainListAt
  <2> QED
    BY <2>1, <2>5
<1>9. ListScopes' = ListScopes /\ Within' = Within
  BY DEF Reread, ListScopes, Within
<1>10. \A p \in 1 .. Lists : \E z, f, ms : /\ z = open[p].type /\ f = members[p].ent
                                          /\ ms = members[p].names /\ ListAt(at, N, p, z, f, ms)'
  <2> TAKE p \in 1 .. Lists
  <2>1. PICK z, f, ms : z = open[p].type /\ f = members[p].ent /\ ms = members[p].names
    OBVIOUS
  <2>2. ListAt(at, N, p, z, f, ms)
    BY <1>1, <1>4, <1>7, <2>1, ListsAt DEF StackIs
  <2>3. ListAt(at, N, p, z, f, ms)'
    BY <1>9, <2>2 DEF ListAt, Reread, IsStructTag, TypeOf
  <2> QED
    BY <2>1, <2>3
<1>11. /\ OpenListsOK' /\ Around' = Around /\ Lists' = Lists + 1
       /\ \A j \in 1 .. Lists : \E i \in 1 .. Lists' : ScopeAt(i)' = ScopeAt(j)
  <2>1. PICK ns : ns = m.names
    OBVIOUS
  <2>2. ListAt(at2, N + 1, 1, y, l, ns)'
    BY <1>3, <1>8, <2>1
  <2>3. at2[1] = scope' /\ y = o.type /\ l = m.ent /\ o.what = "struct" /\ o.back = scope
        /\ open' = <<o>> \o open /\ members' = <<m>> \o members
    BY <1>2, <1>3, <1>7
  <2>4. \A x \in Tags : scopes'[at2[1]].tags[x] = 0
    BY <1>7, <1>8
  <2>5. Around \notin ListScopes'
    BY <1>6, <1>9
  <2> QED
    BY <1>1, <1>4, <1>7, <1>10, <2>1, <2>2, <2>3, <2>4, <2>5, ListBegins
<1>12. UnopenedOK'
  <2>1. \A j \in 1 .. Lists : open'[j + 1] = open[j] /\ j + 1 \in 1 .. Lists'
    <3>1. Lists' = Lists + 1 /\ \A p \in 1 .. Lists : open'[p + 1] = open[p]
      BY <1>1, <1>3, StackMore
    <3>2. \A j \in 1 .. Lists : j + 1 \in 1 .. Lists + 1
      BY <1>6, OneFurther
    <3> QED
      BY <3>1, <3>2
  <2>2. \A z \in DOMAIN types : Unopened(z)' => Unopened(z)
    BY <2>1 DEF Unopened, Reread
  <2> QED
    BY <1>1, <2>2 DEF UnopenedOK, EmptyList, Reread
<1>13. members' \in Seq([ent : Nat, names : SUBSET Names])
  <2>1. PICK S : S = [ent : Nat, names : SUBSET Names]
    OBVIOUS
  <2>2. members \in Seq(S)
    BY <1>1, <2>1 DEF CTablesOK
  <2>3. l \in Nat
    <3>1. tag \in DOMAIN idents /\ idents[tag].kind = "tag"
      BY <1>1, StructTags DEF IsStructTag
    <3>2. l \in DOMAIN ents
      BY <1>1, <3>1, TagNumbers
    <3> QED
      BY <3>2, EntNumbers
  <2>4. m \in S
    BY <1>2, <2>1, <2>3
  <2>5. members' \in Seq(S)
    BY <1>3, <2>2, <2>4, InFront
  <2> QED
    BY <2>1, <2>5
<1> QED
  BY <1>11, <1>12, <1>13, RereadCoupled

\* A tag that is there is entered again.
LEMMA TagSame ==
  ASSUME NEW cs \in Seq(CScopeType), cs # <<>>, NEW t \in Tags, NEW e, cs[1].tags[t] = e
  PROVE  [cs EXCEPT ![1].tags[t] = e] = cs
<1>1. 1 \in DOMAIN cs /\ cs[1] \in CScopeType /\ cs = [i \in DOMAIN cs |-> cs[i]]
  <2> HIDE DEF CScopeType
  <2> QED
    OBVIOUS
<1> DEFINE c == [cs[1] EXCEPT !.tags[t] = e]
<1>2. c = cs[1]
  <2>1. cs[1].tags \in [Tags -> Nat]
    BY <1>1 DEF CScopeType
  <2>2. [cs[1].tags EXCEPT ![t] = e] = cs[1].tags
    BY <2>1
  <2>3. c = [cs[1] EXCEPT !.tags = [cs[1].tags EXCEPT ![t] = e]]
    OBVIOUS
  <2> QED
    BY <1>1, <2>2, <2>3 DEF CScopeType
<1>3. [cs EXCEPT ![1].tags[t] = e] = [cs EXCEPT ![1] = c]
  OBVIOUS
<1> HIDE DEF c, CScopeType
<1>4. [cs EXCEPT ![1] = cs[1]] = cs
  BY <1>1
<1> QED
  BY <1>2, <1>3, <1>4

\* "struct t {": what kcc refuses breaks a constraint of C, and C has no other.
LEMMA BeginStructHeld ==
  ASSUME SInv, SInv', Coupled, NEW t \in Tags \cup {NoTag}, BeginStruct(t), known' = {}
  PROVE  Held'
<1>1. TablesOK /\ StackOK /\ StandsOK /\ CTablesOK /\ OpenListsOK
  BY DEF SInv, Coupled
<1>2. verdict = "ok" /\ cverdict = "ok" /\ (cverdict' = "ok" => NewStand) /\ ~OutsideTag(t)
  <2>1. PICK differs : Both(differs) /\ differs = Known("tag from outside a struct", OutsideTag(t))
    BY DEF BeginStruct
  <2>2. differs = {} /\ verdict = "ok" /\ cverdict = "ok" /\ (cverdict' = "ok" => NewStand)
    BY <2>1, OfBoth
  <2> QED
    BY <2>1, <2>2 DEF Known
<1>3. EnterStruct(t) /\ CEnterStruct(t)
  BY DEF BeginStruct
<1>4. PICK tag : tag = IF t = NoTag THEN 0 ELSE FindTagInCurrScope(scope, t)
  OBVIOUS
<1>5. CASE tag = 0
  <2>1. TagIn(t) = 0
    <3>1. CASE t = NoTag
      BY <3>1 DEF TagIn
    <3>2. CASE t # NoTag /\ In("struct")
      BY <1>2, <1>4, <1>5, <3>2 DEF OutsideTag
    <3>3. CASE t # NoTag /\ ~In("struct")
      <4>1. Lists = 0
        BY <1>1, <3>3, FlatIn
      <4>2. t \in Tags /\ scopes[scope].tags[t] = 0
        BY <1>4, <1>5, <3>3 DEF FindTagInCurrScope
      <4> QED
        BY <1>1, <4>1, <4>2, TagHere DEF TagIn
    <3> QED
      BY <3>1, <3>2, <3>3
  <2>2. /\ MakeStruct(t) /\ scope' = Len(scopes) + 1 /\ last'.act # "declare" /\ verdict' = verdict
        /\ open' = <<Opened("struct", scope, NewType, NoDecl)>> \o open
    BY <1>3, <1>4, <1>5 DEF EnterStruct, Denotes
  <2>3. PICK l : l = Len(ents) + 1
    OBVIOUS
  <2>4. /\ CMade(t, l) /\ meant' = Named(t, l) /\ cverdict' = cverdict
        /\ members' = <<[ent |-> l, names |-> {}]>> \o members
    BY <1>3, <2>1, <2>3 DEF CEnterStruct, CMade, NewEntity
  <2>5. NewStand
    BY <1>2, <2>4
  <2>6. Coupled'
    BY <2>1, <2>2, <2>3, <2>4, <2>5, BeginNew
  <2> QED
    BY <1>2, <2>2, <2>4, <2>6 DEF Held
<1>6. CASE tag # 0
  <2>1. t # NoTag /\ t \in Tags /\ tag = scopes[scope].tags[t]
    BY <1>4, <1>6 DEF FindTagInCurrScope
  <2>2. /\ tag \in DOMAIN idents /\ idents[tag].kind = "tag" /\ TagIn(t) = stands[tag]
        /\ stands[tag] # 0
    BY <1>1, <1>6, <2>1, TagHere DEF TagIn
  <2>3. PICK l, y : l = stands[tag] /\ y = TypeOf(tag)
    OBVIOUS
  <2>4. /\ ents[l].kind = IF idents[tag].ty.k = "struct" THEN "struct" ELSE "enum"
        /\ idents[tag].ty.k = "struct" => types[y].complete = (ents[l].def = "yes")
    BY <1>1, <2>2, <2>3 DEF StandsOK, StandOK
  <2>5. IsStructTag(tag) => \A i \in DOMAIN members : members[i].ent # l
    <3> SUFFICES ASSUME IsStructTag(tag), NEW i \in DOMAIN members PROVE members[i].ent # l
      OBVIOUS
    <3>1. i \in 1 .. Lists
      <4>1. members \in Seq([ent : Nat, names : SUBSET Names])
        BY <1>1 DEF CTablesOK
      <4> QED
        BY <4>1 DEF Lists
    <3> QED
      BY <1>1, <2>1, <2>3, <3>1, TagOfOpen
  <2>6. CASE idents[tag].ty.k = "struct" => types[y].complete
    <3>1. Stop("error")
      BY <1>3, <1>4, <1>6, <2>3, <2>6 DEF EnterStruct, TypeOf
    <3>2. Breaks("constraint")
      BY <1>3, <2>2, <2>3, <2>4, <2>6 DEF CEnterStruct
    <3> QED
      BY <3>1, <3>2 DEF Stop, Breaks, Held
  <2>7. CASE idents[tag].ty.k = "struct" /\ ~types[y].complete
    <3>1. IsStructTag(tag)
      BY <1>6, <2>2, <2>7 DEF IsStructTag
    <3>2. /\ scope' = types[y].scope /\ last'.act # "declare" /\ verdict' = verdict
          /\ open' = <<Opened("struct", scope, y, NoDecl)>> \o open
          /\ UNCHANGED <<scopes, idents, types>>
      BY <1>3, <1>4, <1>6, <2>3, <2>7 DEF EnterStruct, Denotes, TypeOf
    <3>3. ~(\/ ents[l].kind = "enum" \/ ents[l].def = "yes" \/ \E i \in DOMAIN members : members[i].ent = l)
      BY <2>4, <2>5, <2>7, <3>1
    <3>4. /\ ents' = ents /\ cscopes' = WithTag(t, l) /\ params' = params /\ cverdict' = cverdict
          /\ members' = <<[ent |-> l, names |-> {}]>> \o members
      BY <1>3, <2>2, <2>3, <3>3 DEF CEnterStruct
    <3>5. cscopes' = cscopes
      <4>1. cscopes[1].tags[t] = l
        BY <2>1, <2>2, <2>3 DEF TagIn
      <4>2. cscopes \in Seq(CScopeType) /\ cscopes # <<>>
        BY <1>1 DEF CTablesOK
      <4>3. l \in Nat
        <5>1. l \in DOMAIN ents
          BY <1>1, <2>2, <2>3, TagNumbers
        <5> QED
          BY <5>1, EntNumbers
      <4> QED
        BY <2>1, <3>4, <4>1, <4>2, <4>3, TagSame DEF WithTag
    <3>6. stands' = stands
      BY <1>1, <1>2, <3>2, <3>4, StandsSame
    <3>7. Reread
      BY <3>2, <3>4, <3>5, <3>6 DEF Reread
    <3>8. Coupled'
      BY <2>1, <2>3, <2>7, <3>1, <3>2, <3>4, <3>7, BeginAgain
    <3> QED
      BY <1>2, <3>2, <3>4, <3>8 DEF Held
  <2> QED
    BY <2>6, <2>7
<1> QED
  BY <1>5, <1>6

---------------------------------------------------------------------------
(* Members.                                                              *)

\* A member n, with the identifier k, in the innermost list.
MemberIs(n, k) ==
  /\ IdentsKept /\ SameChains
  /\ k \in DOMAIN idents' /\ k # 0 /\ DOMAIN idents' = DOMAIN idents \cup {k} /\ k \notin DOMAIN idents
  /\ stands' \in Seq(Nat) /\ Len(stands') = Len(idents') /\ stands'[k] = 0
  /\ idents'[k].kind = "object" /\ idents'[k].linkage = "none" /\ idents'[k].scope = scope
  /\ \A r \in DOMAIN scopes :
       /\ \A x \in Tags : scopes'[r].tags[x] = scopes[r].tags[x]
       /\ \A m \in Names : scopes'[r].usual[m] = IF r = scope /\ m = n THEN k ELSE scopes[r].usual[m]

MemberMade(n, k) ==
  /\ MemberIs(n, k) /\ UNCHANGED <<scope, types, open, cscopes, ents, params>>
  /\ last'.act # "declare"

MemberAdded(n) ==
  /\ idents' = Append(idents, Ident("object", n, IntType, "none", "", scope))
  /\ scopes' = InsertUsual(scope, n, NewIdent) /\ types' = types /\ meant' = <<0>>

\* That is what the step does.
LEMMA MemberIdent ==
  ASSUME TablesOK, Coupled, scope \in DOMAIN scopes, NEW n \in Names, NewStand, MemberAdded(n),
         NEW k, k = Len(idents) + 1
  PROVE  MemberIs(n, k)
<1>1. Len(idents) \in Nat /\ DOMAIN idents = 1 .. Len(idents)
  BY Domains
<1>2. stands \in Seq(Nat) /\ Len(stands) = Len(idents)
  BY DEF Coupled, CTablesOK
<1>3. PICK h : h = Ident("object", n, IntType, "none", "", scope)
  OBVIOUS
<1>4. h.kind = "object" /\ h.linkage = "none" /\ h.scope = scope
  BY <1>3 DEF Ident
<1>5. /\ Len(idents') = Len(idents) + 1 /\ DOMAIN idents' = 1 .. Len(idents) + 1
      /\ idents'[Len(idents) + 1] = h
      /\ \A i \in DOMAIN idents : idents'[i] = idents[i]
  <2>1. PICK S : S = IdentType
    OBVIOUS
  <2>2. idents \in Seq(S)
    BY <2>1 DEF TablesOK
  <2>3. idents' = Append(idents, h)
    BY <1>3 DEF MemberAdded
  <2> QED
    BY <2>2, <2>3
<1>6. stands' = Append(stands, 0)
  <2>1. meant' = <<0>> /\ 0 \in Nat
    BY DEF MemberAdded
  <2>2. Len(idents') = Len(idents) + 1
    BY <1>5
  <2> QED
    BY <2>1, <2>2, StandsOne
<1>7. /\ stands' \in Seq(Nat) /\ Len(stands') = Len(stands) + 1 /\ stands'[Len(stands) + 1] = 0
      /\ \A i \in DOMAIN stands : stands'[i] = stands[i]
      /\ DOMAIN stands = 1 .. Len(stands)
  BY <1>2, <1>6, Appended
<1>8. IdentsKept
  BY <1>1, <1>2, <1>5, <1>7 DEF IdentsKept
<1>9. /\ k \in DOMAIN idents' /\ k \notin DOMAIN idents /\ k # 0
      /\ DOMAIN idents' = DOMAIN idents \cup {k}
  BY <1>1, <1>5
<1>10. scopes \in Seq(ScopeType)
  BY DEF TablesOK
<1>11. /\ Len(scopes') = Len(scopes)
       /\ \A r \in DOMAIN scopes :
            /\ scopes'[r].type = scopes[r].type /\ scopes'[r].chain = scopes[r].chain
            /\ scopes'[r].tags = scopes[r].tags
            /\ \A m \in Names : scopes'[r].usual[m] = IF r = scope /\ m = n THEN k ELSE scopes[r].usual[m]
  <2> DEFINE e == [scopes[scope] EXCEPT !.usual[n] = k]
  <2>1. scopes[scope] \in ScopeType /\ k \in Nat
    BY <1>1, <1>10
  <2>2. /\ e \in ScopeType /\ e.type = scopes[scope].type /\ e.chain = scopes[scope].chain
        /\ e.tags = scopes[scope].tags
        /\ \A m \in Names : e.usual[m] = IF m = n THEN k ELSE scopes[scope].usual[m]
    BY <2>1 DEF ScopeType
  <2>3. scopes' = [scopes EXCEPT ![scope] = e]
    BY DEF InsertUsual, NewIdent, MemberAdded
  <2> HIDE DEF e, ScopeType
  <2>4. /\ Len(scopes') = Len(scopes)
        /\ \A r \in DOMAIN scopes : scopes'[r] = IF r = scope THEN e ELSE scopes[r]
    BY <1>10, <2>2, <2>3, Replaced
  <2> QED
    BY <2>2, <2>4
<1>12. SameChains
  BY <1>11 DEF SameChains, MemberAdded
<1> QED
  BY <1>2, <1>4, <1>5, <1>7, <1>8, <1>9, <1>11, <1>12 DEF MemberIs

\* The innermost list is where the parser is.
LEMMA InList ==
  ASSUME TablesOK, StackOK, Coupled, In("struct")
  PROVE  /\ Lists \in Nat /\ Lists >= 1 /\ 1 \in 1 .. Lists /\ scope = ScopeAt(1)
         /\ OpenList(1) /\ scope = types[open[1].type].scope /\ open[1].type \in DOMAIN types
         /\ scope \in DOMAIN scopes /\ scope \in ListScopes /\ 1 \in DOMAIN open
<1>1. OpenListsOK /\ CTablesOK /\ scope \in DOMAIN scopes
  BY DEF Coupled, StackOK
<1>2. Lists \in Nat /\ scope = ScopeAt(1) /\ \A k \in 1 .. Lists : ScopeAt(k) \in ListScopes
  BY <1>1, ListsAround
<1>3. 1 \in DOMAIN open
  <2>1. open \in Seq(OpenType) /\ open # <<>>
    BY DEF StackOK, In
  <2> HIDE DEF OpenType
  <2> QED
    BY <2>1
<1>4. 1 <= Lists
  BY <1>1, <1>3 DEF OpenListsOK, In
<1>5. 1 \in 1 .. Lists
  BY <1>2, <1>4
<1>6. OpenList(1) /\ open[1].type \in DOMAIN types
  BY <1>1, <1>2, <1>5, OpenTypes DEF OpenListsOK
<1>7. scope = types[open[1].type].scope
  BY <1>2, <1>6 DEF OpenList
<1> QED
  BY <1>1, <1>2, <1>3, <1>4, <1>5, <1>6, <1>7

\* The open lists, the innermost with one name more.
LEMMA MemberListAt ==
  ASSUME SInv, SInv', Coupled, In("struct"), NEW n \in Names, NEW k, MemberMade(n, k),
         NEW N, N = Lists + 1, NEW at, StackIs(at, N), NEW m \in 1 .. Lists,
         NEW z, z = open[m].type, NEW e, e = members[m].ent,
         NEW ns, ns = IF m = 1 THEN members[m].names \cup {n} ELSE members[m].names
  PROVE  ListAt(at, N, m, z, e, ns)'
<1>1. /\ TablesOK /\ TablesOK' /\ StackOK /\ CTablesOK /\ OpenListsOK
      /\ IdentsKept /\ SameChains
  BY DEF SInv, Coupled, MemberMade, MemberIs
<1>2. PICK ms : ms = members[m].names
  OBVIOUS
<1>3. ListAt(at, N, m, z, e, ms)
  BY <1>1, <1>2, ListsAt DEF StackIs
<1>4. /\ \A j \in 1 .. N : at[j] = ScopeAt(j) /\ at[j] \in DOMAIN scopes
      /\ Lists \in Nat /\ scope = at[1] /\ 1 \in 1 .. Lists
  <2>1. /\ Lists \in Nat /\ \A j \in 1 .. Lists + 1 : ScopeAt(j) \in DOMAIN scopes
        /\ scope = ScopeAt(1)
    BY <1>1, ListsAround
  <2>2. 1 \in 1 .. Lists /\ 1 \in 1 .. N
    BY <1>1, <2>1, InList
  <2> QED
    BY <2>1, <2>2 DEF StackIs
<1>5. /\ m \in 1 .. N /\ m \in Nat /\ \A j \in 1 .. m : j \in 1 .. N
      /\ \A j \in m .. N : j \in 1 .. N
      /\ \A j \in m + 1 .. N : j \in 1 .. N
  BY <1>4
<1>6. m # 1 => at[m] # scope
  <2> SUFFICES ASSUME m # 1 PROVE at[m] # scope
    OBVIOUS
  <2>1. m \in 1 + 1 .. Lists + 1
    BY <1>4
  <2>2. OpenList(1)
    BY <1>1, <1>4 DEF OpenListsOK
  <2> QED
    BY <1>4, <1>5, <2>1, <2>2 DEF OpenList
<1>7. \A q \in Names : (q \in ns) = (scopes'[at[m]].usual[q] # 0)
  <2> TAKE q \in Names
  <2>1. (q \in ms) = (scopes[at[m]].usual[q] # 0)
    BY <1>3 DEF ListAt
  <2>2. scopes'[at[m]].usual[q] = IF at[m] = scope /\ q = n THEN k ELSE scopes[at[m]].usual[q]
    BY <1>4, <1>5 DEF MemberMade, MemberIs
  <2>3. k # 0
    BY DEF MemberMade, MemberIs
  <2>4. CASE m = 1
    <3>1. at[m] = scope /\ (q \in ns) = (q \in ms \/ q = n)
      BY <1>2, <1>4, <2>4
    <3> QED
      BY <2>1, <2>2, <2>3, <3>1
  <2>5. CASE m # 1
    BY <1>2, <1>6, <2>1, <2>2, <2>5
  <2> QED
    BY <2>4, <2>5
<1>8. Within' = Within /\ ListScopes' = ListScopes
  BY <1>1, SameLists
<1>9. at[m] = types'[z].scope /\ e \in DOMAIN ents' /\ ents'[e].kind = "struct"
      /\ \A j \in m .. N : at[j] \in Within'[at[m]]
  BY <1>3, <1>8 DEF ListAt, MemberMade, MemberIs
<1>10. \A i \in DOMAIN idents' : IsStructTag(i)' => (TypeOf(i)' = z) = (stands'[i] = e)
  <2> SUFFICES ASSUME NEW i \in DOMAIN idents', IsStructTag(i)'
               PROVE  (TypeOf(i)' = z) = (stands'[i] = e)
    OBVIOUS
  <2>1. i \in DOMAIN idents
    BY DEF MemberMade, MemberIs, IsStructTag
  <2>2. idents'[i] = idents[i] /\ stands'[i] = stands[i]
    BY <1>1, <2>1 DEF IdentsKept
  <2> QED
    BY <1>3, <2>1, <2>2 DEF ListAt, IsStructTag, TypeOf
<1>11. ASSUME NEW j \in 1 .. N, NEW x \in Tags
       PROVE  scopes'[at[j]].tags[x] = scopes[at[j]].tags[x]
  BY <1>4 DEF MemberMade, MemberIs
<1>12. ASSUME NEW j \in 1 .. m, NEW x \in Tags, IsStructTag(scopes[at[j]].tags[x])'
       PROVE  TypeOf(scopes[at[j]].tags[x])' # z
  <2>1. PICK i : i = scopes[at[j]].tags[x]
    OBVIOUS
  <2>2. scopes'[at[j]].tags[x] = i
    BY <1>5, <1>11, <2>1
  <2>3. i # 0 => i \in DOMAIN idents
    BY <1>1, <1>4, <1>5, <2>1, StructTags
  <2>4. i # 0 /\ idents'[i] = idents[i]
    BY <1>1, <1>12, <2>2, <2>3 DEF IsStructTag, IdentsKept
  <2>5. IsStructTag(i)
    BY <1>12, <2>2, <2>4 DEF IsStructTag
  <2>6. TypeOf(i) # z
    BY <1>3, <2>1, <2>5 DEF ListAt
  <2> QED
    BY <2>2, <2>4, <2>6 DEF TypeOf
<1>13. \A j \in m + 1 .. N :
         /\ at[j] # at[m]
         /\ \A x \in Tags : scopes'[at[m]].tags[x] = 0 \/ scopes'[at[j]].tags[x] = 0
  BY <1>3, <1>5, <1>11 DEF ListAt
<1> QED
  BY <1>7, <1>9, <1>10, <1>12, <1>13 DEF ListAt

\* A scope of a list that is not open is not where the parser is.
LEMMA UnopenedElsewhere ==
  ASSUME TablesOK, StackOK, Coupled, In("struct"), NEW y \in DOMAIN types, Unopened(y)
  PROVE  types[y].scope # scope
<1>1. scope = types[open[1].type].scope /\ open[1].type \in DOMAIN types /\ 1 \in 1 .. Lists
  BY InList
<1>2. open[1].type # y
  BY <1>1 DEF Unopened
<1> QED
  BY <1>1, <1>2 DEF Coupled, ChainsOK

LEMMA MemberUnopened ==
  ASSUME TablesOK, StackOK, Coupled, In("struct"), NEW n \in Names, NEW k, MemberMade(n, k),
         Lists' = Lists
  PROVE  UnopenedOK'
<1>1. UnopenedOK /\ types' = types /\ open' = open
  BY DEF Coupled, MemberMade, MemberIs
<1> SUFFICES ASSUME NEW y \in DOMAIN types, Unopened(y)' PROVE EmptyList(y)'
  BY <1>1 DEF UnopenedOK
<1>2. Unopened(y)
  BY <1>1 DEF Unopened
<1>3. EmptyList(y) /\ types[y].scope # scope
  BY <1>1, <1>2, UnopenedElsewhere DEF UnopenedOK
<1>4. PICK r : r = types[y].scope
  OBVIOUS
<1>5. r \in DOMAIN scopes /\ types'[y].scope = r
  BY <1>1, <1>4, Domains DEF TablesOK
<1>6. \A m \in Names : scopes'[r].usual[m] = 0
  BY <1>3, <1>4, <1>5 DEF EmptyList, MemberMade, MemberIs
<1>7. \A x \in Tags : scopes'[r].tags[x] = 0
  BY <1>3, <1>4, <1>5 DEF EmptyList, MemberMade, MemberIs
<1> QED
  BY <1>5, <1>6, <1>7 DEF EmptyList

ListAdds(n) == members' = [members EXCEPT ![1].names = @ \cup {n}]

LEMMA MemberLists ==
  ASSUME SInv, SInv', Coupled, In("struct"), NEW n \in Names, NEW k, MemberMade(n, k), ListAdds(n)
  PROVE  /\ OpenListsOK' /\ Lists' = Lists /\ Around' = Around
         /\ \A j \in 1 .. Lists + 1 : ScopeAt(j)' = ScopeAt(j)
         /\ members' \in Seq([ent : Nat, names : SUBSET Names])
<1>1. /\ TablesOK /\ TablesOK' /\ StackOK /\ OpenListsOK /\ CTablesOK /\ SameChains
  BY DEF SInv, Coupled, MemberMade, MemberIs
<1>2. open' = open /\ scope' = scope
  BY DEF MemberMade, MemberIs
<1>3. Lists \in Nat /\ 1 \in 1 .. Lists /\ Around \notin ListScopes
  BY <1>1, InList DEF OpenListsOK
<1>4. /\ Len(members') = Len(members) /\ members' \in Seq([ent : Nat, names : SUBSET Names])
      /\ members'[1].ent = members[1].ent /\ members'[1].names = members[1].names \cup {n}
      /\ \A j \in 1 .. Lists : j # 1 => members'[j] = members[j]
  <2> DEFINE c == [members[1] EXCEPT !.names = @ \cup {n}]
  <2>1. PICK S : S = [ent : Nat, names : SUBSET Names]
    OBVIOUS
  <2>2. members \in Seq(S) /\ DOMAIN members = 1 .. Lists
    BY <1>1, <2>1 DEF CTablesOK, Lists
  <2>3. 1 \in DOMAIN members /\ members[1] \in S
    BY <1>3, <2>2
  <2>4. c \in S /\ c.ent = members[1].ent /\ c.names = members[1].names \cup {n}
    BY <2>1, <2>3
  <2>5. members' = [members EXCEPT ![1] = c]
    BY DEF ListAdds
  <2> HIDE DEF c
  <2>6. PICK w : w = members'
    OBVIOUS
  <2>7. /\ w \in Seq(S) /\ Len(w) = Len(members)
        /\ \A j \in DOMAIN members : w[j] = IF j = 1 THEN c ELSE members[j]
    <3>1. members \in Seq(S) /\ 1 \in DOMAIN members /\ c \in S
      BY <2>2, <2>3, <2>4
    <3>2. w = [members EXCEPT ![1] = c]
      BY <2>5, <2>6
    <3> QED
      BY <3>1, <3>2, Replaced
  <2> QED
    BY <2>1, <2>2, <2>3, <2>4, <2>6, <2>7
<1>5. Lists' = Lists /\ Around' = Around /\ \A j \in 1 .. Lists + 1 : ScopeAt(j)' = ScopeAt(j)
  <2>1. Lists' = Lists
    BY <1>4 DEF Lists
  <2> QED
    BY <1>2, <2>1 DEF Around, ScopeAt
<1>6. PICK L, N : L = Lists /\ N = L + 1
  OBVIOUS
<1>7. PICK at : at = [j \in 1 .. N |-> ScopeAt(j)]
  OBVIOUS
<1>8. StackIs(at, N) /\ StackIs(at, N)' /\ L \in Nat /\ L = Lists'
  BY <1>3, <1>5, <1>6, <1>7 DEF StackIs
<1>9. ASSUME NEW m \in 1 .. L PROVE OpenList(m)'
  <2>1. PICK z, e, ns : /\ z = open[m].type /\ e = members[m].ent
                        /\ ns = IF m = 1 THEN members[m].names \cup {n} ELSE members[m].names
    OBVIOUS
  <2>2. ListAt(at, N, m, z, e, ns)'
    BY <1>6, <1>8, <2>1, MemberListAt
  <2>3. z = open'[m].type /\ e = members'[m].ent /\ ns = members'[m].names
    <3>1. CASE m = 1
      BY <1>2, <1>4, <2>1, <3>1
    <3>2. CASE m # 1
      BY <1>2, <1>4, <1>6, <2>1, <3>2
    <3> QED
      BY <3>1, <3>2
  <2> QED
    BY <1>6, <1>8, <2>2, <2>3, AtLists
<1>10. ListScopes' = ListScopes
  BY <1>1, SameLists
<1>11. /\ Lists' <= Len(open') /\ Around' \notin ListScopes'
       /\ \A j \in DOMAIN open' :
            /\ (open'[j].what = "struct") = (j <= Lists')
            /\ open'[j].what = "proto" => Kind(open'[j].decl) = "func" /\ ~open'[j].decl.init
  BY <1>1, <1>2, <1>3, <1>5, <1>10 DEF OpenListsOK
<1> QED
  BY <1>4, <1>5, <1>6, <1>8, <1>9, <1>11 DEF OpenListsOK

\* All of it, of a member.
LEMMA MemberCoupled ==
  ASSUME SInv, SInv', Coupled, In("struct"), NEW n \in Names, NEW k, MemberMade(n, k), ListAdds(n)
  PROVE  Coupled'
<1>1. /\ TablesOK /\ TablesOK' /\ StackOK /\ KindsOK /\ ChainsOK /\ CTablesOK /\ SameChains /\ IdentsKept
      /\ UsualOK /\ TagTypesOK /\ StructsOK /\ RangesOK
  BY DEF SInv, Coupled, MemberMade, MemberIs
<1>2. /\ OpenListsOK' /\ Lists' = Lists /\ Around' = Around
      /\ \A j \in 1 .. Lists + 1 : ScopeAt(j)' = ScopeAt(j)
      /\ members' \in Seq([ent : Nat, names : SUBSET Names])
  BY MemberLists
<1>3. scope \in ListScopes /\ scope \in DOMAIN scopes
  BY <1>1, InList
<1>4. ChainsOK' /\ Within' = Within /\ ListScopes' = ListScopes /\ DOMAIN scopes' = DOMAIN scopes
  BY <1>1, SameLists, KeptChains
<1>5. ScopesCarried /\ TypesCarried /\ IdentsCarried
  BY <1>1, SameCarried, KeptCarried
<1>6. CTablesOK'
  <2>1. cscopes' = cscopes /\ ents' = ents /\ params' = params
    BY DEF MemberMade, MemberIs
  <2> QED
    BY <1>1, <1>2, <2>1 DEF CTablesOK, MemberMade, MemberIs, CScopeType, EntityType
<1>7. EntsCarried /\ ents' = ents /\ cscopes' = cscopes /\ params' = params /\ types' = types
  BY DEF EntsCarried, MemberMade, MemberIs
<1>8. RangesOK'
  <2>1. \A i \in DOMAIN stands' : stands'[i] # 0 => stands'[i] \in DOMAIN ents'
    <3> SUFFICES ASSUME NEW i \in DOMAIN stands', stands'[i] # 0 PROVE stands'[i] \in DOMAIN ents'
      OBVIOUS
    <3>1. DOMAIN stands' = DOMAIN idents' /\ DOMAIN stands = DOMAIN idents
      <4>1. /\ stands' \in Seq(Nat) /\ Len(stands') = Len(idents')
            /\ stands \in Seq(Nat) /\ Len(stands) = Len(idents)
        BY <1>1 DEF MemberMade, MemberIs, CTablesOK
      <4> QED
        BY <1>1, <4>1, Domains DEF TablesOK
    <3>2. i \in DOMAIN idents
      BY <3>1 DEF MemberMade, MemberIs
    <3>3. stands'[i] = stands[i]
      BY <1>1, <3>2 DEF IdentsKept
    <3> QED
      BY <1>1, <1>7, <3>1, <3>2, <3>3 DEF RangesOK
  <2> QED
    BY <1>1, <1>7, <2>1 DEF RangesOK, InRange
<1>9. UsualOK'
  <2>1. UsualAt(scope, n)'
    <3>1. scopes'[scope].usual[n] = k /\ scopes'[scope].type = scopes[scope].type
      BY <1>1, <1>3 DEF MemberMade, MemberIs, SameChains
    <3>2. scopes[scope].type = "block"
      BY <1>1, <1>3 DEF KindsOK, ListScopes
    <3>3. scope' = scope
      BY DEF MemberMade, MemberIs
    <3>4. PICK r : r = scope
      OBVIOUS
    <3>5. UsualAt(r, n)'
      BY <3>1, <3>2, <3>4 DEF UsualAt, MemberMade, MemberIs
    <3> QED
      BY <3>3, <3>4, <3>5
  <2>2. \A r \in DOMAIN scopes', m \in Names :
          \/ r \in DOMAIN scopes /\ scopes'[r].usual[m] = scopes[r].usual[m]
          \/ UsualAt(r, m)'
    <3> SUFFICES ASSUME NEW r \in DOMAIN scopes, NEW m \in Names, scopes'[r].usual[m] # scopes[r].usual[m]
                 PROVE  UsualAt(r, m)'
      BY <1>4
    <3>1. r = scope /\ m = n
      BY DEF MemberMade, MemberIs
    <3>2. r = scope'
      BY <3>1 DEF MemberMade, MemberIs
    <3> QED
      BY <2>1, <3>1, <3>2
  <2> QED
    BY <1>1, <1>5, <2>2, UsualCarried
<1>10. TagTypesOK'
  <2>1. \A r \in DOMAIN scopes', x \in Tags : r \in DOMAIN scopes /\ scopes'[r].tags[x] = scopes[r].tags[x]
    BY <1>4 DEF MemberMade, MemberIs
  <2> QED
    BY <1>1, <1>5, <2>1, TagTypesCarried
<1>11. UnopenedOK'
  BY <1>1, <1>2, MemberUnopened
<1>12. PICK b, cs : b = Around /\ cs = cscopes
  OBVIOUS
<1>13. At(b, cs)
  BY <1>1, <1>12, AtAround
<1>14. NamesOK(b, cscopes)'
  <2>1. \A r \in DOMAIN scopes : r \notin ListScopes =>
          /\ scopes'[r].type = scopes[r].type
          /\ \A m \in Names : scopes'[r].usual[m] = scopes[r].usual[m]
    BY <1>1, <1>3 DEF MemberMade, MemberIs, SameChains
  <2>2. scopes'[b].chain = scopes[b].chain
    BY <1>1, <1>13 DEF At, SameChains
  <2>3. /\ Len(cscopes') = Len(cs) /\ DOMAIN cscopes' = DOMAIN cs
        /\ \A j \in DOMAIN cs, m \in Names : cscopes'[j].names[m] = cs[j].names[m]
    BY <1>7, <1>12
  <2> QED
    BY <1>1, <1>7, <1>13, <2>1, <2>2, <2>3, NamesKept
<1>15. TagsOK(b, cscopes)'
  <2>1. scopes'[b].chain = scopes[b].chain
    BY <1>1, <1>13 DEF At, SameChains
  <2>2. \A r \in DOMAIN scopes, x \in Tags : scopes'[r].tags[x] = scopes[r].tags[x]
    BY DEF MemberMade, MemberIs
  <2>3. \A r \in DOMAIN scopes' : r \in DOMAIN scopes \/ \A x \in Tags : scopes'[r].tags[x] = 0
    BY <1>4
  <2>4. \A j \in 1 .. Lists : \E m \in 1 .. Lists' : ScopeAt(m)' = ScopeAt(j)
    <3>1. Lists \in Nat
      BY <1>1, InList
    <3>2. \A j \in 1 .. Lists : j \in 1 .. Lists + 1
      BY <3>1
    <3> QED
      BY <1>2, <3>2
  <2> QED
    BY <1>1, <1>5, <1>7, <1>12, <2>1, <2>2, <2>3, <2>4, TagsAsTheyWere
<1>16. NamesOK(Around, cscopes)' /\ TagsOK(Around, cscopes)'
  <2>1. b = Around'
    BY <1>2, <1>12
  <2> QED
    BY <1>14, <1>15, <2>1, NamesMoved
<1>17. LinkedOK'
  BY <1>7 DEF Coupled, LinkedOK, LinkedAt, FileEntry
<1>18. StandsOK'
  <2>1. StandOK(k)'
    BY DEF MemberMade, MemberIs, StandOK, LinkageOf
  <2>2. \A i \in DOMAIN idents' : i \in DOMAIN idents \/ StandOK(i)'
    BY <2>1 DEF MemberMade, MemberIs
  <2> QED
    BY <1>1, <1>7, <2>2, StandsKept
<1>19. StructsOK'
  <2>1. \A i \in DOMAIN idents' :
          i \in DOMAIN idents \/ idents'[i].kind # "tag" \/ idents'[i].ty.k # "struct"
    BY DEF MemberMade, MemberIs
  <2> QED
    BY <1>1, <1>5, <2>1, StructsCarried
<1>20. ParamsOK'
  BY DEF ParamsOK, MemberMade, MemberIs
<1> QED
  BY <1>2, <1>4, <1>6, <1>8, <1>9, <1>10, <1>11, <1>16, <1>17, <1>18, <1>19, <1>20 DEF Coupled

\* A member: kcc finds the name in the list if C does.
LEMMA AddMemberHeld ==
  ASSUME SInv, SInv', Coupled, NEW n \in Names, AddMember(n), known' = {}
  PROVE  Held'
<1>1. TablesOK /\ StackOK
  BY DEF SInv
<1>2. verdict = "ok" /\ cverdict = "ok" /\ (cverdict' = "ok" => NewStand)
  BY OfBoth DEF AddMember
<1>3. Member(n) /\ CMember(n) /\ In("struct")
  BY DEF AddMember, Member
<1>4. PICK i : i = scopes[scope].usual[n]
  OBVIOUS
<1>5. (n \in members[1].names) = (i # 0) /\ scope \in ListScopes /\ scope \in DOMAIN scopes
  BY <1>1, <1>3, <1>4, InList DEF OpenList
<1>6. i # 0 => IsObject(i)
  BY <1>4, <1>5 DEF Coupled, UsualOK, UsualAt, IsObject
<1>7. CASE i # 0
  BY <1>3, <1>4, <1>5, <1>6, <1>7 DEF Member, CMember, FindUsualInCurrScope, Stop, Breaks, Held
<1>8. CASE i = 0
  <2>1. /\ idents' = Append(idents, Ident("object", n, IntType, "none", "", scope))
        /\ scopes' = InsertUsual(scope, n, NewIdent)
        /\ last'.act = "member" /\ verdict' = verdict /\ UNCHANGED <<scope, types, open>>
    <3>1. /\ idents' = Append(idents, Ident("object", n, IntType, "none", "", scope))
          /\ scopes' = InsertUsual(scope, n, NewIdent) /\ Denotes("member", NewIdent)
          /\ UNCHANGED <<scope, types, open>>
      <4> HIDE DEF IntType
      <4> QED
        BY <1>3, <1>4, <1>8 DEF Member, FindUsualInCurrScope
    <3> QED
      BY <3>1 DEF Denotes
  <2>2. /\ members' = [members EXCEPT ![1].names = @ \cup {n}]
        /\ meant' = <<0>> /\ UNCHANGED <<cscopes, ents, params, cverdict>>
    BY <1>3, <1>5, <1>8 DEF CMember
  <2>3. NewStand /\ MemberAdded(n)
    BY <1>2, <2>1, <2>2 DEF MemberAdded
  <2>4. PICK k : k = Len(idents) + 1
    OBVIOUS
  <2>5. MemberMade(n, k)
    <3>1. MemberIs(n, k)
      BY <1>1, <1>5, <2>3, <2>4, MemberIdent
    <3>2. UNCHANGED <<scope, types, open, cscopes, ents, params>> /\ last'.act # "declare"
      BY <2>1, <2>2
    <3> QED
      BY <3>1, <3>2 DEF MemberMade
  <2>6. Coupled'
    BY <1>3, <2>2, <2>5, MemberCoupled DEF ListAdds
  <2> QED
    BY <1>2, <2>1, <2>2, <2>6 DEF Held
<1> QED
  BY <1>7, <1>8

---------------------------------------------------------------------------
(* Member lists that end.                                                *)

\* The innermost member list ends, of the type y and the entity e.
TagsLeft(back) ==
  /\ Len(scopes') = Len(scopes)
  /\ \A r \in DOMAIN scopes :
       /\ scopes'[r].type = scopes[r].type /\ scopes'[r].chain = scopes[r].chain
       /\ \A n \in Names : scopes'[r].usual[n] = scopes[r].usual[n]
       /\ \A x \in Tags :
            scopes'[r].tags[x] = IF r = back /\ scopes[scope].tags[x] # 0 THEN scopes[scope].tags[x]
                                 ELSE scopes[r].tags[x]

TypeDone(y) ==
  /\ Len(types') = Len(types)
  /\ \A z \in DOMAIN types : /\ types'[z].scope = types[z].scope
                             /\ types'[z].complete = IF z = y THEN TRUE ELSE types[z].complete

EntDone(e) ==
  /\ ents' \in Seq(EntityType) /\ DOMAIN ents' = DOMAIN ents
  /\ \A x \in DOMAIN ents :
       /\ ents'[x].kind = ents[x].kind /\ ents'[x].name = ents[x].name
       /\ ents'[x].linkage = ents[x].linkage /\ ents'[x].ty = ents[x].ty
       /\ ents'[x].def = IF x = e THEN "yes" ELSE ents[x].def

\* That is what the step does.
LEMMA LeftTags ==
  ASSUME TablesOK, NEW back \in DOMAIN scopes, scope \in DOMAIN scopes,
         LET tags == scopes[scope].tags
         IN  scopes' = [scopes EXCEPT
               ![back].tags = [t \in Tags |-> IF tags[t] # 0 THEN tags[t] ELSE @[t]]]
  PROVE  TagsLeft(back)
<1>1. scopes \in Seq(ScopeType) /\ scopes[back] \in ScopeType /\ scopes[scope] \in ScopeType
  BY DEF TablesOK
<1> DEFINE w == [t \in Tags |-> IF scopes[scope].tags[t] # 0 THEN scopes[scope].tags[t]
                                ELSE scopes[back].tags[t]]
           c == [scopes[back] EXCEPT !.tags = w]
<1>2. w \in [Tags -> Nat]
  BY <1>1 DEF ScopeType
<1>3. \A x \in Tags : w[x] = IF scopes[scope].tags[x] # 0 THEN scopes[scope].tags[x]
                             ELSE scopes[back].tags[x]
  OBVIOUS
<1>4. scopes' = [scopes EXCEPT ![back] = c]
  OBVIOUS
<1> HIDE DEF w
<1>5. /\ c \in ScopeType /\ c.type = scopes[back].type /\ c.chain = scopes[back].chain
      /\ c.usual = scopes[back].usual /\ c.tags = w
  BY <1>1, <1>2 DEF ScopeType
<1> HIDE DEF c
<1>6. PICK S, v : S = ScopeType /\ v = scopes'
  OBVIOUS
<1>7. /\ Len(v) = Len(scopes)
      /\ \A r \in DOMAIN scopes : v[r] = IF r = back THEN c ELSE scopes[r]
  <2>1. scopes \in Seq(S) /\ back \in DOMAIN scopes /\ c \in S
    BY <1>1, <1>5, <1>6
  <2>2. v = [scopes EXCEPT ![back] = c]
    BY <1>4, <1>6
  <2> QED
    BY <2>1, <2>2, Replaced
<1>8. \A r \in DOMAIN scopes : r # back => scopes'[r] = scopes[r]
  BY <1>6, <1>7
<1>9. scopes'[back] = c
  BY <1>6, <1>7
<1> QED
  BY <1>3, <1>5, <1>6, <1>7, <1>8, <1>9 DEF TagsLeft

LEMMA DoneType ==
  ASSUME TablesOK, NEW y \in DOMAIN types, types' = [types EXCEPT ![y].complete = TRUE]
  PROVE  TypeDone(y)
<1>1. PICK S : S = [scope : DOMAIN scopes, complete : BOOLEAN]
  OBVIOUS
<1>2. types \in Seq(S)
  BY <1>1 DEF TablesOK
<1>3. types[y] \in S
  BY <1>2
<1> DEFINE c == [types[y] EXCEPT !.complete = TRUE]
<1>4. c \in S /\ c.scope = types[y].scope /\ c.complete = TRUE
  BY <1>1, <1>3
<1>5. types' = [types EXCEPT ![y] = c]
  OBVIOUS
<1> HIDE DEF c
<1>6. PICK v : v = types'
  OBVIOUS
<1>7. /\ Len(v) = Len(types) /\ \A r \in DOMAIN types : v[r] = IF r = y THEN c ELSE types[r]
  <2>1. v = [types EXCEPT ![y] = c]
    BY <1>5, <1>6
  <2> QED
    BY <1>2, <1>4, <2>1, Replaced
<1> QED
  BY <1>4, <1>6, <1>7 DEF TypeDone

LEMMA DoneEnt ==
  ASSUME ents \in Seq(EntityType), NEW e \in DOMAIN ents, ents' = [ents EXCEPT ![e].def = "yes"]
  PROVE  EntDone(e)
<1>1. ents[e] \in EntityType
  <2>1. PICK S : S = EntityType
    OBVIOUS
  <2>2. ents \in Seq(S)
    BY <2>1
  <2> QED
    BY <2>1, <2>2
<1> DEFINE c == [ents[e] EXCEPT !.def = "yes"]
<1>2. /\ c \in EntityType /\ c.kind = ents[e].kind /\ c.name = ents[e].name
      /\ c.linkage = ents[e].linkage /\ c.ty = ents[e].ty /\ c.def = "yes"
  BY <1>1 DEF EntityType
<1>3. ents' = [ents EXCEPT ![e] = c]
  OBVIOUS
<1> HIDE DEF c, EntityType
<1>4. PICK S, v : S = EntityType /\ v = ents'
  OBVIOUS
<1>5. /\ v \in Seq(S) /\ DOMAIN v = DOMAIN ents
      /\ \A r \in DOMAIN ents : v[r] = IF r = e THEN c ELSE ents[r]
  <2>1. v = [ents EXCEPT ![e] = c] /\ ents \in Seq(S) /\ c \in S
    BY <1>2, <1>3, <1>4
  <2> QED
    BY <2>1, Replaced
<1> QED
  BY <1>2, <1>4, <1>5 DEF EntDone

\* One open list less.
LEMMA OneLess ==
  ASSUME NEW S, NEW q \in Seq(S), q # <<>>, NEW new, new = Tail(q)
  PROVE  /\ Len(q) \in Nat /\ Len(q) >= 1 /\ Len(new) = Len(q) - 1 /\ new \in Seq(S)
         /\ DOMAIN new = 1 .. Len(q) - 1 /\ DOMAIN q = 1 .. Len(q)
         /\ \A j \in 1 .. Len(q) - 1 : new[j] = q[j + 1] /\ j + 1 \in 1 .. Len(q)
OBVIOUS

\* The stack with one list less open.
LEMMA StackLess ==
  ASSUME TablesOK, StackOK, Coupled, In("struct"),
         scope' = open[1].back, open' = Tail(open), members' = Tail(members), NEW L, L = Lists - 1
  PROVE  /\ L \in Nat /\ Lists = L + 1 /\ Lists' = L /\ L <= Len(open')
         /\ \A k \in 1 .. L : open'[k] = open[k + 1] /\ members'[k] = members[k + 1]
         /\ \A j \in 1 .. L + 1 : ScopeAt(j)' = ScopeAt(j + 1)
         /\ Around' = Around
         /\ \A k \in DOMAIN open' :
              /\ (open'[k].what = "struct") = (k <= L)
              /\ open'[k].what = "proto" => Kind(open'[k].decl) = "func" /\ ~open'[k].decl.init
         /\ members' \in Seq([ent : Nat, names : SUBSET Names])
<1>1. /\ OpenListsOK /\ CTablesOK /\ open \in Seq(OpenType)
      /\ Lists \in Nat /\ Lists >= 1 /\ open # <<>>
  BY InList DEF Coupled, StackOK, In
<1>2. /\ Lists <= Len(open)
      /\ \A k \in DOMAIN open :
           /\ (open[k].what = "struct") = (k <= Lists)
           /\ open[k].what = "proto" => Kind(open[k].decl) = "func" /\ ~open[k].decl.init
  BY <1>1 DEF OpenListsOK
<1>3. PICK v : v = open'
  OBVIOUS
<1>4. /\ Len(open) \in Nat /\ Len(open) >= 1 /\ Len(v) = Len(open) - 1
      /\ DOMAIN v = 1 .. Len(open) - 1 /\ DOMAIN open = 1 .. Len(open)
      /\ \A j \in 1 .. Len(open) - 1 : v[j] = open[j + 1] /\ j + 1 \in 1 .. Len(open)
  <2>1. PICK S : S = OpenType
    OBVIOUS
  <2>2. open \in Seq(S) /\ open # <<>> /\ v = Tail(open)
    BY <1>1, <1>3, <2>1
  <2> QED
    BY <2>2, OneLess
<1>5. PICK w : w = members'
  OBVIOUS
<1>6. /\ Len(w) = Len(members) - 1 /\ w \in Seq([ent : Nat, names : SUBSET Names])
      /\ \A j \in 1 .. Len(members) - 1 : w[j] = members[j + 1]
  <2>1. PICK S : S = [ent : Nat, names : SUBSET Names]
    OBVIOUS
  <2>2. members \in Seq(S) /\ w = Tail(members) /\ members # <<>>
    BY <1>1, <1>5, <2>1 DEF CTablesOK, Lists
  <2> QED
    BY <2>1, <2>2, OneLess
<1>7. Lists' = L /\ L \in Nat /\ Lists = L + 1 /\ L <= Len(v) /\ Lists = Len(members)
  BY <1>1, <1>2, <1>4, <1>5, <1>6 DEF Lists
<1>8. \A k \in 1 .. L : v[k] = open[k + 1] /\ w[k] = members[k + 1]
  BY <1>1, <1>2, <1>4, <1>6, <1>7
<1>9. ASSUME NEW j \in 1 .. L + 1 PROVE ScopeAt(j)' = ScopeAt(j + 1)
  <2>1. ScopeAt(j + 1) = open[j].back
    <3>1. j + 1 # 1 /\ (j + 1) - 1 = j
      BY <1>7
    <3> QED
      BY <3>1 DEF ScopeAt
  <2>2. CASE j = 1
    BY <2>1, <2>2 DEF ScopeAt
  <2>3. CASE j # 1
    <3>1. ScopeAt(j)' = v[j - 1].back
      BY <1>3, <2>3 DEF ScopeAt
    <3>2. j - 1 \in 1 .. L /\ (j - 1) + 1 = j
      BY <1>7, <2>3
    <3>3. v[j - 1] = open[j]
      BY <1>8, <3>2
    <3> QED
      BY <2>1, <3>1, <3>3
  <2> QED
    BY <2>2, <2>3
<1>10. Around' = Around
  <2>1. PICK j : j = L + 1
    OBVIOUS
  <2>2. Around' = ScopeAt(j)' /\ Around = ScopeAt(j + 1) /\ j \in 1 .. L + 1
    BY <1>7, <2>1 DEF Around
  <2> QED
    BY <1>9, <2>2
<1>11. \A k \in DOMAIN v :
         /\ (v[k].what = "struct") = (k <= L)
         /\ v[k].what = "proto" => Kind(v[k].decl) = "func" /\ ~v[k].decl.init
  <2> TAKE k \in DOMAIN v
  <2>1. v[k] = open[k + 1] /\ k + 1 \in DOMAIN open /\ (k + 1 <= Lists) = (k <= L)
    BY <1>4, <1>7
  <2> QED
    BY <1>2, <2>1
<1> QED
  BY <1>3, <1>5, <1>6, <1>7, <1>8, <1>9, <1>10, <1>11

\* All that is done where the innermost member list ends.
Ended(back, y, e) ==
  /\ TagsLeft(back) /\ TypeDone(y) /\ EntDone(e)
  /\ back = open[1].back /\ y = open[1].type /\ e = members[1].ent
  /\ scope' = open[1].back /\ open' = Tail(open) /\ members' = Tail(members)
  /\ UNCHANGED <<idents, cscopes, params>> /\ stands' = stands /\ last'.act = "exit"

\* What stays as it was.
LEMMA EndedTables ==
  ASSUME SInv, SInv', Coupled, In("struct"), NEW back, NEW y, NEW e, Ended(back, y, e)
  PROVE  /\ SameChains /\ IdentsKept /\ EntsCarried
         /\ Within' = Within /\ ListScopes' = ListScopes /\ DOMAIN scopes' = DOMAIN scopes
         /\ DOMAIN types' = DOMAIN types /\ DOMAIN ents' = DOMAIN ents
<1>1. TablesOK /\ TablesOK' /\ TagsLeft(back) /\ TypeDone(y) /\ EntDone(e)
  BY DEF SInv, Ended
<1>2. SameChains
  BY <1>1 DEF SameChains, TagsLeft, TypeDone
<1>3. IdentsKept
  BY DEF IdentsKept, Ended
<1>4. EntsCarried /\ DOMAIN ents' = DOMAIN ents
  <2> HIDE DEF EntityType
  <2> QED
    BY <1>1 DEF EntsCarried, EntDone
<1> QED
  BY <1>1, <1>2, <1>3, <1>4, SameLists

\* The list that ends, and the scope around it.
LEMMA EndedList ==
  ASSUME SInv, Coupled, In("struct"), NEW back, back = open[1].back
  PROVE  /\ back = ScopeAt(2) /\ back \in DOMAIN scopes /\ back # scope /\ back \in Within[scope]
         /\ \A t \in Tags : scopes[scope].tags[t] = 0 \/ scopes[back].tags[t] = 0
         /\ 2 \in 1 .. Lists + 1
<1>1. TablesOK /\ StackOK /\ CTablesOK /\ OpenListsOK
  BY DEF SInv, Coupled
<1>2. Lists \in Nat /\ Lists >= 1 /\ scope = ScopeAt(1) /\ OpenList(1)
  BY <1>1, InList
<1>3. back = ScopeAt(2)
  BY DEF ScopeAt
<1>4. 2 \in 1 .. Lists + 1 /\ 2 \in 1 + 1 .. Lists + 1
  BY <1>2
<1>5. back \in DOMAIN scopes
  BY <1>1, <1>3, <1>4, ListsAround
<1>6. back # scope /\ \A t \in Tags : scopes[scope].tags[t] = 0 \/ scopes[back].tags[t] = 0
  BY <1>2, <1>3, <1>4 DEF OpenList
<1>7. back \in Within[scope]
  BY <1>2, <1>3, <1>4 DEF OpenList
<1> QED
  BY <1>3, <1>4, <1>5, <1>6, <1>7

\* The scopes of at2 are those of at behind its first.
Fewer(at, at2, M) == \A j \in 1 .. M : at2[j] = at[j + 1]

\* What that says of a list and those inside and around it.
LEMMA ShiftsBack ==
  ASSUME NEW L \in Nat, NEW m \in 1 .. L, NEW M, M = L + 1, NEW N, N = L + 2, NEW p, p = m + 1,
         NEW at, NEW at2, Fewer(at, at2, M)
  PROVE  /\ p \in 1 .. L + 1 /\ at2[m] = at[p] /\ 2 \in 1 .. L + 1
         /\ \A j \in 1 .. m : \E i \in 1 .. p : at2[j] = at[i]
         /\ 1 \in 1 .. p
         /\ \A j \in m .. M : \E i \in p .. N : at2[j] = at[i]
         /\ \A j \in m + 1 .. M : \E i \in p + 1 .. N : at2[j] = at[i] /\ i \in 2 + 1 .. N /\ i \in 1 + 1 .. N
<1>1. m \in 1 .. M /\ m \in Nat /\ p \in 1 .. L + 1 /\ 2 \in 1 .. L + 1 /\ 1 \in 1 .. p
  OBVIOUS
<1>2. at2[m] = at[p]
  BY <1>1 DEF Fewer
<1>3. ASSUME NEW j \in 1 .. m PROVE \E i \in 1 .. p : at2[j] = at[i]
  <2>1. j \in 1 .. M /\ j + 1 \in 1 .. p
    OBVIOUS
  <2> QED
    BY <2>1 DEF Fewer
<1>4. ASSUME NEW j \in m .. M PROVE \E i \in p .. N : at2[j] = at[i]
  <2>1. j \in 1 .. M /\ j + 1 \in p .. N
    OBVIOUS
  <2> QED
    BY <2>1 DEF Fewer
<1>5. ASSUME NEW j \in m + 1 .. M
      PROVE  \E i \in p + 1 .. N : at2[j] = at[i] /\ i \in 2 + 1 .. N /\ i \in 1 + 1 .. N
  <2>1. /\ j \in 1 .. M /\ j + 1 \in p + 1 .. N
        /\ j + 1 \in 2 + 1 .. N /\ j + 1 \in 1 + 1 .. N
    OBVIOUS
  <2> QED
    BY <2>1 DEF Fewer
<1> QED
  BY <1>1, <1>2, <1>3, <1>4, <1>5

\* The lists that stay open are what they were.
LEMMA EndedListAt ==
  ASSUME SInv, SInv', Coupled, In("struct"), NEW back, NEW y, NEW f, Ended(back, y, f),
         NEW L \in Nat, Lists = L + 1, NEW N, N = L + 2, NEW at, StackIs(at, N),
         NEW M, M = L + 1, NEW at2, Fewer(at, at2, M), NEW m \in 1 .. L, NEW p, p = m + 1,
         NEW z, z = open[p].type, NEW e, e = members[p].ent, NEW ns, ns = members[p].names
  PROVE  ListAt(at2, M, m, z, e, ns)'
<1>1. /\ TablesOK /\ TablesOK' /\ StackOK /\ CTablesOK /\ OpenListsOK
      /\ TagsLeft(back) /\ TypeDone(y) /\ EntDone(f) /\ idents' = idents /\ stands' = stands
  BY DEF SInv, Coupled, Ended
<1>2. /\ p \in 1 .. L + 1 /\ at2[m] = at[p] /\ 2 \in 1 .. L + 1
      /\ \A j \in 1 .. m : \E i \in 1 .. p : at2[j] = at[i]
      /\ 1 \in 1 .. p
      /\ \A j \in m .. M : \E i \in p .. N : at2[j] = at[i]
      /\ \A j \in m + 1 .. M : \E i \in p + 1 .. N : at2[j] = at[i] /\ i \in 2 + 1 .. N /\ i \in 1 + 1 .. N
  BY ShiftsBack
<1>3. /\ \A j \in 1 .. N : at[j] = ScopeAt(j) /\ at[j] \in DOMAIN scopes
      /\ 1 \in 1 .. Lists /\ 2 \in 1 .. N /\ 1 \in 1 .. N /\ N = Lists + 1
      /\ at[1] = scope /\ at[2] = back
  <2>1. \A j \in 1 .. Lists + 1 : ScopeAt(j) \in DOMAIN scopes
    BY <1>1, ListsAround
  <2>2. scope = ScopeAt(1) /\ back = ScopeAt(2) /\ 1 \in 1 .. Lists
    BY <1>1, InList, EndedList DEF Ended
  <2>3. N = Lists + 1 /\ 1 \in 1 .. N /\ 2 \in 1 .. N
    OBVIOUS
  <2> QED
    BY <2>1, <2>2, <2>3 DEF StackIs
<1>4. ListAt(at, N, p, z, e, ns)
  BY <1>1, <1>2, <1>3, ListsAt
<1>5. PICK z1, e1, ns1 : ListAt(at, N, 1, z1, e1, ns1)
  BY <1>1, <1>3, ListsAt
<1>6. PICK z2, e2, ns2 : ListAt(at, N, 2, z2, e2, ns2)
  <2>1. 2 \in 1 .. Lists
    BY <1>2
  <2> QED
    BY <1>1, <1>3, <2>1, ListsAt
<1>7. Within' = Within /\ DOMAIN ents' = DOMAIN ents /\ EntsCarried
  BY EndedTables
<1>8. \A j \in 1 .. m : at2[j] \in DOMAIN scopes
  <2> TAKE j \in 1 .. m
  <2>1. PICK i \in 1 .. p : at2[j] = at[i]
    BY <1>2
  <2>2. i \in 1 .. N
    BY <1>2, <2>1
  <2> QED
    BY <1>3, <2>1, <2>2
<1>9. at[p] \in DOMAIN scopes
  BY <1>2, <1>3
<1>10. at2[m] = types'[z].scope
  <2>1. z \in DOMAIN types
    BY <1>1, <1>2, OpenTypes
  <2> QED
    BY <1>1, <1>2, <1>4, <2>1 DEF ListAt, TypeDone
<1>11. e \in DOMAIN ents' /\ ents'[e].kind = "struct"
  BY <1>4, <1>7 DEF ListAt, EntsCarried
<1>12. \A n \in Names : (n \in ns) = (scopes'[at2[m]].usual[n] # 0)
  <2>1. \A n \in Names : scopes'[at[p]].usual[n] = scopes[at[p]].usual[n]
    BY <1>1, <1>9 DEF TagsLeft
  <2>2. \A n \in Names : (n \in ns) = (scopes[at[p]].usual[n] # 0)
    BY <1>4 DEF ListAt
  <2> QED
    BY <1>2, <2>1, <2>2
<1>13. \A i \in DOMAIN idents' : IsStructTag(i)' => (TypeOf(i)' = z) = (stands'[i] = e)
  BY <1>1, <1>4 DEF ListAt, IsStructTag, TypeOf
<1>14. ASSUME NEW j \in 1 .. m, NEW x \in Tags, IsStructTag(scopes[at2[j]].tags[x])'
       PROVE  TypeOf(scopes[at2[j]].tags[x])' # z
  <2>1. PICK i \in 1 .. p : at2[j] = at[i]
    BY <1>2
  <2>2. scopes'[at2[j]].tags[x] \in {scopes[at[i]].tags[x], scopes[at[1]].tags[x]}
    <3>1. PICK r : r = at2[j]
      OBVIOUS
    <3>2. r \in DOMAIN scopes /\ r = at[i] /\ scope = at[1]
      BY <1>3, <1>8, <2>1, <3>1
    <3>3. scopes'[r].tags[x] \in {scopes[r].tags[x], scopes[scope].tags[x]}
      BY <1>1, <3>2 DEF TagsLeft
    <3> QED
      BY <3>1, <3>2, <3>3
  <2>3. PICK k : k = scopes'[at2[j]].tags[x]
    OBVIOUS
  <2>4. IsStructTag(k)
    BY <1>1, <1>14, <2>3 DEF IsStructTag
  <2>5. TypeOf(k) # z
    <3>1. \A h \in 1 .. p, t \in Tags :
            IsStructTag(scopes[at[h]].tags[t]) => TypeOf(scopes[at[h]].tags[t]) # z
      BY <1>4 DEF ListAt
    <3>2. k = scopes[at[i]].tags[x] \/ k = scopes[at[1]].tags[x]
      BY <2>2, <2>3
    <3>3. 1 \in 1 .. p
      BY <1>2
    <3> QED
      BY <2>4, <3>1, <3>2, <3>3
  <2> QED
    BY <1>1, <2>3, <2>5 DEF TypeOf
<1>15. \A j \in m .. M : at2[j] \in Within'[at2[m]]
  <2>1. \A i \in p .. N : at[i] \in Within[at[p]]
    BY <1>4 DEF ListAt
  <2> QED
    BY <1>2, <1>7, <2>1
<1>16. ASSUME NEW j \in m + 1 .. M
       PROVE  /\ at2[j] # at2[m]
              /\ \A x \in Tags : scopes'[at2[m]].tags[x] = 0 \/ scopes'[at2[j]].tags[x] = 0
  <2>1. PICK i \in p + 1 .. N : at2[j] = at[i] /\ i \in 2 + 1 .. N /\ i \in 1 + 1 .. N
    BY <1>2
  <2>2. at[i] # at[p] /\ \A x \in Tags : scopes[at[p]].tags[x] = 0 \/ scopes[at[i]].tags[x] = 0
    BY <1>4, <2>1 DEF ListAt
  <2>3. \A x \in Tags : scopes[at[1]].tags[x] = 0 \/ scopes[at[i]].tags[x] = 0
    BY <1>5, <2>1 DEF ListAt
  <2>4. at[i] # back
    BY <1>3, <1>6, <2>1 DEF ListAt
  <2>5. i \in 1 .. N
    BY <2>1
  <2>6. \A x \in Tags : scopes'[at[i]].tags[x] = scopes[at[i]].tags[x]
    BY <1>1, <1>3, <2>4, <2>5 DEF TagsLeft
  <2>7. \A x \in Tags : scopes'[at[p]].tags[x] \in {scopes[at[p]].tags[x], scopes[at[1]].tags[x]}
    BY <1>1, <1>3, <1>9 DEF TagsLeft
  <2> QED
    BY <1>2, <2>1, <2>2, <2>3, <2>6, <2>7
<1> QED
  BY <1>10, <1>11, <1>12, <1>13, <1>14, <1>15, <1>16 DEF ListAt

LEMMA EndedStack ==
  ASSUME SInv, SInv', Coupled, In("struct"), NEW back, NEW y, NEW f, Ended(back, y, f),
         NEW L, L = Lists - 1
  PROVE  /\ L \in Nat /\ Lists = L + 1 /\ Lists' = L /\ L <= Len(open')
         /\ \A k \in 1 .. L : open'[k] = open[k + 1] /\ members'[k] = members[k + 1]
         /\ \A j \in 1 .. L + 1 : ScopeAt(j)' = ScopeAt(j + 1)
         /\ Around' = Around
         /\ \A k \in DOMAIN open' :
              /\ (open'[k].what = "struct") = (k <= L)
              /\ open'[k].what = "proto" => Kind(open'[k].decl) = "func" /\ ~open'[k].decl.init
         /\ members' \in Seq([ent : Nat, names : SUBSET Names])
<1>1. TablesOK /\ StackOK
  BY DEF SInv
<1>2. scope' = open[1].back /\ open' = Tail(open) /\ members' = Tail(members)
  BY DEF Ended
<1> QED
  BY <1>1, <1>2, StackLess

LEMMA EndedLists ==
  ASSUME SInv, SInv', Coupled, In("struct"), NEW back, NEW y, NEW f, Ended(back, y, f)
  PROVE  OpenListsOK'
<1>1. PICK L : L = Lists - 1
  OBVIOUS
<1>2. /\ L \in Nat /\ Lists = L + 1 /\ Lists' = L /\ L <= Len(open')
      /\ \A k \in 1 .. L : open'[k] = open[k + 1] /\ members'[k] = members[k + 1]
      /\ \A j \in 1 .. L + 1 : ScopeAt(j)' = ScopeAt(j + 1)
      /\ Around' = Around
      /\ \A k \in DOMAIN open' :
           /\ (open'[k].what = "struct") = (k <= L)
           /\ open'[k].what = "proto" => Kind(open'[k].decl) = "func" /\ ~open'[k].decl.init
  BY <1>1, EndedStack
<1>3. Around' \notin ListScopes'
  <2>1. ListScopes' = ListScopes
    BY EndedTables
  <2>2. OpenListsOK
    BY DEF Coupled
  <2> QED
    BY <1>2, <2>1, <2>2 DEF OpenListsOK
<1>4. PICK N, M : N = L + 2 /\ M = L + 1
  OBVIOUS
<1>5. PICK at : at = [j \in 1 .. N |-> ScopeAt(j)]
  OBVIOUS
<1>6. PICK at2 : at2 = [j \in 1 .. M |-> at[j + 1]]
  OBVIOUS
<1>7. StackIs(at, N) /\ Fewer(at, at2, M)
  BY <1>5, <1>6 DEF StackIs, Fewer
<1>8. StackIs(at2, M)'
  <2>1. ASSUME NEW j \in 1 .. M PROVE at2[j] = ScopeAt(j)'
    <3>1. j + 1 \in 1 .. N
      BY <1>2, <1>4
    <3>2. at2[j] = ScopeAt(j + 1)
      BY <1>6, <1>7, <3>1 DEF StackIs
    <3> QED
      BY <1>2, <1>4, <3>2
  <2> QED
    BY <2>1 DEF StackIs
<1>9. ASSUME NEW m \in 1 .. L PROVE OpenList(m)'
  <2>1. PICK p : p = m + 1
    OBVIOUS
  <2>2. PICK z, e, ns : z = open[p].type /\ e = members[p].ent /\ ns = members[p].names
    OBVIOUS
  <2>3. ListAt(at2, M, m, z, e, ns)'
    BY <1>2, <1>4, <1>7, <2>1, <2>2, EndedListAt
  <2>4. z = open'[m].type /\ e = members'[m].ent /\ ns = members'[m].names
    BY <1>2, <2>1, <2>2
  <2>5. L = Lists' /\ M = L + 1 /\ L \in Nat
    BY <1>2, <1>4
  <2> QED
    BY <1>8, <2>3, <2>4, <2>5, AtLists
<1> QED
  BY <1>2, <1>3, <1>9 DEF OpenListsOK

\* A list that is not open is not the one the tags go to.
LEMMA EndedUnopened ==
  ASSUME SInv, SInv', Coupled, In("struct"), NEW back, NEW y, NEW f, Ended(back, y, f)
  PROVE  UnopenedOK'
<1>1. /\ TablesOK /\ StackOK /\ OpenListsOK /\ UnopenedOK /\ ChainsOK
      /\ TagsLeft(back) /\ TypeDone(y) /\ y = open[1].type /\ back = open[1].back
  BY DEF SInv, Coupled, Ended
<1> SUFFICES ASSUME NEW z \in DOMAIN types, Unopened(z)' PROVE EmptyList(z)'
  BY EndedTables DEF UnopenedOK
<1>2. z # y /\ ~types[z].complete /\ types'[z].scope = types[z].scope
  BY <1>1 DEF Unopened, TypeDone
<1>3. PICK L : L = Lists - 1
  OBVIOUS
<1>4. /\ L \in Nat /\ Lists = L + 1 /\ Lists' = L
      /\ \A k \in 1 .. L : open'[k] = open[k + 1]
  BY <1>3, EndedStack
<1>5. Unopened(z)
  <2> SUFFICES ASSUME NEW k \in 1 .. Lists PROVE open[k].type # z
    BY <1>2 DEF Unopened
  <2>1. CASE k = 1
    BY <1>1, <1>2, <2>1
  <2>2. CASE k # 1
    <3>1. PICK j : j = k - 1
      OBVIOUS
    <3>2. j \in 1 .. L /\ j + 1 = k
      BY <1>4, <2>2, <3>1
    <3>3. open'[j] = open[k] /\ j \in 1 .. Lists'
      BY <1>4, <3>2
    <3> QED
      BY <3>3 DEF Unopened
  <2> QED
    BY <2>1, <2>2
<1>6. PICK r : r = types[z].scope
  OBVIOUS
<1>7. r \in DOMAIN scopes /\ r \in ListScopes
  <2>1. \A w \in DOMAIN types : types[w].scope \in DOMAIN scopes
    BY <1>1, Domains DEF TablesOK
  <2> QED
    BY <1>6, <2>1 DEF ListScopes
<1>8. EmptyList(z)
  BY <1>1, <1>5 DEF UnopenedOK
<1>9. r # back
  <2>1. back = ScopeAt(2)
    BY <1>1, EndedList
  <2>2. CASE L = 0
    BY <1>1, <1>4, <1>7, <2>1, <2>2 DEF Around, OpenListsOK
  <2>3. CASE L # 0
    <3>1. 2 \in 1 .. Lists
      BY <1>4, <2>3
    <3>2. OpenList(2) /\ open[2].type \in DOMAIN types /\ open[2].type # z
      BY <1>1, <1>4, <1>5, <3>1, OpenTypes DEF OpenListsOK, Unopened
    <3>3. back = types[open[2].type].scope
      BY <2>1, <3>2 DEF OpenList
    <3> QED
      BY <1>1, <1>6, <3>2, <3>3 DEF ChainsOK
  <2> QED
    BY <2>2, <2>3
<1>10. \A n \in Names : scopes'[r].usual[n] = 0
  BY <1>1, <1>6, <1>7, <1>8 DEF TagsLeft, EmptyList
<1>11. \A t \in Tags : scopes'[r].tags[t] = 0
  BY <1>1, <1>6, <1>7, <1>8, <1>9 DEF TagsLeft, EmptyList
<1> QED
  BY <1>2, <1>6, <1>10, <1>11 DEF EmptyList

\* The tags that go out are those of C there.
LEMMA EndedTags ==
  ASSUME SInv, SInv', Coupled, In("struct"), NEW back, NEW y, NEW f, Ended(back, y, f),
         NEW b, b = Around
  PROVE  TagsOK(b, cscopes)'
<1>1. /\ TablesOK /\ StackOK /\ ChainsOK /\ TagsLeft(back) /\ back = open[1].back
      /\ cscopes' = cscopes /\ stands' = stands
      /\ Within' = Within /\ DOMAIN scopes' = DOMAIN scopes
  BY EndedTables DEF SInv, Coupled, Ended
<1>2. At(b, cscopes)
  BY <1>1, AtAround
<1>3. PICK c : c = scopes[b].chain
  OBVIOUS
<1>4. /\ scopes'[b].chain = c /\ DOMAIN c = DOMAIN cscopes /\ c[1] = b
      /\ \A j \in DOMAIN cscopes : c[j] \in DOMAIN scopes
  BY <1>1, <1>2, <1>3, AtDomains DEF At, TagsLeft
<1>5. back = ScopeAt(2) /\ back \in DOMAIN scopes /\ back \in Within[scope] /\ scope \in DOMAIN scopes
  BY <1>1, EndedList DEF StackOK
<1>6. PICK L : L = Lists - 1
  OBVIOUS
<1>7. /\ L \in Nat /\ Lists = L + 1 /\ Lists' = L /\ Around' = Around
      /\ \A j \in 1 .. L + 1 : ScopeAt(j)' = ScopeAt(j + 1)
      /\ \A j \in 1 .. Lists + 1 : ScopeAt(j) \in DOMAIN scopes
      /\ scope = ScopeAt(1)
  BY <1>1, <1>6, EndedStack, ListsAround DEF Coupled
<1>8. TagsOK(b, cscopes)
  BY <1>2 DEF At
<1> SUFFICES ASSUME NEW j \in DOMAIN cscopes, NEW t \in Tags
             PROVE  /\ \A r \in DOMAIN scopes :
                         c[j] \in Within[r] /\ scopes'[r].tags[t] # 0 =>
                           stands[scopes'[r].tags[t]] = cscopes[j].tags[t]
                    /\ cscopes[j].tags[t] # 0 =>
                         \/ scopes'[c[j]].tags[t] # 0
                         \/ j = 1 /\ \E k \in 1 .. Lists' : scopes'[ScopeAt(k)'].tags[t] # 0
  BY <1>1, <1>4 DEF TagsOK
<1>9. \A r \in DOMAIN scopes : scopes[r].tags[t] # 0 => scopes'[r].tags[t] # 0
  BY <1>1 DEF TagsLeft
<1>10. ASSUME NEW r \in DOMAIN scopes, c[j] \in Within[r], scopes'[r].tags[t] # 0
       PROVE  stands[scopes'[r].tags[t]] = cscopes[j].tags[t]
  <2>1. CASE r = back /\ scopes[scope].tags[t] # 0
    <3>1. c[j] \in Within[scope]
      BY <1>1, <1>5, <1>10, <2>1, InsideTrans
    <3>2. scopes'[r].tags[t] = scopes[scope].tags[t]
      BY <1>1, <2>1 DEF TagsLeft
    <3> QED
      BY <1>3, <1>5, <1>8, <2>1, <3>1, <3>2 DEF TagsOK
  <2>2. CASE ~(r = back /\ scopes[scope].tags[t] # 0)
    <3>1. scopes'[r].tags[t] = scopes[r].tags[t]
      BY <1>1, <2>2 DEF TagsLeft
    <3> QED
      BY <1>3, <1>8, <1>10, <3>1 DEF TagsOK
  <2> QED
    BY <2>1, <2>2
<1>11. ASSUME cscopes[j].tags[t] # 0
       PROVE  \/ scopes'[c[j]].tags[t] # 0
              \/ j = 1 /\ \E k \in 1 .. Lists' : scopes'[ScopeAt(k)'].tags[t] # 0
  <2>1. CASE scopes[c[j]].tags[t] # 0
    BY <1>4, <1>9, <2>1
  <2>2. CASE scopes[c[j]].tags[t] = 0
    <3>1. j = 1
      BY <1>3, <1>8, <1>11, <2>2 DEF TagsOK
    <3>2. PICK k \in 1 .. Lists : scopes[ScopeAt(k)].tags[t] # 0
      BY <1>3, <1>8, <1>11, <2>2 DEF TagsOK
    <3>3. CASE k = 1
      <4>1. scopes'[back].tags[t] # 0
        BY <1>1, <1>5, <1>7, <3>2, <3>3 DEF TagsLeft
      <4>2. CASE L = 0
        <5>1. back = b
          BY <1>5, <1>7, <4>2 DEF Around
        <5> QED
          BY <1>4, <3>1, <4>1, <5>1
      <4>3. CASE L # 0
        <5>1. 1 \in 1 .. L /\ 1 \in 1 .. L + 1 /\ 1 + 1 = 2
          BY <1>7, <4>3
        <5>2. ScopeAt(1)' = back
          BY <1>5, <1>7, <5>1
        <5> QED
          BY <1>7, <3>1, <4>1, <5>1, <5>2
      <4> QED
        BY <4>2, <4>3
    <3>4. CASE k # 1
      <4>1. PICK m : m = k - 1
        OBVIOUS
      <4>2. m \in 1 .. L /\ m \in 1 .. L + 1 /\ m + 1 = k /\ k \in 1 .. Lists + 1
        BY <1>7, <3>4, <4>1
      <4>3. ScopeAt(m)' = ScopeAt(k) /\ ScopeAt(k) \in DOMAIN scopes
        BY <1>7, <4>2
      <4> QED
        BY <1>7, <1>9, <3>1, <3>2, <4>2, <4>3
    <3> QED
      BY <3>3, <3>4
  <2> QED
    BY <2>1, <2>2
<1> QED
  BY <1>10, <1>11

\* The type is complete, and its entity is defined.
LEMMA EndedStands ==
  ASSUME SInv, SInv', Coupled, In("struct"), NEW back, NEW y, NEW f, Ended(back, y, f)
  PROVE  StandsOK' /\ StructsOK'
<1>1. /\ TablesOK /\ StackOK /\ StandsOK /\ RangesOK /\ CTablesOK /\ StructsOK
      /\ TypeDone(y) /\ EntDone(f) /\ y = open[1].type /\ f = members[1].ent
      /\ idents' = idents /\ stands' = stands
  BY DEF SInv, Coupled, Ended
<1>2. OpenList(1)
  BY <1>1, InList
<1>3. ASSUME NEW i \in DOMAIN idents PROVE StandOK(i)'
  <2>1. StandOK(i)
    BY <1>1 DEF StandsOK
  <2>2. stands[i] # 0 => stands[i] \in DOMAIN ents
    <3>1. DOMAIN stands = DOMAIN idents
      <4>1. stands \in Seq(Nat) /\ Len(stands) = Len(idents)
        BY <1>1 DEF CTablesOK
      <4> QED
        BY <4>1, Domains
    <3> QED
      BY <1>1, <3>1 DEF RangesOK
  <2>3. PICK s : s = stands[i]
    OBVIOUS
  <2>4. s # 0 => /\ ents'[s].kind = ents[s].kind /\ ents'[s].linkage = ents[s].linkage
                 /\ ents'[s].def = IF s = f THEN "yes" ELSE ents[s].def
    <3> HIDE DEF EntityType
    <3> QED
      BY <1>1, <2>2, <2>3 DEF EntDone
  <2>5. LinkageOf(s)' = LinkageOf(s)
    BY <2>4 DEF LinkageOf
  <2>6. IsStructTag(i) => (TypeOf(i) = y) = (s = f)
    BY <1>1, <1>2, <2>3 DEF OpenList
  <2>7. IsStructTag(i) => types'[TypeOf(i)].complete = IF TypeOf(i) = y THEN TRUE ELSE types[TypeOf(i)].complete
    BY <1>1 DEF StructsOK, TypeDone
  <2>8. ASSUME idents[i].kind = "tag", idents[i].ty.k = "struct"
        PROVE  types'[TypeOf(i)].complete = (ents'[s].def = "yes")
    <3>1. i # 0
      BY Domains
    <3>2. IsStructTag(i)
      BY <2>8, <3>1 DEF IsStructTag
    <3>3. types[TypeOf(i)].complete = (ents[s].def = "yes") /\ s # 0
      BY <2>1, <2>3, <2>8 DEF StandOK
    <3> QED
      BY <2>4, <2>6, <2>7, <3>2, <3>3
  <2> QED
    BY <1>1, <2>1, <2>3, <2>4, <2>5, <2>8 DEF StandOK, TypeOf
<1>4. StandsOK'
  BY <1>1, <1>3 DEF StandsOK
<1>5. StructsOK'
  <2>1. DOMAIN types' = DOMAIN types
    BY EndedTables
  <2> QED
    BY <1>1, <2>1 DEF StructsOK, IsStructTag, TypeOf
<1> QED
  BY <1>4, <1>5

\* All of it.
LEMMA EndedCoupled ==
  ASSUME SInv, SInv', Coupled, In("struct"), NEW back, NEW y, NEW f, Ended(back, y, f)
  PROVE  Coupled'
<1>1. /\ TablesOK /\ TablesOK' /\ StackOK /\ ChainsOK /\ CTablesOK /\ RangesOK /\ UsualOK /\ TagTypesOK
      /\ TagsLeft(back) /\ TypeDone(y) /\ EntDone(f) /\ back = open[1].back
      /\ idents' = idents /\ stands' = stands /\ cscopes' = cscopes /\ params' = params
      /\ last'.act = "exit"
  BY DEF SInv, Coupled, Ended
<1>2. /\ SameChains /\ IdentsKept /\ EntsCarried
      /\ Within' = Within /\ ListScopes' = ListScopes /\ DOMAIN scopes' = DOMAIN scopes
      /\ DOMAIN types' = DOMAIN types /\ DOMAIN ents' = DOMAIN ents
  BY EndedTables
<1>3. ChainsOK' /\ ScopesCarried /\ TypesCarried /\ IdentsCarried
  BY <1>1, <1>2, KeptChains, SameCarried, KeptCarried
<1>4. members' \in Seq([ent : Nat, names : SUBSET Names]) /\ Around' = Around
  <2>1. PICK L : L = Lists - 1
    OBVIOUS
  <2> QED
    BY <2>1, EndedStack
<1>5. CTablesOK'
  <2> HIDE DEF CScopeType, EntityType
  <2>1. ents' \in Seq(EntityType)
    BY <1>1 DEF EntDone
  <2> QED
    BY <1>1, <1>4, <2>1 DEF CTablesOK
<1>6. RangesOK'
  BY <1>1, <1>2 DEF RangesOK, InRange, EntsCarried
<1>7. UsualOK'
  <2>1. \A r \in DOMAIN scopes', n \in Names : r \in DOMAIN scopes /\ scopes'[r].usual[n] = scopes[r].usual[n]
    BY <1>1, <1>2 DEF TagsLeft
  <2> QED
    BY <1>1, <1>3, <2>1, UsualCarried
<1>8. TagTypesOK'
  <2>1. ASSUME NEW r \in DOMAIN scopes', NEW t \in Tags,
               scopes'[r].tags[t] # scopes[r].tags[t]
        PROVE  TagTypeAt(r, t)'
    <3>1. r \in DOMAIN scopes
      BY <1>2
    <3>2. r = back /\ scopes'[r].tags[t] = scopes[scope].tags[t]
      BY <1>1, <2>1, <3>1 DEF TagsLeft
    <3>3. scope \in DOMAIN scopes /\ back \in Within[scope]
      BY <1>1, EndedList DEF StackOK
    <3>4. PICK i : i = scopes[scope].tags[t]
      OBVIOUS
    <3>5. ASSUME IsStructTag(i) PROVE back \in Within[types[TypeOf(i)].scope]
      <4>1. TagTypeAt(scope, t)
        BY <1>1, <3>3 DEF TagTypesOK
      <4>2. scope \in Within[types[TypeOf(i)].scope]
        BY <3>4, <3>5, <4>1 DEF TagTypeAt
      <4>3. types[TypeOf(i)].scope \in DOMAIN scopes
        BY <1>1, <3>3, <3>4, <3>5, StructTags
      <4> QED
        BY <1>1, <3>3, <4>2, <4>3, InsideTrans
    <3>6. IsStructTag(i)' = IsStructTag(i) /\ TypeOf(i)' = TypeOf(i)
      BY <1>1 DEF IsStructTag, TypeOf
    <3>7. IsStructTag(i) => types'[TypeOf(i)].scope = types[TypeOf(i)].scope
      <4>1. IsStructTag(i) => TypeOf(i) \in DOMAIN types
        BY <1>1, <3>3, <3>4, StructTags
      <4> QED
        BY <1>1, <4>1 DEF TypeDone
    <3> QED
      BY <1>2, <3>2, <3>4, <3>5, <3>6, <3>7 DEF TagTypeAt
  <2>2. \A r \in DOMAIN scopes', t \in Tags :
          \/ r \in DOMAIN scopes /\ scopes'[r].tags[t] = scopes[r].tags[t]
          \/ TagTypeAt(r, t)'
    BY <1>2, <2>1
  <2> QED
    BY <1>1, <1>3, <2>2, TagTypesCarried
<1>9. OpenListsOK' /\ UnopenedOK' /\ StandsOK' /\ StructsOK'
  BY EndedLists, EndedUnopened, EndedStands
<1>10. PICK b, cs : b = Around /\ cs = cscopes
  OBVIOUS
<1>11. At(b, cs)
  BY <1>1, <1>10, AtAround
<1>12. NamesOK(b, cscopes)'
  <2>1. /\ \A r \in DOMAIN scopes : r \notin ListScopes =>
             /\ scopes'[r].type = scopes[r].type
             /\ \A m \in Names : scopes'[r].usual[m] = scopes[r].usual[m]
        /\ scopes'[b].chain = scopes[b].chain
    BY <1>1, <1>11 DEF TagsLeft, At
  <2>2. /\ Len(cscopes') = Len(cs) /\ DOMAIN cscopes' = DOMAIN cs
        /\ \A j \in DOMAIN cs, m \in Names : cscopes'[j].names[m] = cs[j].names[m]
    BY <1>1, <1>10
  <2> QED
    BY <1>1, <1>2, <1>11, <2>1, <2>2, NamesKept
<1>13. NamesOK(Around, cscopes)' /\ TagsOK(Around, cscopes)'
  <2>1. b = Around' /\ TagsOK(b, cscopes)'
    BY <1>4, <1>10, EndedTags
  <2> QED
    BY <1>12, <2>1, NamesMoved
<1>14. LinkedOK'
  <2>1. \A x \in DOMAIN ents :
          /\ ents'[x].kind = ents[x].kind /\ ents'[x].name = ents[x].name
          /\ ents'[x].linkage = ents[x].linkage /\ ents'[x].ty = ents[x].ty
    <3> HIDE DEF EntityType
    <3> QED
      BY <1>1 DEF EntDone
  <2> QED
    BY <1>1, <1>2, <2>1 DEF Coupled, LinkedOK, LinkedAt, FileEntry
<1>15. ParamsOK'
  BY <1>1 DEF ParamsOK
<1> QED
  BY <1>3, <1>5, <1>6, <1>7, <1>8, <1>9, <1>13, <1>14, <1>15 DEF Coupled

\* "}" of a struct: the tags that go out meet none, and C has no rule here.
LEMMA EndStructHeld ==
  ASSUME SInv, SInv', Coupled, EndStruct, known' = {}
  PROVE  Held'
<1>1. TablesOK /\ StackOK /\ CTablesOK
  BY DEF SInv, Coupled
<1>2. verdict = "ok" /\ cverdict = "ok" /\ (cverdict' = "ok" => NewStand)
  <2>1. Both({})
    BY DEF EndStruct
  <2> QED
    BY <2>1, OfBoth
<1>3. In("struct") /\ ExitStruct /\ CExitStruct
  BY DEF EndStruct, ExitStruct
<1>4. PICK back, y, e : back = open[1].back /\ y = open[1].type /\ e = members[1].ent
  OBVIOUS
<1>5. /\ back \in DOMAIN scopes /\ scope \in DOMAIN scopes
      /\ \A t \in Tags : scopes[scope].tags[t] = 0 \/ scopes[back].tags[t] = 0
      /\ y \in DOMAIN types /\ OpenList(1) /\ e \in DOMAIN ents
  BY <1>1, <1>3, <1>4, EndedList, InList DEF OpenList
<1>6. /\ scopes' = [scopes EXCEPT
           ![back].tags = [t \in Tags |-> IF scopes[scope].tags[t] # 0
                                          THEN scopes[scope].tags[t] ELSE @[t]]]
      /\ types' = [types EXCEPT ![y].complete = TRUE]
      /\ scope' = open[1].back /\ open' = Tail(open)
      /\ last'.act = "exit" /\ verdict' = verdict /\ idents' = idents
  BY <1>3, <1>4, <1>5 DEF ExitStruct, Denotes
<1>7. /\ ents' = [ents EXCEPT ![e].def = "yes"] /\ members' = Tail(members)
      /\ UNCHANGED <<cscopes, params, cverdict>>
  BY <1>3, <1>4 DEF CExitStruct
<1>8. TagsLeft(back)
  BY <1>1, <1>5, <1>6, LeftTags
<1>9. TypeDone(y)
  BY <1>1, <1>5, <1>6, DoneType
<1>10. EntDone(e)
  <2> HIDE DEF EntityType
  <2> QED
    BY <1>1, <1>5, <1>7, DoneEnt DEF CTablesOK
<1>11. stands' = stands
  <2>1. NewStand
    BY <1>2, <1>7
  <2> QED
    BY <1>1, <1>6, <2>1, StandsSame
<1>12. Ended(back, y, e)
  BY <1>4, <1>6, <1>7, <1>8, <1>9, <1>10, <1>11 DEF Ended
<1>13. Coupled'
  BY <1>3, <1>12, EndedCoupled
<1> QED
  BY <1>2, <1>6, <1>7, <1>13 DEF Held

KitInv == kit \in DOMAIN Kits

\* Each step is one of the parser's.
LEMMA ReadsStep ==
  ASSUME KitInv, Next
  PROVE  ScopesNext /\ kit' = kit
<1>0. /\ Kits[kit].decls \subseteq Decls /\ Kits[kit].names \subseteq Names
      /\ Kits[kit].tags \subseteq Tags
  BY KitsAssumption DEF KitInv
<1>1. ASSUME NEW d \in Decls, FileDeclare(d) \/ BeginParameters(d) PROVE ScopesNext /\ kit' = kit
  BY <1>1 DEF FileDeclare, BeginParameters, Both, ScopesNext
<1>2. ASSUME EndParameters \/ BeginBody \/ BeginBlock \/ EndBlock \/ EndStruct
      PROVE  ScopesNext /\ kit' = kit
  BY <1>2 DEF EndParameters, BeginBody, BeginBlock, EndBlock, EndStruct, Both, ScopesNext
<1>3. ASSUME NEW n \in Names, UseName(n) \/ TakeAddress(n) \/ AddMember(n)
      PROVE  ScopesNext /\ kit' = kit
  BY <1>3 DEF UseName, TakeAddress, Mention, AddMember, Both, ScopesNext
<1>4. ASSUME NEW t \in Tags, NEW alone \in BOOLEAN, Specifier(t, alone) \/ SpecifierEnum(t)
      PROVE  ScopesNext /\ kit' = kit
  BY <1>4 DEF Specifier, SpecifierEnum, Both, ScopesNext
<1>5. ASSUME NEW t \in Tags \cup {NoTag}, BeginStruct(t)
      PROVE  ScopesNext /\ kit' = kit
  BY <1>5 DEF BeginStruct, Both, ScopesNext
<1>6. ASSUME NEW t \in Tags \cup {NoTag}, NEW n \in Names, DefineEnum(t, n)
      PROVE  ScopesNext /\ kit' = kit
  BY <1>6 DEF DefineEnum, Both, ScopesNext
<1> QED
  BY <1>0, <1>1, <1>2, <1>3, <1>4, <1>5, <1>6 DEF Next

\* Every behaviour of a translation unit is one of the scopes of the parser.
THEOREM ReadsAsScopes == Spec => ScopesSpec
<1>1. Init => ScopesInit /\ KitInv
  BY DEF Init, KitInv
<1>2. KitInv /\ [Next]_vars => [ScopesNext]_svars /\ KitInv'
  BY ReadsStep DEF KitInv, vars
<1> QED
  BY <1>1, <1>2, PTL DEF Spec, ScopesSpec

---------------------------------------------------------------------------
(* Every step keeps the correspondence.                                      *)

\* No step is taken behind an error or a difference that is known.
LEMMA StepClaimed ==
  ASSUME KitInv, Next
  PROVE  Claimed
<1>1. ASSUME NEW differs, Both(differs) PROVE Claimed
  BY <1>1 DEF Both, Claimed
<1> QED
  BY <1>1 DEF Next, FileDeclare, BeginParameters, EndParameters, BeginBody, BeginBlock, EndBlock,
              UseName, TakeAddress, Specifier, BeginStruct, AddMember, EndStruct, SpecifierEnum,
              DefineEnum

\* Every step that meets no difference keeps the correspondence, and tells of
\* what breaks a constraint.
LEMMA NextHeld ==
  ASSUME KitInv, SInv, SInv', Coupled, Next, known' = {}
  PROVE  Held'
<1>0. /\ Kits[kit].decls \subseteq Decls /\ Kits[kit].names \subseteq Names
      /\ Kits[kit].tags \subseteq Tags
  BY KitsAssumption DEF KitInv
<1>1. ASSUME NEW d \in Decls, FileDeclare(d) \/ BeginParameters(d) PROVE Held'
  BY <1>1, FileDeclareHeld, BeginParametersHeld
<1>2. ASSUME EndParameters \/ BeginBody \/ BeginBlock \/ EndBlock \/ EndStruct PROVE Held'
  BY <1>2, EndParametersHeld, BeginBodyHeld, BeginBlockHeld, EndBlockHeld, EndStructHeld
<1>3. ASSUME NEW n \in Names, UseName(n) \/ TakeAddress(n) \/ AddMember(n) PROVE Held'
  BY <1>3, UseNameHeld, TakeAddressHeld, AddMemberHeld
<1>4. ASSUME NEW t \in Tags, NEW alone \in BOOLEAN, Specifier(t, alone) \/ SpecifierEnum(t)
      PROVE  Held'
  BY <1>4, SpecifierAgain, SpecifierNew, SpecifierEnumHeld
<1>5. ASSUME NEW t \in Tags \cup {NoTag}, BeginStruct(t) PROVE Held'
  BY <1>5, BeginStructHeld
<1>6. ASSUME NEW t \in Tags \cup {NoTag}, NEW n \in Names, DefineEnum(t, n) PROVE Held'
  BY <1>6, DefineEnumHeld
<1>7. \/ \E d \in Decls : FileDeclare(d) \/ BeginParameters(d)
      \/ EndParameters \/ BeginBody \/ BeginBlock \/ EndBlock \/ EndStruct
      \/ \E n \in Names : UseName(n) \/ TakeAddress(n) \/ AddMember(n)
      \/ \E t \in Tags, alone \in BOOLEAN : Specifier(t, alone) \/ SpecifierEnum(t)
      \/ \E t \in Tags \cup {NoTag} : BeginStruct(t) \/ \E n \in Names : DefineEnum(t, n)
  BY <1>0 DEF Next
<1> QED
  BY <1>1, <1>2, <1>3, <1>4, <1>5, <1>6, <1>7

\* Nothing is read yet.
LEMMA CoupledFirst ==
  ASSUME Init
  PROVE  Coupled
<1>1. /\ scopes = <<[type |-> "file", chain |-> <<1>>,
                     usual |-> [n \in Names |-> 0], tags |-> [t \in Tags |-> 0]]>>
      /\ scope = 1 /\ idents = <<>> /\ types = <<>> /\ open = <<>> /\ stands = <<>>
      /\ cscopes = <<EmptyScope>> /\ ents = <<>> /\ members = <<>> /\ params = EmptyScope
      /\ last.act = "enter"
  BY DEF Init, ScopesInit, CInit
<1>2. /\ DOMAIN scopes = {1} /\ DOMAIN idents = {} /\ DOMAIN types = {} /\ DOMAIN open = {}
      /\ DOMAIN stands = {} /\ DOMAIN ents = {} /\ DOMAIN cscopes = {1} /\ Lists = 0
      /\ Len(cscopes) = 1 /\ cscopes[1] = EmptyScope
  BY <1>1 DEF Lists
<1>3. /\ scopes[1].type = "file" /\ scopes[1].chain = <<1>>
      /\ \A n \in Names : scopes[1].usual[n] = 0
      /\ \A t \in Tags : scopes[1].tags[t] = 0
      /\ Len(scopes[1].chain) = 1 /\ DOMAIN scopes[1].chain = {1} /\ scopes[1].chain[1] = 1
  BY <1>1
<1>4. ListScopes = {} /\ Around = 1
  <2>1. Around = ScopeAt(1)
    BY <1>2 DEF Around
  <2> QED
    BY <1>1, <1>2, <2>1 DEF ListScopes, ScopeAt
<1>5. EmptyScope \in CScopeType /\ InRange(EmptyScope)
  BY EmptyRange
<1>6. CTablesOK
  <2> HIDE DEF CScopeType, EntityType, EmptyScope
  <2>1. PICK S, q, z : S = CScopeType /\ z = EmptyScope /\ q = cscopes
    OBVIOUS
  <2>2. q \in Seq(S) /\ q # <<>>
    BY <1>1, <1>5, <2>1
  <2> QED
    BY <1>1, <1>5, <2>1, <2>2 DEF CTablesOK
<1>7. RangesOK
  BY <1>1, <1>2, <1>5 DEF RangesOK
<1>8. ChainsOK
  <2>1. PICK c : c = scopes[1].chain
    OBVIOUS
  <2>2. DOMAIN c = {1} /\ c[1] = 1 /\ Len(c) = 1 /\ 1 .. Len(c) - 1 + 1 = {1}
    BY <1>3, <2>1
  <2>3. ASSUME NEW p \in DOMAIN c
        PROVE  /\ Len(scopes[c[p]].chain) = Len(c) - p + 1
               /\ \A q \in 1 .. Len(c) - p + 1 : scopes[c[p]].chain[q] = c[p + q - 1]
               /\ (scopes[c[p]].type = "file") = (p = Len(c))
    <3>1. p = 1 /\ c[p] = 1
      BY <2>2
    <3>2. Len(scopes[c[p]].chain) = Len(c) - p + 1
      BY <1>3, <2>2, <3>1
    <3>3. \A q \in 1 .. Len(c) - p + 1 : scopes[c[p]].chain[q] = c[p + q - 1]
      BY <2>1, <2>2, <3>1
    <3>4. (scopes[c[p]].type = "file") = (p = Len(c))
      BY <1>3, <2>2, <3>1
    <3> QED
      BY <3>2, <3>3, <3>4
  <2>4. ChainOK(1)
    BY <1>4, <2>1, <2>3 DEF ChainOK
  <2> QED
    BY <1>2, <1>3, <2>4 DEF ChainsOK
<1>9. UsualOK /\ TagTypesOK /\ UnopenedOK /\ StructsOK /\ StandsOK
  BY <1>2, <1>3 DEF UsualOK, UsualAt, TagTypesOK, TagTypeAt, IsStructTag, UnopenedOK, StructsOK, StandsOK
<1>10. OpenListsOK
  BY <1>1, <1>2, <1>4 DEF OpenListsOK
<1>11. \A n \in Names : EmptyScope.names[n].ent = 0
  BY DEF EmptyScope, NoEntry
<1>12. \A t \in Tags : EmptyScope.tags[t] = 0
  BY DEF EmptyScope
<1>13. PICK b : b = Around
  OBVIOUS
<1>14. b = 1
  BY <1>4, <1>13
<1>15. NamesOK(b, cscopes)
  BY <1>2, <1>3, <1>11, <1>14 DEF NamesOK
<1>16. TagsOK(b, cscopes)
  BY <1>2, <1>3, <1>12, <1>14 DEF TagsOK
<1>17. LinkedOK
  BY <1>2 DEF LinkedOK, LinkedAt
<1>18. ParamsOK
  BY <1>1 DEF ParamsOK
<1> QED
  BY <1>6, <1>7, <1>8, <1>9, <1>10, <1>13, <1>15, <1>16, <1>17, <1>18 DEF Coupled

LEMMA CoupledStays ==
  ASSUME Coupled, UNCHANGED vars
  PROVE  Coupled'
<1>1. UNCHANGED <<scopes, scope, idents, types, open, last, cscopes, ents, members, params, meant, stands>>
  BY DEF vars, svars, cvars
<1>2. ListScopes' = ListScopes /\ Within' = Within /\ Lists' = Lists
  BY <1>1 DEF ListScopes, Within, Lists
<1>3. (\A k : ScopeAt(k)' = ScopeAt(k)) /\ Around' = Around
  BY <1>1, <1>2 DEF ScopeAt, Around
<1>4. \A e : LinkageOf(e)' = LinkageOf(e)
  BY <1>1 DEF LinkageOf
<1>5. \A i, entry : Stands(i, entry)' = Stands(i, entry)
  BY <1>1 DEF Stands
<1>6. \A i : IsStructTag(i)' = IsStructTag(i) /\ TypeOf(i)' = TypeOf(i)
  BY <1>1 DEF IsStructTag, TypeOf
<1>7. CTablesOK' /\ RangesOK'
  <2>1. \A c : InRange(c)' = InRange(c)
    BY <1>1 DEF InRange
  <2> QED
    BY <1>1, <2>1 DEF Coupled, CTablesOK, RangesOK
<1>8. ChainsOK'
  <2>1. \A s : ChainOK(s)' = ChainOK(s)
    BY <1>1, <1>2 DEF ChainOK
  <2> QED
    BY <1>1, <2>1 DEF Coupled, ChainsOK
<1>9. UsualOK'
  <2>1. \A s, n : UsualAt(s, n)' = UsualAt(s, n)
    BY <1>1, <1>2 DEF UsualAt
  <2> QED
    BY <1>1, <2>1 DEF Coupled, UsualOK
<1>10. TagTypesOK'
  <2>1. \A s, t : TagTypeAt(s, t)' = TagTypeAt(s, t)
    BY <1>1, <1>2, <1>6 DEF TagTypeAt
  <2> QED
    BY <1>1, <2>1 DEF Coupled, TagTypesOK
<1>11. UnopenedOK'
  <2>1. \A y : Unopened(y)' = Unopened(y) /\ EmptyList(y)' = EmptyList(y)
    BY <1>1, <1>2 DEF Unopened, EmptyList
  <2> QED
    BY <1>1, <2>1 DEF Coupled, UnopenedOK
<1>12. OpenListsOK'
  <2>1. \A k : OpenList(k)' = OpenList(k)
    BY <1>1, <1>2, <1>3, <1>6 DEF OpenList
  <2> QED
    BY <1>1, <1>2, <1>3, <2>1 DEF Coupled, OpenListsOK
<1>13. PICK b, cs : b = Around /\ cs = cscopes
  OBVIOUS
<1>14. NamesOK(b, cs)'
  <2>1. \A j, n : Extern(b, cs, j, n)' = Extern(b, cs, j, n)
    BY <1>1, <1>4 DEF Extern, FileEntry
  <2>2. NamesOK(b, cs)
    BY <1>13 DEF Coupled
  <2> QED
    BY <1>1, <1>5, <2>1, <2>2 DEF NamesOK
<1>15. TagsOK(b, cs)'
  <2>1. TagsOK(b, cs)
    BY <1>13 DEF Coupled
  <2> QED
    BY <1>1, <1>2, <1>3, <1>6, <2>1 DEF TagsOK
<1>16. NamesOK(Around, cscopes)' /\ TagsOK(Around, cscopes)'
  <2>1. b = Around' /\ cs = cscopes'
    BY <1>1, <1>3, <1>13
  <2>2. /\ NamesOK(Around, cscopes)' = NamesOK(b, cs)'
        /\ TagsOK(Around, cscopes)' = TagsOK(b, cs)'
    BY <2>1 DEF NamesOK, TagsOK, Extern, FileEntry
  <2> QED
    BY <1>14, <1>15, <2>2
<1>17. LinkedOK'
  BY <1>1 DEF Coupled, LinkedOK, LinkedAt, FileEntry
<1>18. StandsOK'
  <2>1. \A i : StandOK(i)' = StandOK(i)
    BY <1>1, <1>4, <1>6 DEF StandOK
  <2> QED
    BY <1>1, <2>1 DEF Coupled, StandsOK
<1>19. StructsOK'
  BY <1>1, <1>6 DEF Coupled, StructsOK
<1>20. ParamsOK'
  <2>1. \A p : ParamsOf(p)' = ParamsOf(p)
    BY <1>1, <1>5 DEF ParamsOf
  <2> QED
    BY <1>1, <2>1 DEF Coupled, ParamsOK
<1> QED
  BY <1>7, <1>8, <1>9, <1>10, <1>11, <1>12, <1>16, <1>17, <1>18, <1>19, <1>20 DEF Coupled

---------------------------------------------------------------------------
(* Theorems.                                                                 *)

IInv == KitInv /\ SInv /\ (Claimed => Coupled) /\ AcceptsValid /\ Diagnosed

LEMMA Start == Init => IInv
<1> SUFFICES ASSUME Init PROVE IInv
  OBVIOUS
<1>1. SInv
  BY ScopesStart DEF Init
<1>2. Coupled
  BY CoupledFirst
<1>3. KitInv /\ AcceptsValid /\ Diagnosed
  BY DEF Init, KitInv, AcceptsValid, Diagnosed, ScopesInit, CInit
<1> QED
  BY <1>1, <1>2, <1>3 DEF IInv

LEMMA Step ==
  ASSUME IInv, [Next]_vars
  PROVE  IInv'
<1>1. KitInv /\ SInv
  BY DEF IInv
<1>2. KitInv' /\ SInv'
  <2>1. [ScopesNext]_svars /\ KitInv'
    BY <1>1, ReadsStep DEF KitInv, vars
  <2> QED
    BY <1>1, <2>1, ScopesKeep
<1>3. CASE Next
  <2>1. Claimed /\ Coupled
    BY <1>1, <1>3, StepClaimed DEF IInv
  <2>2. known' = {} => Held'
    BY <1>1, <1>2, <1>3, <2>1, NextHeld
  <2> QED
    BY <1>2, <2>2 DEF IInv, Held, Claimed, AcceptsValid, Diagnosed, Going
<1>4. CASE UNCHANGED vars
  <2>1. Claimed' = Claimed /\ AcceptsValid' = AcceptsValid /\ Diagnosed' = Diagnosed
    BY <1>4 DEF vars, svars, cvars, Claimed, AcceptsValid, Diagnosed, Going
  <2>2. Coupled => Coupled'
    BY <1>4, CoupledStays
  <2> QED
    BY <1>2, <2>1, <2>2 DEF IInv
<1> QED
  BY <1>3, <1>4

LEMMA Inductive == Spec => []IInv
<1>1. IInv /\ [Next]_vars => IInv'
  BY Step
<1> QED
  BY Start, <1>1, PTL DEF Spec

\* A file that keeps the rules of C is accepted: kcc neither refuses it nor
\* crashes, however long it is and however deep it nests, as long as none of
\* the known differences is met.
THEOREM AcceptsFiles == Spec => []AcceptsValid
<1>1. IInv => AcceptsValid
  BY DEF IInv
<1> QED
  BY <1>1, Inductive, PTL

\* A file that breaks a constraint of C is never taken in silence: kcc stops
\* with an error, or it warns of a typedef that is declared again.
THEOREM DiagnosesFiles == Spec => []Diagnosed
<1>1. IInv => Diagnosed
  BY DEF IInv
<1> QED
  BY <1>1, Inductive, PTL

\* Wherever the parser is, what scope.cpp finds for a name or a tag is the
\* entity that C has for it there, with its type; and a struct is complete
\* there when it is in C.
THEOREM LooksUpAsC == Spec => []LookupAgrees
<1>1. IInv => LookupAgrees
  BY CoupledLookup DEF IInv, LookupAgrees
<1> QED
  BY <1>1, Inductive, PTL
=============================================================================
