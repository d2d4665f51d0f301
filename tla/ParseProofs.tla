----------------------------- MODULE ParseProofs -----------------------------
(***************************************************************************)
(* What every step of the parser preserves, for bodies of any size over    *)
(* any label names.                                                        *)
(***************************************************************************)
EXTENDS ParseStmt, TLAPS

\* The strengthening: what is open belongs to nodes of the tree, labels_ holds
\* label nodes under their names, and gotos_ every goto so far.
OpenOK ==
  \A i \in DOMAIN open :
    /\ open[i].n \in DOMAIN prog
    /\ open[i].what = "label" => /\ prog[open[i].n].kind = "Label"
                                 /\ prog[open[i].n].name \in LabelNames

LabelsOK ==
  \A l \in LabelNames : labels[l] # 0 =>
    /\ labels[l] \in DOMAIN prog
    /\ prog[labels[l]].kind = "Label"
    /\ prog[labels[l]].name = l

GotosOK ==
  parsed = "no" =>
    \A n \in DOMAIN prog : prog[n].kind = "Goto" =>
      /\ prog[n].name \in LabelNames
      /\ \E i \in DOMAIN gotos : gotos[i] = n

ParseInv ==
  /\ ParseTypeOK /\ prog # <<>>
  /\ OpenOK /\ TreeShape /\ LabelsOK /\ GotosOK /\ GotosResolved

\* The children a node of a kind has at least, once it is complete.
Least(kind) ==
  CASE kind \in {"If", "While", "DoWhile", "And", "Or"} -> 2
    [] kind = "Cond" -> 3
    [] kind \in {"For", "Switch", "Case", "Default", "Label", "Not"} -> 1
    [] OTHER -> 0

Child(x) == x.what \in {"stmt", "expr", "body"}
Takes(x) == Child(x) \/ x.what = "else"

\* slot is the place of the child each expectation of s is for: behind those
\* that are there, in the order in which they come, and every place has one.
Slots(slot, s, tree) ==
  /\ \A i \in DOMAIN s : Takes(s[i]) => slot[i] \in Nat /\ slot[i] > Len(tree[s[i].n].kids)
  /\ \A i, j \in DOMAIN s :
       i < j /\ Takes(s[i]) /\ Takes(s[j]) /\ s[i].n = s[j].n => slot[i] < slot[j]
  /\ \A n \in DOMAIN tree, k \in Nat :
       Len(tree[n].kids) < k /\ k <= Least(tree[n].kind) =>
         \E i \in DOMAIN s : Child(s[i]) /\ s[i].n = n /\ slot[i] = k

\* The body is the last thing open, and only a list of items is ever longer than
\* was expected.
KidsInv ==
  /\ prog # <<>> /\ prog[1].kind = "Compound" /\ (parsed = "yes" => open = <<>>)
  /\ \A i \in DOMAIN open :
       /\ open[i].n = 1 => i = Len(open)
       /\ (open[i].what = "items") <=> (prog[open[i].n].kind = "Compound")
  /\ \E slot : Slots(slot, open, prog)

LEMMA ParseInitInv == ParseInit => ParseInv
<1> SUFFICES ASSUME ParseInit PROVE ParseInv
  OBVIOUS
<1>1. Body \in NodeType
  BY DEF Body, NodeType, StmtKind, Loops
<1>2. ParseTypeOK
  BY <1>1 DEF ParseInit, ParseTypeOK, Expect, Expectation
<1>3. /\ prog[1] = Body /\ DOMAIN prog = {1} /\ Len(prog) = 1
      /\ open[1] = [what |-> "items", n |-> 1] /\ DOMAIN open = {1}
  BY DEF ParseInit, Expect
<1>4. OpenOK
  BY <1>3 DEF OpenOK
<1>a. prog[1].kids = <<>> /\ prog[1].kind = "Compound"
  <2>1. Body.kids = <<>> /\ Body.kind = "Compound"
    BY DEF Body
  <2> QED
    BY <2>1, <1>3
<1>5. TreeShape
  BY <1>3, <1>a DEF TreeShape
<1>6. LabelsOK
  BY DEF ParseInit, LabelsOK
<1>7. GotosOK /\ GotosResolved
  BY <1>3, <1>a DEF ParseInit, GotosOK, GotosResolved
<1> QED
  BY <1>2, <1>4, <1>5, <1>6, <1>7 DEF ParseInv, ParseInit

\* The one place a node is made: MakeAstNode and its place in the tree.
LEMMA NodeTree ==
  ASSUME ParseTypeOK, OpenOK, open # <<>>,
         NEW kind \in StmtKind \cup ExprKind, NEW next, NEW extra \in NodeType,
         Node(kind, next, extra)
  PROVE  /\ prog' \in Seq(NodeType) /\ Len(prog') = New
         /\ Head(open).n \in DOMAIN prog
         /\ \A n \in DOMAIN prog :
              /\ prog'[n].kind = prog[n].kind /\ prog'[n].name = prog[n].name
              /\ prog'[n].up = prog[n].up /\ prog'[n].to = prog[n].to
              /\ n # Head(open).n => prog'[n].kids = prog[n].kids
         /\ prog'[Head(open).n].kids = Append(prog[Head(open).n].kids, New)
         /\ prog'[New].kind = kind /\ prog'[New].up = Head(open).n
         /\ prog'[New].kids = extra.kids /\ prog'[New].name = extra.name
<1> DEFINE h == Head(open).n
           parent == [prog[h] EXCEPT !.kids = Append(@, New)]
           node == [extra EXCEPT !.kind = kind, !.up = h]
           grown == [prog EXCEPT ![h] = parent]
<1>1. h \in DOMAIN prog /\ h \in Nat /\ prog \in Seq(NodeType) /\ prog[h] \in NodeType
  BY DEF ParseTypeOK, OpenOK, Expectation
<1>2. parent \in NodeType /\ node \in NodeType
  <2>a. New \in Nat
    BY <1>1 DEF New
  <2>b. prog[h].kids \in Seq(Nat)
    BY <1>1 DEF NodeType
  <2>1. Append(prog[h].kids, New) \in Seq(Nat)
    BY <2>a, <2>b
  <2>2. parent \in NodeType
    BY <1>1, <2>1 DEF NodeType
  <2>3. node \in NodeType
    BY <1>1 DEF NodeType
  <2> QED
    BY <2>2, <2>3
<1>3. /\ parent.kids = Append(prog[h].kids, New) /\ parent.kind = prog[h].kind
      /\ parent.name = prog[h].name /\ parent.up = prog[h].up /\ parent.to = prog[h].to
      /\ node.kind = kind /\ node.up = h /\ node.kids = extra.kids
      /\ node.name = extra.name
  BY <1>1 DEF NodeType
<1>4. /\ grown \in Seq(NodeType) /\ Len(grown) = Len(prog)
      /\ grown[h] = parent /\ \A n \in DOMAIN prog : n # h => grown[n] = prog[n]
  BY <1>1, <1>2
<1>5. prog' = Append(grown, node)
  BY DEF Node
<1> HIDE DEF parent, node, grown
<1>6. /\ prog' \in Seq(NodeType) /\ Len(prog') = New /\ prog'[New] = node
      /\ \A n \in DOMAIN prog : prog'[n] = grown[n]
  BY <1>1, <1>2, <1>4, <1>5 DEF New
<1> QED
  BY <1>1, <1>3, <1>4, <1>6

\* What is expected of a new node: all the children it needs at least.
Fits(kind, next) ==
  /\ Least(kind) <= Len(next) /\ \A i \in 1..Least(kind) : Child(next[i])
  /\ \A i \in 1..Len(next) : (next[i].what = "items") <=> (kind = "Compound")

\* What is expected after a node was made: of the new node only, and the rest
\* of a label statement only for a label.
NextOK(kind, next, extra) ==
  /\ next \in Seq(Expectation) /\ Fits(kind, next)
  /\ \A i \in DOMAIN next :
       /\ next[i].n = New
       /\ next[i].what = "label" => kind = "Label" /\ extra.name \in LabelNames

LEMMA OpenStep ==
  ASSUME ParseInv, open # <<>>, NEW next \in Seq(Expectation), open' = next \o rest
  PROVE  /\ open' \in Seq(Expectation)
         /\ \A i \in DOMAIN open' : \/ \E j \in DOMAIN next : open'[i] = next[j]
                                   \/ \E j \in DOMAIN open : open'[i] = open[j]
<1>1. open \in Seq(Expectation)
  BY DEF ParseInv, ParseTypeOK
<1>2. rest \in Seq(Expectation) /\ \A i \in DOMAIN rest : \E j \in DOMAIN open : rest[i] = open[j]
  <2>1. CASE Head(open).what = "items"
    BY <1>1, <2>1 DEF rest
  <2>2. CASE Head(open).what # "items"
    <3>1. rest = Tail(open)
      BY <2>2 DEF rest
    <3>2. rest \in Seq(Expectation) /\ Len(rest) = Len(open) - 1
      BY <1>1, <3>1
    <3>3. \A i \in DOMAIN rest : i + 1 \in DOMAIN open /\ rest[i] = open[i + 1]
      BY <1>1, <3>1, <3>2
    <3> QED
      BY <3>2, <3>3
  <2> QED
    BY <2>1, <2>2
<1>3. open' \in Seq(Expectation) /\ Len(open') = Len(next) + Len(rest)
  BY <1>2
<1>4. ASSUME NEW i \in DOMAIN open'
      PROVE  \/ \E j \in DOMAIN next : open'[i] = next[j]
             \/ \E j \in DOMAIN open : open'[i] = open[j]
  <2>1. CASE i <= Len(next)
    <3>1. i \in DOMAIN next /\ open'[i] = next[i]
      BY <2>1, <1>2, <1>3
    <3> QED
      BY <3>1
  <2>2. CASE i > Len(next)
    <3>1. i - Len(next) \in DOMAIN rest /\ open'[i] = rest[i - Len(next)]
      BY <2>2, <1>2, <1>3
    <3> QED
      BY <3>1, <1>2
  <2> QED
    BY <2>1, <2>2, <1>3
<1> QED
  BY <1>3, <1>4

LEMMA NodeInv ==
  ASSUME ParseInv, parsed = "no", open # <<>>,
         NEW kind \in StmtKind \cup ExprKind, NEW next, NEW extra \in NodeType,
         extra.kids = <<>>, NextOK(kind, next, extra), Node(kind, next, extra),
         UNCHANGED labels,
         \/ gotos' = gotos /\ kind # "Goto"
         \/ gotos' = Append(gotos, New) /\ extra.name \in LabelNames
  PROVE  ParseInv'
<1> DEFINE h == Head(open).n
<1>1. /\ prog' \in Seq(NodeType) /\ Len(prog') = New /\ h \in DOMAIN prog
      /\ \A n \in DOMAIN prog :
           /\ prog'[n].kind = prog[n].kind /\ prog'[n].name = prog[n].name
           /\ prog'[n].up = prog[n].up /\ prog'[n].to = prog[n].to
           /\ n # h => prog'[n].kids = prog[n].kids
      /\ prog'[h].kids = Append(prog[h].kids, New)
      /\ prog'[New].kind = kind /\ prog'[New].up = h
      /\ prog'[New].kids = <<>> /\ prog'[New].name = extra.name
  BY NodeTree DEF ParseInv
<1>2. /\ prog \in Seq(NodeType) /\ DOMAIN prog = 1..Len(prog) /\ Len(prog) \in Nat
      /\ New = Len(prog) + 1 /\ DOMAIN prog' = 1..New
      /\ DOMAIN prog' = DOMAIN prog \cup {New} /\ New \notin DOMAIN prog
  BY <1>1 DEF ParseInv, ParseTypeOK, New
<1>3. /\ parsed' = "no" /\ labels' = labels /\ grammar' = grammar
      /\ open' = next \o rest
  BY DEF Node
<1>4. /\ open' \in Seq(Expectation)
      /\ \A i \in DOMAIN open' : \/ \E j \in DOMAIN next : open'[i] = next[j]
                                \/ \E j \in DOMAIN open : open'[i] = open[j]
  BY <1>3, OpenStep DEF NextOK
<1>5. gotos \in Seq(Nat) /\ gotos' \in Seq(Nat)
  <2>1. gotos \in Seq(Nat)
    BY DEF ParseInv, ParseTypeOK
  <2>2. New \in Nat
    BY <1>2
  <2>3. Append(gotos, New) \in Seq(Nat)
    BY <2>1, <2>2
  <2> QED
    BY <2>1, <2>3
<1>6. ParseTypeOK'
  BY <1>1, <1>3, <1>4, <1>5 DEF ParseInv, ParseTypeOK
<1>7. OpenOK'
  <2> SUFFICES ASSUME NEW i \in DOMAIN open'
               PROVE  /\ open'[i].n \in DOMAIN prog'
                      /\ open'[i].what = "label" =>
                           /\ prog'[open'[i].n].kind = "Label"
                           /\ prog'[open'[i].n].name \in LabelNames
    BY DEF OpenOK
  <2>1. CASE \E j \in DOMAIN next : open'[i] = next[j]
    BY <2>1, <1>1, <1>2 DEF NextOK
  <2>2. CASE \E j \in DOMAIN open : open'[i] = open[j]
    <3>1. PICK j \in DOMAIN open : open'[i] = open[j]
      BY <2>2
    <3> DEFINE m == open[j].n
    <3>2. /\ m \in DOMAIN prog
          /\ open[j].what = "label" => prog[m].kind = "Label" /\ prog[m].name \in LabelNames
      BY DEF ParseInv, OpenOK
    <3>3. m \in DOMAIN prog' /\ prog'[m].kind = prog[m].kind /\ prog'[m].name = prog[m].name
      BY <3>2, <1>1, <1>2
    <3> QED
      BY <3>1, <3>2, <3>3
  <2> QED
    BY <2>1, <2>2, <1>4
<1>8. TreeShape'
  <2> SUFFICES ASSUME NEW n \in DOMAIN prog'
               PROVE  /\ n # 1 => prog'[n].up \in 1..n - 1
                      /\ \A i \in DOMAIN prog'[n].kids :
                           /\ prog'[n].kids[i] \in n + 1..Len(prog')
                           /\ prog'[prog'[n].kids[i]].up = n
    BY DEF TreeShape
  <2>1. \A m \in DOMAIN prog :
          /\ m # 1 => prog[m].up \in 1..m - 1
          /\ \A i \in DOMAIN prog[m].kids :
               prog[m].kids[i] \in m + 1..Len(prog) /\ prog[prog[m].kids[i]].up = m
    BY DEF ParseInv, TreeShape
  \* What was a child still is one.
  <2>2. ASSUME NEW m \in DOMAIN prog, NEW i \in DOMAIN prog[m].kids
        PROVE  prog[m].kids[i] \in m + 1..Len(prog') /\ prog'[prog[m].kids[i]].up = m
    <3> DEFINE k == prog[m].kids[i]
    <3>1. k \in m + 1..Len(prog) /\ prog[k].up = m
      BY <2>1
    <3>2. m \in Nat /\ m >= 1 /\ Len(prog) \in Nat /\ Len(prog') = Len(prog) + 1
      BY <1>1, <1>2
    <3> HIDE DEF k
    <3>3. k \in m + 1..Len(prog') /\ k \in 1..Len(prog)
      BY <3>1, <3>2
    <3>4. prog'[k].up = prog[k].up
      BY <3>3, <1>1, <1>2
    <3>5. k \in m + 1..Len(prog') /\ prog'[k].up = m
      BY <3>1, <3>3, <3>4
    <3> QED
      BY <3>5 DEF k
  <2>3. CASE n = New
    BY <2>3, <1>1, <1>2
  <2>4. CASE n \in DOMAIN prog /\ n # h
    <3>1. prog'[n].up = prog[n].up /\ prog'[n].kids = prog[n].kids
      BY <2>4, <1>1
    <3> QED
      BY <2>1, <2>2, <2>4, <3>1
  <2>5. CASE n = h
    <3>1. n # 1 => prog'[n].up \in 1..n - 1
      <4>1. n \in DOMAIN prog /\ prog'[n].up = prog[n].up
        BY <2>5, <1>1
      <4> QED
        BY <4>1, <2>1
    <3>2. prog[h].kids \in Seq(Nat) /\ New \in Nat
      <4>1. prog[h] \in NodeType
        BY <1>1, <1>2
      <4>2. prog[h].kids \in Seq(Nat)
        BY <4>1 DEF NodeType
      <4> QED
        BY <4>2, <1>2
    <3>3. ASSUME NEW i \in DOMAIN prog'[h].kids
          PROVE  \/ i \in DOMAIN prog[h].kids /\ prog'[h].kids[i] = prog[h].kids[i]
                 \/ prog'[h].kids[i] = New
      <4> DEFINE old == prog[h].kids
                 new == prog'[h].kids
      <4>1. new = Append(old, New)
        BY <1>1
      <4>2. old \in Seq(Nat) /\ New \in Nat /\ i \in DOMAIN new
        BY <3>2
      <4> HIDE DEF old, new
      <4>3. \/ i \in DOMAIN old /\ new[i] = old[i]
            \/ new[i] = New
        BY <4>1, <4>2
      <4> QED
        BY <4>3 DEF old, new
    <3>4. New \in h + 1..Len(prog') /\ prog'[New].up = h
      BY <1>1, <1>2
    <3>5. ASSUME NEW i \in DOMAIN prog'[h].kids
          PROVE  /\ prog'[h].kids[i] \in h + 1..Len(prog')
                 /\ prog'[prog'[h].kids[i]].up = h
      <4>1. CASE prog'[h].kids[i] = New
        BY <4>1, <3>4
      <4>2. CASE i \in DOMAIN prog[h].kids /\ prog'[h].kids[i] = prog[h].kids[i]
        <5>1. h \in DOMAIN prog
          BY <1>1
        <5> HIDE DEF h
        <5> QED
          BY <4>2, <5>1, <2>2
      <4> QED
        BY <4>1, <4>2, <3>3
    <3> HIDE DEF h
    <3> QED
      BY <3>1, <3>5, <2>5
  <2> QED
    BY <2>3, <2>4, <2>5, <1>2
<1>9. LabelsOK'
  <2> SUFFICES ASSUME NEW l \in LabelNames, labels[l] # 0
               PROVE  /\ labels[l] \in DOMAIN prog'
                      /\ prog'[labels[l]].kind = "Label"
                      /\ prog'[labels[l]].name = l
    BY <1>3 DEF LabelsOK
  <2>1. /\ labels[l] \in DOMAIN prog
        /\ prog[labels[l]].kind = "Label" /\ prog[labels[l]].name = l
    BY DEF ParseInv, LabelsOK
  <2>2. labels[l] \in DOMAIN prog'
    BY <2>1, <1>2
  <2> QED
    BY <2>1, <2>2, <1>1
<1>10. GotosOK'
  <2> SUFFICES ASSUME NEW n \in DOMAIN prog', prog'[n].kind = "Goto"
               PROVE  /\ prog'[n].name \in LabelNames
                      /\ \E i \in DOMAIN gotos' : gotos'[i] = n
    BY DEF GotosOK
  <2>1. CASE n = New
    <3>1. gotos' = Append(gotos, New) /\ extra.name \in LabelNames
      BY <2>1, <1>1
    <3>2. gotos'[Len(gotos) + 1] = New /\ Len(gotos) + 1 \in DOMAIN gotos'
      BY <3>1, <1>5
    <3> QED
      BY <3>1, <3>2, <2>1, <1>1
  <2>2. CASE n \in DOMAIN prog
    <3>1. PICK i \in DOMAIN gotos : gotos[i] = n
      BY <2>2, <1>1 DEF ParseInv, GotosOK
    <3>2. i \in DOMAIN gotos' /\ gotos'[i] = n
      <4>1. CASE gotos' = gotos
        BY <4>1, <3>1
      <4>2. CASE gotos' = Append(gotos, New)
        BY <4>2, <3>1, <1>5, <1>2
      <4> QED
        BY <4>1, <4>2
    <3>3. prog'[n].name \in LabelNames
      BY <2>2, <1>1 DEF ParseInv, GotosOK
    <3> QED
      BY <3>2, <3>3
  <2> QED
    BY <2>1, <2>2, <1>2
<1>11. GotosResolved'
  BY <1>3 DEF GotosResolved
<1>12. prog' # <<>>
  BY <1>2
<1> QED
  BY <1>6, <1>7, <1>8, <1>9, <1>10, <1>11, <1>12 DEF ParseInv

LEMMA BodyFacts ==
  /\ Body \in NodeType /\ Body.kids = <<>>
  /\ \A f \in SUBSET {"init", "cond", "inc", "value"} :
       [Body EXCEPT !.form = f] \in NodeType /\ [Body EXCEPT !.form = f].kids = <<>>
  /\ \A l \in LabelNames :
       /\ [Body EXCEPT !.name = l] \in NodeType
       /\ [Body EXCEPT !.name = l].kids = <<>> /\ [Body EXCEPT !.name = l].name = l
  /\ \A c \in Nat :
       [Body EXCEPT !.num = c] \in NodeType /\ [Body EXCEPT !.num = c].kids = <<>>
<1>1. Body \in NodeType /\ Body.kids = <<>>
  BY DEF Body, NodeType, StmtKind, Loops
<1>2. ASSUME NEW f \in SUBSET {"init", "cond", "inc", "value"}
      PROVE  [Body EXCEPT !.form = f] \in NodeType /\ [Body EXCEPT !.form = f].kids = <<>>
  BY <1>1 DEF NodeType
<1>3. ASSUME NEW l \in LabelNames
      PROVE  /\ [Body EXCEPT !.name = l] \in NodeType
             /\ [Body EXCEPT !.name = l].kids = <<>> /\ [Body EXCEPT !.name = l].name = l
  BY <1>1 DEF NodeType
<1>4. ASSUME NEW c \in Nat
      PROVE  [Body EXCEPT !.num = c] \in NodeType /\ [Body EXCEPT !.num = c].kids = <<>>
  BY <1>1 DEF NodeType
<1> QED
  BY <1>1, <1>2, <1>3, <1>4

LEMMA LeastIsNat == ASSUME NEW kind PROVE Least(kind) \in 0..3
BY DEF Least

LEMMA InitKids == ParseInit => KidsInv
<1> SUFFICES ASSUME ParseInit PROVE KidsInv
  OBVIOUS
<1>1. /\ prog = <<Body>> /\ open = <<Expect("items", 1)>> /\ parsed = "no"
  BY DEF ParseInit
<1>2. Body.kind = "Compound" /\ Body.kids = <<>>
  BY DEF Body
<1>3. Expect("items", 1).what = "items" /\ Expect("items", 1).n = 1
  BY DEF Expect
<1>4. DOMAIN open = {1} /\ Len(open) = 1 /\ open[1].what = "items" /\ open[1].n = 1
  BY <1>1, <1>3
<1>5. prog[1].kind = "Compound" /\ DOMAIN prog = {1} /\ prog # <<>>
  BY <1>1, <1>2
<1>6. Least("Compound") = 0 /\ Len(prog[1].kids) = 0
  BY <1>1, <1>2 DEF Least
<1>7. Slots([i \in {1} |-> 1], open, prog)
  BY <1>4, <1>5, <1>6 DEF Slots, Takes, Child
<1> QED
  BY <1>1, <1>4, <1>5, <1>7 DEF KidsInv

\* The stack once the head was taken and next put on it.
LEMMA OpenAfter ==
  ASSUME ParseInv, open # <<>>, NEW next \in Seq(Expectation), open' = next \o rest
  PROVE  LET taken == IF Head(open).what = "items" THEN 0 ELSE 1
             by == Len(next) - taken
         IN /\ open \in Seq(Expectation) /\ Len(open) \in Nat \ {0} /\ Head(open) = open[1]
            /\ Len(open') = Len(open) + by /\ open' \in Seq(Expectation)
            /\ \A i \in 1..Len(next) : open'[i] = next[i]
            /\ \A i \in taken + 1..Len(open) : open'[i + by] = open[i]
            /\ \A i \in 1..Len(open') : i > Len(next) =>
                 i - by \in taken + 1..Len(open) /\ open'[i] = open[i - by]
<1> DEFINE taken == IF Head(open).what = "items" THEN 0 ELSE 1
           by == Len(next) - taken
<1>1. open \in Seq(Expectation) /\ Len(open) \in Nat \ {0} /\ Head(open) = open[1]
  BY DEF ParseInv, ParseTypeOK
<1>2. /\ rest \in Seq(Expectation) /\ Len(rest) = Len(open) - taken
      /\ \A i \in 1..Len(rest) : rest[i] = open[i + taken]
  BY <1>1 DEF rest
<1>3. Len(next) \in Nat /\ taken \in {0, 1} /\ by = Len(next) - taken
  OBVIOUS
<1> HIDE DEF taken, by
<1>4. /\ open' \in Seq(Expectation) /\ Len(open') = Len(next) + Len(rest)
      /\ \A i \in 1..Len(next) : open'[i] = next[i]
      /\ \A i \in 1..Len(open') : i > Len(next) => open'[i] = rest[i - Len(next)]
  BY <1>2
<1>5. ASSUME NEW i \in 1..Len(open'), i > Len(next)
      PROVE  i - by \in taken + 1..Len(open) /\ open'[i] = open[i - by]
  <2> DEFINE j == i - Len(next)
  <2>1. j \in 1..Len(rest) /\ j + taken = i - by /\ j + taken \in taken + 1..Len(open)
    BY <1>1, <1>2, <1>3, <1>4, <1>5
  <2>2. rest[j] = open[j + taken] /\ open'[i] = rest[j]
    BY <1>2, <1>4, <1>5, <2>1
  <2> HIDE DEF j
  <2> QED
    BY <2>1, <2>2
<1>6. ASSUME NEW i \in taken + 1..Len(open)
      PROVE  open'[i + by] = open[i]
  <2> DEFINE j == i + by
  <2>1. j \in 1..Len(open') /\ j > Len(next) /\ j - by = i
    BY <1>1, <1>2, <1>3, <1>4
  <2> HIDE DEF j
  <2>2. open'[j] = open[j - by]
    BY <1>5, <2>1
  <2> QED
    BY <2>1, <2>2 DEF j
<1> QED
  BY <1>1, <1>2, <1>3, <1>4, <1>5, <1>6, SMTT(60) DEF taken, by

LEMMA NodeKids ==
  ASSUME ParseInv, KidsInv, parsed = "no", open # <<>>,
         Child(Head(open)) \/ Head(open).what = "items",
         NEW kind \in StmtKind \cup ExprKind, NEW next, NEW extra \in NodeType,
         extra.kids = <<>>, NextOK(kind, next, extra), Node(kind, next, extra)
  PROVE  KidsInv'
<1> DEFINE h == Head(open).n
           taken == IF Head(open).what = "items" THEN 0 ELSE 1
           by == Len(next) - taken
<1>1. /\ next \in Seq(Expectation) /\ open' = next \o rest /\ parsed' = "no"
      /\ \A i \in DOMAIN next : next[i].n = New
      /\ Fits(kind, next)
  BY DEF NextOK, Node
<1>2. /\ open \in Seq(Expectation) /\ Len(open) \in Nat \ {0} /\ Head(open) = open[1]
      /\ Len(open') = Len(open) + by /\ open' \in Seq(Expectation)
      /\ \A i \in 1..Len(next) : open'[i] = next[i]
      /\ \A i \in taken + 1..Len(open) : open'[i + by] = open[i]
      /\ \A i \in 1..Len(open') : i > Len(next) =>
           i - by \in taken + 1..Len(open) /\ open'[i] = open[i - by]
  BY <1>1, OpenAfter
<1>3. /\ prog' \in Seq(NodeType) /\ Len(prog') = New /\ h \in DOMAIN prog
      /\ \A n \in DOMAIN prog : /\ prog'[n].kind = prog[n].kind
                                /\ n # h => prog'[n].kids = prog[n].kids
      /\ prog'[h].kids = Append(prog[h].kids, New)
      /\ prog'[New].kind = kind /\ prog'[New].kids = <<>>
  BY NodeTree DEF ParseInv
<1>4. /\ prog \in Seq(NodeType) /\ Len(prog) \in Nat \ {0} /\ DOMAIN prog = 1..Len(prog)
      /\ New \in Nat /\ DOMAIN prog' = DOMAIN prog \cup {New} /\ New \notin DOMAIN prog
      /\ New # 1
  BY <1>3 DEF ParseInv, ParseTypeOK, New
<1>5. \A n \in DOMAIN prog : prog[n].kids \in Seq(Nat) /\ Len(prog[n].kids) \in Nat
  <2> SUFFICES ASSUME NEW n \in DOMAIN prog
               PROVE  prog[n].kids \in Seq(Nat) /\ Len(prog[n].kids) \in Nat
    OBVIOUS
  <2>1. prog[n] \in NodeType
    BY <1>4
  <2>2. prog[n].kids \in Seq(Nat)
    BY <2>1 DEF NodeType
  <2> QED
    BY <2>2
<1>6. Len(prog'[h].kids) = Len(prog[h].kids) + 1
  BY <1>3, <1>4, <1>5
<1>7. /\ Len(next) \in Nat /\ taken \in {0, 1} /\ by = Len(next) - taken /\ h = open[1].n
      /\ taken = 1 => Child(open[1])
      /\ taken = 0 => open[1].what = "items"
  BY <1>1, <1>2
<1> HIDE DEF h, taken, by
<1>8. PICK slot : Slots(slot, open, prog)
  BY DEF KidsInv
<1>9. \A i \in DOMAIN open : open[i].n \in DOMAIN prog
  BY DEF ParseInv, OpenOK
<1>10. DOMAIN open = 1..Len(open)
  BY <1>2
<1>k. \A i \in taken + 1..Len(open) : i \in DOMAIN open
  BY <1>2, <1>7, <1>10
<1>m. \A i \in 1..Len(open') : i > Len(next) =>
        i - by \in taken + 1..Len(open) /\ open'[i] = open[i - by]
  BY <1>2
<1>n. \A i \in 1..Len(open') : i > Len(next) =>
        i - by \in DOMAIN open /\ open'[i] = open[i - by]
  BY <1>k, <1>m
\* No other expectation is for the child that was taken.
<1>11. ASSUME NEW j \in taken + 1..Len(open), Takes(open[j])
       PROVE  slot[j] \in Nat /\ slot[j] > Len(prog'[open[j].n].kids)
  <2>1. j \in DOMAIN open /\ 1 \in DOMAIN open
    BY <1>2, <1>7, <1>10
  <2>2. slot[j] \in Nat /\ slot[j] > Len(prog[open[j].n].kids)
    BY <1>11, <1>8, <2>1 DEF Slots
  <2>3. CASE open[j].n # h
    BY <1>3, <1>9, <2>1, <2>2, <2>3
  <2>4. CASE open[j].n = h /\ taken = 1
    <3>1. 1 < j /\ Takes(open[1]) /\ open[1].n = open[j].n
      BY <1>7, <2>4 DEF Takes
    <3>2. slot[1] \in Nat /\ slot[1] > Len(prog[h].kids) /\ slot[1] < slot[j]
      BY <1>7, <1>8, <1>11, <2>1, <3>1 DEF Slots
    <3>3. slot[j] > Len(prog'[h].kids)
      BY <1>5, <1>6, <2>2, <3>2, <1>3
    <3> QED
      BY <2>2, <2>4, <3>3
  <2>5. CASE open[j].n = h /\ taken = 0
    <3>1. prog[h].kind = "Compound"
      BY <1>7, <2>1, <2>5 DEF KidsInv
    <3>2. open[j].what = "items"
      BY <2>1, <2>5, <3>1 DEF KidsInv
    <3> QED
      BY <1>11, <3>2 DEF Takes, Child
  <2> QED
    BY <1>7, <2>3, <2>4, <2>5
<1>12. ASSUME NEW n \in DOMAIN prog, NEW k \in Nat,
              Len(prog'[n].kids) < k, k <= Least(prog[n].kind)
       PROVE  \E j \in taken + 1..Len(open) : Child(open[j]) /\ open[j].n = n /\ slot[j] = k
  <2>1. CASE n # h
    <3>1. PICK i \in DOMAIN open : Child(open[i]) /\ open[i].n = n /\ slot[i] = k
      BY <1>3, <1>8, <1>12, <2>1 DEF Slots
    <3>2. i # 1
      BY <1>7, <2>1, <3>1
    <3> QED
      BY <1>7, <1>10, <3>1, <3>2
  <2>2. CASE n = h /\ taken = 0
    <3>1. prog[h].kind = "Compound"
      BY <1>2, <1>7, <1>10, <2>2 DEF KidsInv
    <3>2. Least(prog[n].kind) = 0
      BY <2>2, <3>1 DEF Least
    <3>3. Len(prog'[n].kids) \in Nat
      BY <1>5, <1>6, <2>2
    <3> QED
      BY <1>12, <3>2, <3>3
  <2>3. CASE n = h /\ taken = 1
    <3> DEFINE l == Len(prog[h].kids)
    <3>1. l \in Nat /\ l + 1 < k /\ Least(prog[h].kind) \in Nat /\ k <= Least(prog[h].kind)
      BY <1>5, <1>6, <1>12, <2>3, LeastIsNat
    <3>2. PICK i \in DOMAIN open : Child(open[i]) /\ open[i].n = h /\ slot[i] = k
      BY <1>3, <1>8, <3>1 DEF Slots
    <3> DEFINE first == l + 1
    <3>a. first \in Nat /\ l < first /\ first <= Least(prog[h].kind)
      BY <3>1
    <3> HIDE DEF first
    <3>b. PICK m \in DOMAIN open : Child(open[m]) /\ open[m].n = h /\ slot[m] = first
      BY <1>3, <1>8, <3>a DEF Slots
    <3>3. Child(open[m]) /\ open[m].n = h /\ slot[m] = l + 1
      BY <3>b DEF first
    <3>4. i # 1
      <4> SUFFICES ASSUME i = 1 PROVE FALSE
        OBVIOUS
      <4>1. slot[1] = k /\ m # 1
        BY <3>1, <3>2, <3>3
      <4>2. 1 < m /\ 1 \in DOMAIN open /\ Takes(open[1]) /\ Takes(open[m]) /\ open[1].n = open[m].n
        BY <1>2, <1>10, <3>2, <3>3, <4>1 DEF Takes
      <4>3. slot[1] < slot[m]
        BY <1>8, <4>2 DEF Slots
      <4> QED
        BY <3>1, <3>3, <4>1, <4>3
    <3> QED
      BY <1>10, <2>3, <3>2, <3>4
  <2> QED
    BY <1>7, <2>1, <2>2, <2>3
<1> DEFINE s == [i \in 1..Len(open') |-> IF i <= Len(next) THEN i ELSE slot[i - by]]
<1>13. DOMAIN open' = 1..Len(open') /\ Len(open') \in Nat /\ by \in Int
  BY <1>2, <1>7
<1>14. ASSUME NEW i \in 1..Len(open'), Takes(open'[i])
       PROVE  s[i] \in Nat /\ s[i] > Len(prog'[open'[i].n].kids)
  <2>1. CASE i <= Len(next)
    <3>1. open'[i].n = New /\ s[i] = i
      BY <1>1, <1>2, <2>1
    <3> QED
      BY <1>3, <3>1
  <2>2. CASE i > Len(next)
    <3>1. i - by \in taken + 1..Len(open) /\ open'[i] = open[i - by] /\ s[i] = slot[i - by]
      BY <1>2, <1>7, <2>2
    <3> QED
      BY <1>11, <1>14, <3>1
  <2> QED
    BY <1>7, <2>1, <2>2
<1>15. ASSUME NEW i \in 1..Len(open'), NEW j \in 1..Len(open'), i < j,
              Takes(open'[i]), Takes(open'[j]), open'[i].n = open'[j].n
       PROVE  s[i] < s[j]
  <2>1. CASE j <= Len(next)
    BY <1>7, <1>15, <2>1
  <2>2. CASE i <= Len(next) /\ j > Len(next)
    <3>1. open'[i].n = New
      BY <1>1, <1>2, <2>2
    <3>2. j - by \in DOMAIN open /\ open'[j] = open[j - by]
      BY <1>n, <2>2
    <3> QED
      BY <1>4, <1>9, <1>15, <3>1, <3>2
  <2>3. CASE i > Len(next)
    <3> DEFINE a == i - by
               b == j - by
    <3>1. /\ a \in taken + 1..Len(open) /\ open'[i] = open[a] /\ s[i] = slot[a]
          /\ b \in taken + 1..Len(open) /\ open'[j] = open[b] /\ s[j] = slot[b]
      BY <1>2, <1>7, <1>15, <2>3
    <3>2. a < b
      BY <1>13, <1>15
    <3> HIDE DEF a, b
    <3>3. a \in DOMAIN open /\ b \in DOMAIN open
      BY <1>7, <1>10, <3>1
    <3> QED
      BY <1>8, <1>15, <3>1, <3>2, <3>3 DEF Slots
  <2> QED
    BY <1>7, <1>15, <2>1, <2>2, <2>3
<1>16. ASSUME NEW n \in DOMAIN prog', NEW k \in Nat,
              Len(prog'[n].kids) < k, k <= Least(prog'[n].kind)
       PROVE  \E i \in DOMAIN open' : Child(open'[i]) /\ open'[i].n = n /\ s[i] = k
  <2>1. CASE n = New
    <3>a. 0 < k /\ k <= Least(kind)
      BY <1>3, <1>16, <2>1
    <3>b. Least(kind) \in Nat /\ Least(kind) <= Len(next)
      BY <1>1, LeastIsNat DEF Fits
    <3>1. k \in 1..Len(next) /\ k \in 1..Least(kind)
      BY <1>7, <3>a, <3>b
    <3>2. k \in DOMAIN open' /\ open'[k] = next[k] /\ s[k] = k
      BY <1>2, <1>7, <1>13, <3>1
    <3> QED
      BY <1>1, <2>1, <3>1, <3>2 DEF Fits
  <2>2. CASE n # New
    <3>1. n \in DOMAIN prog /\ prog'[n].kind = prog[n].kind
      BY <1>3, <1>4, <2>2
    <3>2. PICK j \in taken + 1..Len(open) : Child(open[j]) /\ open[j].n = n /\ slot[j] = k
      BY <1>12, <1>16, <3>1
    <3> DEFINE i == j + by
    <3>3. i \in 1..Len(open') /\ i > Len(next) /\ i - by = j
      BY <1>2, <1>7
    <3>4. open'[i] = open[j] /\ s[i] = slot[j]
      BY <1>2, <1>7, <3>3
    <3> QED
      BY <1>13, <3>2, <3>3, <3>4
  <2> QED
    BY <2>1, <2>2
<1>17. Slots(s, open', prog')
  BY <1>13, <1>14, <1>15, <1>16 DEF Slots
<1>18. ASSUME NEW i \in DOMAIN open'
       PROVE  /\ open'[i].n = 1 => i = Len(open')
              /\ (open'[i].what = "items") <=> (prog'[open'[i].n].kind = "Compound")
  <2>1. CASE i <= Len(next)
    <3>1. i \in DOMAIN next /\ i \in 1..Len(next) /\ open'[i] = next[i] /\ next[i].n = New
      BY <1>1, <1>2, <1>7, <1>13, <2>1
    <3> QED
      BY <1>1, <1>3, <1>4, <3>1 DEF Fits
  <2>2. CASE i > Len(next)
    <3> DEFINE a == i - by
    <3>1. a \in DOMAIN open /\ open'[i] = open[a]
      BY <1>n, <1>13, <2>2
    <3>2. /\ open[a].n = 1 => a = Len(open)
          /\ (open[a].what = "items") <=> (prog[open[a].n].kind = "Compound")
      BY <3>1 DEF KidsInv
    <3>3. a = Len(open) => i = Len(open')
      BY <1>2, <1>7, <1>13
    <3>4. prog'[open[a].n].kind = prog[open[a].n].kind
      BY <1>3, <1>9, <3>1
    <3> QED
      BY <3>1, <3>2, <3>3, <3>4
  <2> QED
    BY <1>7, <1>13, <2>1, <2>2
<1>19. prog' # <<>> /\ prog'[1].kind = "Compound"
  BY <1>3, <1>4 DEF KidsInv
<1> QED
  BY <1>1, <1>17, <1>18, <1>19 DEF KidsInv

\* A step that takes from the stack what is not expected to be a child.
LEMMA DropKids ==
  ASSUME ParseInv, KidsInv, parsed = "no", open # <<>>, ~Child(Head(open)),
         open' = Tail(open), UNCHANGED <<prog, parsed>>
  PROVE  KidsInv'
<1>1. /\ open \in Seq(Expectation) /\ DOMAIN open = 1..Len(open) /\ Len(open) \in Nat \ {0}
      /\ open[1] = Head(open)
  BY DEF ParseInv, ParseTypeOK
<1>2. /\ open' \in Seq(Expectation) /\ Len(open') = Len(open) - 1
      /\ DOMAIN open' = 1..Len(open) - 1
      /\ \A i \in DOMAIN open' : i + 1 \in DOMAIN open /\ open'[i] = open[i + 1]
  BY <1>1
<1>3. PICK slot : Slots(slot, open, prog)
  BY DEF KidsInv
<1> DEFINE s == [i \in 1..Len(open) - 1 |-> slot[i + 1]]
<1>4. ASSUME NEW i \in DOMAIN open', Takes(open'[i])
      PROVE  s[i] \in Nat /\ s[i] > Len(prog[open'[i].n].kids)
  BY <1>2, <1>3, <1>4 DEF Slots
<1>5. ASSUME NEW i \in DOMAIN open', NEW j \in DOMAIN open', i < j,
             Takes(open'[i]), Takes(open'[j]), open'[i].n = open'[j].n
      PROVE  s[i] < s[j]
  <2> DEFINE a == i + 1
             b == j + 1
  <2>1. /\ a \in DOMAIN open /\ open'[i] = open[a] /\ s[i] = slot[a]
        /\ b \in DOMAIN open /\ open'[j] = open[b] /\ s[j] = slot[b] /\ a < b
    BY <1>1, <1>2, <1>5
  <2> HIDE DEF a, b, s
  <2> QED
    BY <1>3, <1>5, <2>1 DEF Slots
<1>6. ASSUME NEW n \in DOMAIN prog, NEW k \in Nat,
             Len(prog[n].kids) < k, k <= Least(prog[n].kind)
      PROVE  \E i \in DOMAIN open' : Child(open'[i]) /\ open'[i].n = n /\ s[i] = k
  <2>1. PICK j \in DOMAIN open : Child(open[j]) /\ open[j].n = n /\ slot[j] = k
    BY <1>3, <1>6 DEF Slots
  <2>2. j # 1
    BY <1>1, <2>1
  <2> DEFINE i == j - 1
  <2>3. i \in DOMAIN open' /\ i + 1 = j
    BY <1>1, <1>2, <2>2
  <2>4. open'[i] = open[j] /\ s[i] = slot[j]
    BY <1>2, <2>3
  <2> HIDE DEF i, s
  <2> QED
    BY <2>1, <2>3, <2>4
<1>7. Slots(s, open', prog')
  BY <1>4, <1>5, <1>6 DEF Slots
<1> HIDE DEF s
<1>8. ASSUME NEW i \in DOMAIN open'
      PROVE  /\ open'[i].n = 1 => i = Len(open')
             /\ (open'[i].what = "items") <=> (prog'[open'[i].n].kind = "Compound")
  BY <1>1, <1>2 DEF KidsInv
<1> QED
  BY <1>7, <1>8 DEF KidsInv

\* The else branch takes the place that was kept for it.
LEMMA ElseKids ==
  ASSUME ParseInv, KidsInv, parsed = "no", open # <<>>, Head(open).what = "else",
         open' = <<Expect("stmt", Head(open).n)>> \o Tail(open), UNCHANGED <<prog, parsed>>
  PROVE  KidsInv'
<1> DEFINE x == Expect("stmt", Head(open).n)
<1>1. /\ open \in Seq(Expectation) /\ DOMAIN open = 1..Len(open) /\ Len(open) \in Nat \ {0}
      /\ open[1] = Head(open)
  BY DEF ParseInv, ParseTypeOK
<1>2. x \in Expectation /\ x.what = "stmt" /\ x.n = open[1].n
  <2>1. open[1] \in Expectation
    BY <1>1
  <2>2. open[1].n \in Nat /\ x = [what |-> "stmt", n |-> open[1].n]
    BY <1>1, <2>1 DEF Expect, Expectation
  <2> QED
    BY <2>2 DEF Expectation
<1> HIDE DEF x
<1>3. /\ Len(open') = Len(open) /\ DOMAIN open' = DOMAIN open /\ open'[1] = x
      /\ \A i \in DOMAIN open : i # 1 => open'[i] = open[i]
  <2>1. open' = <<x>> \o Tail(open)
    BY DEF x
  <2> QED
    BY <1>1, <1>2, <2>1
<1>4. PICK slot : Slots(slot, open, prog)
  BY DEF KidsInv
<1>5. \A i \in DOMAIN open : /\ open'[i].n = open[i].n
                             /\ Takes(open'[i]) <=> Takes(open[i])
                             /\ Child(open[i]) => Child(open'[i])
                             /\ (open'[i].what = "items") <=> (open[i].what = "items")
  BY <1>1, <1>2, <1>3 DEF Takes, Child
<1>6. Slots(slot, open', prog')
  <2> DEFINE s == open'
  <2> HIDE DEF s
  <2>1. /\ DOMAIN s = DOMAIN open
        /\ \A i \in DOMAIN open : /\ s[i].n = open[i].n
                                  /\ Takes(s[i]) <=> Takes(open[i])
                                  /\ Child(open[i]) => Child(s[i])
    BY <1>3, <1>5 DEF s
  <2>2. Slots(slot, s, prog)
    BY <1>4, <2>1 DEF Slots
  <2> QED
    BY <2>2 DEF s
<1> QED
  BY <1>3, <1>5, <1>6 DEF KidsInv

LEMMA FailKids == KidsInv /\ Fail => KidsInv'
BY DEF KidsInv, Fail

\* The tree is complete when nothing is expected.
LEMMA FuncDefKids ==
  ASSUME ParseInv, KidsInv, ParseFuncDef, ~Fail
  PROVE  KidsInv'
<1>1. /\ open # <<>> /\ Head(open).what \in {"items", "stmt"} /\ Head(open).n = 1
      /\ prog' = [n \in DOMAIN prog |->
                    IF Kind(n) = "Goto" THEN [prog[n] EXCEPT !.to = labels[prog[n].name]]
                    ELSE prog[n]]
      /\ open' = <<>> /\ parsed' = "yes" /\ parsed = "no"
  BY DEF ParseFuncDef, At
<1>2. /\ open \in Seq(Expectation) /\ DOMAIN open = 1..Len(open) /\ Len(open) \in Nat \ {0}
      /\ open[1] = Head(open)
  BY <1>1 DEF ParseInv, ParseTypeOK
<1>3. prog \in Seq(NodeType) /\ prog # <<>> /\ 1 \in DOMAIN prog
  BY DEF ParseInv, ParseTypeOK
<1>4. Len(open) = 1 /\ open[1].what = "items"
  BY <1>1, <1>2 DEF KidsInv
<1>5. ASSUME NEW n \in DOMAIN prog
      PROVE  prog'[n].kind = prog[n].kind /\ prog'[n].kids = prog[n].kids
  <2>1. prog[n] \in NodeType
    BY <1>3
  <2>2. prog'[n] \in {prog[n], [prog[n] EXCEPT !.to = labels[prog[n].name]]}
    BY <1>1
  <2> QED
    BY <2>1, <2>2 DEF NodeType
<1>6. DOMAIN prog' = DOMAIN prog /\ prog' # <<>>
  BY <1>1, <1>3
<1>7. PICK slot : Slots(slot, open, prog)
  BY DEF KidsInv
<1>8. Slots(slot, open', prog')
  <2>1. DOMAIN open' = {}
    BY <1>1
  <2>2. ASSUME NEW n \in DOMAIN prog, NEW k \in Nat,
               Len(prog[n].kids) < k, k <= Least(prog[n].kind)
        PROVE  FALSE
    <3>1. PICK i \in DOMAIN open : Child(open[i])
      BY <1>7, <2>2 DEF Slots
    <3> QED
      BY <1>2, <1>4, <3>1 DEF Child
  <2> QED
    BY <1>5, <1>6, <2>1, <2>2 DEF Slots
<1>9. prog'[1].kind = "Compound" /\ DOMAIN open' = {}
  BY <1>1, <1>3, <1>5 DEF KidsInv
<1> QED
  BY <1>1, <1>6, <1>8, <1>9 DEF KidsInv

LEMMA StmtInv ==
  ASSUME ParseInv, KidsInv, NEW kind \in StmtKind, kind # "Goto", NEW next,
         NEW extra \in NodeType, extra.kids = <<>>, NextOK(kind, next, extra),
         Stmt(kind, next, extra), UNCHANGED <<labels, gotos>>
  PROVE  ParseInv' /\ KidsInv'
BY NodeInv, NodeKids DEF Stmt, At, Child

LEMMA FailInv == ParseInv /\ Fail => ParseInv'
BY DEF ParseInv, Fail, ParseTypeOK, OpenOK, TreeShape, LabelsOK, GotosOK, GotosResolved

\* A step that only changes what is open.
LEMMA OpenInv ==
  ASSUME ParseInv, open' \in Seq(Expectation),
         UNCHANGED <<grammar, prog, labels, gotos, parsed>>,
         \A i \in DOMAIN open' :
           \/ \E j \in DOMAIN open : open'[i] = open[j]
           \/ open'[i].n \in DOMAIN prog /\ open'[i].what # "label"
  PROVE  ParseInv'
BY DEF ParseInv, ParseTypeOK, OpenOK, TreeShape, LabelsOK, GotosOK, GotosResolved

LEMMA ResolvedNode ==
  ASSUME NEW p \in NodeType, NEW v \in Nat
  PROVE  [p EXCEPT !.to = v] \in NodeType
BY DEF NodeType

LEMMA ParseStepInv == ParseInv /\ KidsInv /\ ParseStep => ParseInv' /\ KidsInv'
<1> SUFFICES ASSUME ParseInv, KidsInv, ParseStep PROVE ParseInv' /\ KidsInv'
  OBVIOUS
<1> USE BodyFacts
<1>g. /\ grammar.fors \subseteq SUBSET {"init", "cond", "inc"}
      /\ grammar.returns \subseteq SUBSET {"value"}
      /\ grammar.numbers \subseteq Nat /\ grammar.names \subseteq LabelNames
  BY ParseAssumption DEF ParseInv, ParseTypeOK
<1>1. /\ New \in Nat /\ open \in Seq(Expectation) /\ prog \in Seq(NodeType)
      /\ stmt \in Expectation /\ stmt.n = New /\ stmt.what = "stmt"
      /\ expr \in Expectation /\ expr.n = New /\ expr.what = "expr"
  BY DEF ParseInv, ParseTypeOK, New, stmt, expr, Expect, Expectation
<1>l. /\ \A kind \in {"Null", "Expr", "Decl", "Continue", "Break", "Compound", "Return",
                      "Goto", "Dyn", "Const", "Comma", "StmtExpr"} : Least(kind) = 0
      /\ \A kind \in {"Switch", "Case", "Default", "Label", "For", "Not"} : Least(kind) = 1
      /\ \A kind \in {"If", "While", "DoWhile", "And", "Or"} : Least(kind) = 2
      /\ Least("Cond") = 3
  BY DEF Least
<1>a. /\ NextOK("Null", <<>>, Body) /\ NextOK("Expr", <<>>, Body)
      /\ NextOK("Decl", <<>>, Body)
      /\ NextOK("Continue", <<>>, Body) /\ NextOK("Break", <<>>, Body)
  BY <1>l DEF NextOK, Fits
<1>c. Child(stmt) /\ Child(expr)
  BY <1>1 DEF Child
<1>d. /\ NextOK("Expr", <<expr>>, Body) /\ NextOK("Decl", <<expr>>, Body)
      /\ NextOK("Switch", <<stmt>>, Body)
      /\ NextOK("Case", <<stmt>>, Body) /\ NextOK("Default", <<stmt>>, Body)
  BY <1>1, <1>c, <1>l DEF NextOK, Fits
<1>e. NextOK("While", <<expr, stmt>>, Body) /\ NextOK("DoWhile", <<stmt, expr>>, Body)
  BY <1>1, <1>c, <1>l, SMTT(30) DEF NextOK, Fits
<1> DEFINE items == Expect("items", New)
           else == Expect("else", New)
           label == Expect("label", New)
<1>b. /\ items \in Expectation /\ items.n = New /\ items.what = "items"
      /\ else \in Expectation /\ else.n = New /\ else.what = "else"
      /\ label \in Expectation /\ label.n = New /\ label.what = "label"
  BY <1>1 DEF Expect, Expectation
<1> HIDE DEF items, else, label
<1>2. CASE ParseExprStmt
  BY <1>2, <1>a, <1>d, <1>e, StmtInv DEF ParseExprStmt, Plain, StmtKind
<1>3. CASE ParseDecl
  BY <1>3, <1>a, <1>d, <1>e, StmtInv DEF ParseDecl, Plain, StmtKind
<1>4. CASE ParseCompoundStmt
  <2>1. NextOK("Compound", <<items>>, Body)
    BY <1>b, <1>l DEF NextOK, Fits
  <2> QED
    BY <1>4, <2>1, StmtInv DEF ParseCompoundStmt, Plain, StmtKind, items
<1>5. CASE ParseIfStmt
  <2>1. NextOK("If", <<expr, stmt, else>>, Body)
    BY <1>1, <1>b, <1>c, <1>l DEF NextOK, Fits
  <2> QED
    BY <1>5, <2>1, StmtInv DEF ParseIfStmt, Plain, StmtKind, else
<1>6. CASE ParseSwitchStmt
  BY <1>6, <1>a, <1>d, <1>e, StmtInv DEF ParseSwitchStmt, Plain, StmtKind
<1>7. CASE ParseWhileStmt
  BY <1>7, <1>a, <1>d, <1>e, StmtInv DEF ParseWhileStmt, Plain, StmtKind, Loops
<1>8. CASE ParseDoWhileStmt
  BY <1>8, <1>a, <1>d, <1>e, StmtInv DEF ParseDoWhileStmt, Plain, StmtKind, Loops
<1>9. CASE ParseForStmt
  <2>1. PICK f \in grammar.fors :
          /\ Stmt("For", IF "cond" \in f THEN <<expr, stmt>> ELSE <<stmt>>,
                  [Body EXCEPT !.form = f])
          /\ UNCHANGED <<labels, gotos>>
    BY <1>9 DEF ParseForStmt
  <2>2. f \in SUBSET {"init", "cond", "inc", "value"}
    BY <1>g
  <2>3. NextOK("For", IF "cond" \in f THEN <<expr, stmt>> ELSE <<stmt>>,
               [Body EXCEPT !.form = f])
    BY <1>1, <1>c, <1>l DEF NextOK, Fits
  <2> QED
    BY <2>1, <2>2, <2>3, StmtInv DEF StmtKind, Loops
<1>10. CASE ParseCaseStmt
  BY <1>10, <1>a, <1>d, <1>e, StmtInv DEF ParseCaseStmt, Plain, StmtKind
<1>11. CASE ParseDefaultStmt
  BY <1>11, <1>a, <1>d, <1>e, StmtInv DEF ParseDefaultStmt, Plain, StmtKind
<1>12. CASE ParseContinueStmt
  BY <1>12, <1>a, <1>d, <1>e, StmtInv DEF ParseContinueStmt, Plain, StmtKind
<1>13. CASE ParseBreakStmt
  BY <1>13, <1>a, <1>d, <1>e, StmtInv DEF ParseBreakStmt, Plain, StmtKind
<1>14. CASE ParseReturnStmt
  <2>1. PICK f \in grammar.returns : /\ Stmt("Return", <<>>, [Body EXCEPT !.form = f])
                                 /\ UNCHANGED <<labels, gotos>>
    BY <1>14 DEF ParseReturnStmt
  <2>2. f \in SUBSET {"init", "cond", "inc", "value"}
    BY <1>g
  <2>3. NextOK("Return", <<>>, [Body EXCEPT !.form = f])
    BY <1>l DEF NextOK, Fits
  <2> QED
    BY <2>1, <2>2, <2>3, StmtInv DEF StmtKind
<1>15. CASE ParseGotoStmt
  <2>1. PICK l \in grammar.names :
          /\ Stmt("Goto", <<>>, [Body EXCEPT !.name = l])
          /\ gotos' = Append(gotos, New)
          /\ UNCHANGED labels
    BY <1>15 DEF ParseGotoStmt
  <2>a. l \in LabelNames
    BY <2>1, <1>g
  <2>2. NextOK("Goto", <<>>, [Body EXCEPT !.name = l])
    BY <1>l DEF NextOK, Fits
  <2> QED
    BY <2>a, <2>1, <2>2, NodeInv, NodeKids DEF StmtKind, Stmt, At, Child
<1>16. CASE ParseLabelStmt
  <2>1. PICK l \in grammar.names :
          \/ /\ Stmt("Label", <<stmt, label>>, [Body EXCEPT !.name = l])
             /\ UNCHANGED <<labels, gotos>>
          \/ Fail
    BY <1>16 DEF ParseLabelStmt, label
  <2>a. l \in LabelNames
    BY <2>1, <1>g
  <2>2. NextOK("Label", <<stmt, label>>, [Body EXCEPT !.name = l])
    BY <2>a, <1>1, <1>b, <1>c, <1>l DEF NextOK, Fits
  <2> QED
    BY <2>a, <2>1, <2>2, StmtInv, FailInv, FailKids DEF StmtKind
<1>17. CASE RegisterLabel
  <2> DEFINE m == Head(open).n
  <2>1. /\ open # <<>> /\ Head(open).what = "label" /\ parsed = "no"
        /\ labels' = [labels EXCEPT ![prog[m].name] = m]
        /\ open' = Tail(open) /\ UNCHANGED <<grammar, prog, gotos, parsed>>
    BY <1>17 DEF RegisterLabel, At
  <2>2. m \in DOMAIN prog /\ m \in Nat /\ prog[m].kind = "Label" /\ prog[m].name \in LabelNames
    BY <2>1, <1>1 DEF ParseInv, OpenOK
  <2>3. open' \in Seq(Expectation) /\ \A i \in DOMAIN open' : open'[i] = open[i + 1] /\ i + 1 \in DOMAIN open
    BY <2>1, <1>1
  <2>4. labels' \in [LabelNames -> Nat] /\ labels'[prog[m].name] = m
        /\ \A l \in LabelNames : l # prog[m].name => labels'[l] = labels[l]
    BY <2>1, <2>2 DEF ParseInv, ParseTypeOK
  <2> HIDE DEF m
  <2>5. KidsInv'
    BY <2>1, DropKids DEF Child
  <2>6. ParseTypeOK'
    BY <2>1, <2>3, <2>4 DEF ParseInv, ParseTypeOK
  <2>7. OpenOK'
    BY <2>1, <2>3 DEF ParseInv, OpenOK
  <2>8. LabelsOK'
    BY <2>1, <2>2, <2>4 DEF ParseInv, LabelsOK
  <2> QED
    BY <2>1, <2>6, <2>7, <2>8, <2>5 DEF ParseInv, TreeShape, GotosOK, GotosResolved
<1>18. CASE ParseElse
  <2> DEFINE next == open'
  <2>1. /\ open # <<>> /\ Head(open).what = "else" /\ rest = Tail(open)
        /\ UNCHANGED <<grammar, prog, labels, gotos, parsed>>
        /\ \/ open' = <<>> \o rest
           \/ open' = <<Expect("stmt", Head(open).n)>> \o rest
    BY <1>18 DEF ParseElse, At, rest
  <2>2. /\ Expect("stmt", Head(open).n) \in Expectation
        /\ Head(open).n \in DOMAIN prog /\ Expect("stmt", Head(open).n).n = Head(open).n
        /\ Expect("stmt", Head(open).n).what = "stmt"
    BY <2>1, <1>1 DEF Expect, Expectation, ParseInv, OpenOK
  <2>3. \E nx \in {<<>>, <<Expect("stmt", Head(open).n)>>} : nx \in Seq(Expectation) /\ open' = nx \o rest
    BY <2>1, <2>2
  <2>4. PICK nx \in {<<>>, <<Expect("stmt", Head(open).n)>>} : nx \in Seq(Expectation) /\ open' = nx \o rest
    BY <2>3
  <2>5. /\ open' \in Seq(Expectation)
        /\ \A i \in DOMAIN open' : \/ \E j \in DOMAIN nx : open'[i] = nx[j]
                                  \/ \E j \in DOMAIN open : open'[i] = open[j]
    BY <2>4, <2>1, OpenStep
  <2>6. \A j \in DOMAIN nx : nx[j] = Expect("stmt", Head(open).n)
    BY <2>4
  <2>7. KidsInv'
    <3>1. parsed = "no" /\ ~Child(Head(open)) /\ UNCHANGED <<prog, parsed>>
      BY <1>18, <2>1 DEF ParseElse, At, Child
    <3>2. open' = Tail(open) \/ open' = <<Expect("stmt", Head(open).n)>> \o Tail(open)
      <4>1. <<>> \o Tail(open) = Tail(open)
        BY <2>1, <1>1
      <4> QED
        BY <2>1, <4>1
    <3> QED
      BY <2>1, <3>1, <3>2, DropKids, ElseKids
  <2> QED
    BY <2>1, <2>2, <2>5, <2>6, <2>7, OpenInv
<1>19. CASE CloseBlock
  <2>1. open # <<>> /\ open' = Tail(open) /\ UNCHANGED <<grammar, prog, labels, gotos, parsed>>
    BY <1>19 DEF CloseBlock, At
  <2>2. /\ open' \in Seq(Expectation)
        /\ \A i \in DOMAIN open' : open'[i] = open[i + 1] /\ i + 1 \in DOMAIN open
    BY <2>1, <1>1
  <2>3. parsed = "no" /\ ~Child(Head(open))
    <3>1. parsed = "no" /\ Head(open).n # 1 /\ Head(open).what \in {"items"}
      BY <1>19 DEF CloseBlock, At
    <3> QED
      BY <3>1 DEF Child
  <2>4. KidsInv'
    BY <2>1, <2>3, DropKids
  <2> QED
    BY <2>1, <2>2, <2>4, OpenInv
<1>20. CASE ParseFuncDef
  <2>1. parsed = "no"
    BY <1>20 DEF ParseFuncDef, At
  <2>2. CASE Fail
    BY <2>2, FailInv, FailKids
  <2>3. CASE ~Fail
    <3> DEFINE resolved(n) == IF Kind(n) = "Goto"
                              THEN [prog[n] EXCEPT !.to = labels[prog[n].name]]
                              ELSE prog[n]
    <3>1. /\ \A i \in DOMAIN gotos : labels[prog[gotos[i]].name] # 0
          /\ prog' = [n \in DOMAIN prog |-> resolved(n)]
          /\ open' = <<>> /\ labels' = [l \in LabelNames |-> 0]
          /\ gotos' = <<>> /\ parsed' = "yes" /\ grammar' = grammar
      BY <1>20, <2>3 DEF ParseFuncDef
    <3>2. DOMAIN prog' = DOMAIN prog /\ DOMAIN prog = 1..Len(prog) /\ Len(prog) \in Nat
      BY <3>1, <1>1
    <3>3. ASSUME NEW n \in DOMAIN prog
          PROVE  /\ prog'[n] \in NodeType
                 /\ prog'[n].kind = prog[n].kind /\ prog'[n].name = prog[n].name
                 /\ prog'[n].up = prog[n].up /\ prog'[n].kids = prog[n].kids
                 /\ prog[n].kind = "Goto" => prog'[n].to = labels[prog[n].name]
      <4>1. prog'[n] = resolved(n) /\ prog[n] \in NodeType /\ Kind(n) = prog[n].kind
        BY <3>1, <1>1 DEF Kind
      <4>2. CASE prog[n].kind = "Goto"
        <5>1. labels[prog[n].name] \in Nat
          BY <4>2, <2>1 DEF ParseInv, GotosOK, ParseTypeOK
        <5>2. prog'[n] = [prog[n] EXCEPT !.to = labels[prog[n].name]]
          BY <4>1, <4>2
        <5>3. prog'[n] \in NodeType
          BY <5>1, <5>2, <4>1, ResolvedNode
        <5>4. /\ prog'[n].kind = prog[n].kind /\ prog'[n].name = prog[n].name
              /\ prog'[n].up = prog[n].up /\ prog'[n].kids = prog[n].kids
              /\ prog'[n].to = labels[prog[n].name]
          <6>1. prog[n] = [kind |-> prog[n].kind, up |-> prog[n].up,
                           kids |-> prog[n].kids, name |-> prog[n].name,
                           to |-> prog[n].to, num |-> prog[n].num,
                           form |-> prog[n].form]
            BY <4>1 DEF NodeType
          <6> QED
            BY <5>2, <6>1
        <5> QED
          BY <5>3, <5>4
      <4>3. CASE prog[n].kind # "Goto"
        BY <4>1, <4>3
      <4> QED
        BY <4>2, <4>3
    <3> HIDE DEF resolved
    <3>4. prog' \in Seq(NodeType) /\ Len(prog') = Len(prog)
      <4>1. prog' = [n \in 1..Len(prog) |-> prog'[n]]
        BY <3>1, <3>2
      <4>2. prog' \in [1..Len(prog) -> NodeType]
        BY <4>1, <3>2, <3>3
      <4> QED
        BY <4>2, <3>2
    <3>5. ParseTypeOK'
      BY <3>1, <3>4 DEF ParseTypeOK, ParseInv
    <3>6. OpenOK' /\ LabelsOK' /\ GotosOK'
      BY <3>1 DEF OpenOK, LabelsOK, GotosOK
    <3>7. TreeShape'
      <4> SUFFICES ASSUME NEW n \in DOMAIN prog
                   PROVE  /\ n # 1 => prog'[n].up \in 1..n - 1
                          /\ \A i \in DOMAIN prog'[n].kids :
                               /\ prog'[n].kids[i] \in n + 1..Len(prog')
                               /\ prog'[prog'[n].kids[i]].up = n
        BY <3>2 DEF TreeShape
      <4>1. /\ n # 1 => prog[n].up \in 1..n - 1
            /\ \A i \in DOMAIN prog[n].kids :
                 /\ prog[n].kids[i] \in n + 1..Len(prog)
                 /\ prog[prog[n].kids[i]].up = n
        BY DEF ParseInv, TreeShape
      <4>2. prog'[n].up = prog[n].up /\ prog'[n].kids = prog[n].kids
        BY <3>3
      <4>3. ASSUME NEW i \in DOMAIN prog[n].kids
            PROVE  prog[n].kids[i] \in DOMAIN prog
        BY <4>1, <3>2
      <4> QED
        BY <4>1, <4>2, <4>3, <3>3, <3>4
    <3>8. GotosResolved'
      <4> SUFFICES ASSUME NEW n \in DOMAIN prog, prog'[n].kind = "Goto"
                   PROVE  /\ prog'[n].to \in DOMAIN prog
                          /\ prog'[prog'[n].to].kind = "Label"
                          /\ prog'[prog'[n].to].name = prog'[n].name
        BY <3>2 DEF GotosResolved
      <4>1. /\ prog[n].kind = "Goto" /\ prog[n].name \in LabelNames
            /\ \E i \in DOMAIN gotos : gotos[i] = n
        BY <2>1, <3>3 DEF ParseInv, GotosOK
      <4>2. labels[prog[n].name] # 0
        BY <4>1, <3>1
      <4>3. /\ labels[prog[n].name] \in DOMAIN prog
            /\ prog[labels[prog[n].name]].kind = "Label"
            /\ prog[labels[prog[n].name]].name = prog[n].name
        BY <4>1, <4>2 DEF ParseInv, LabelsOK
      <4> QED
        BY <4>1, <4>3, <3>3
    <3>9. prog' # <<>>
      BY <3>4 DEF ParseInv
    <3>10. KidsInv'
      BY <1>20, <2>3, FuncDefKids
    <3> QED
      BY <3>5, <3>6, <3>7, <3>8, <3>9, <3>10 DEF ParseInv
  <2> QED
    BY <2>2, <2>3
<1>21. CASE ParseCondition
  <2> DEFINE body == Expect("body", New)
  <2>1. body \in Expectation /\ body.n = New /\ body.what = "body" /\ Child(body)
    BY <1>1 DEF Expect, Expectation, Child
  <2> HIDE DEF body
  <2> DEFINE Form(kind, next, c) == /\ At("expr")
                                    /\ Node(kind, next, [Body EXCEPT !.num = c])
                                    /\ UNCHANGED <<labels, gotos>>
  <2>2. ASSUME NEW kind \in ExprKind, NEW next, NEW c \in Nat, Form(kind, next, c),
               \/ kind \in {"Dyn", "Const", "Comma"} /\ next = <<>>
               \/ kind = "Not" /\ next = <<expr>>
               \/ kind \in {"And", "Or"} /\ next = <<expr, expr>>
               \/ kind = "Cond" /\ next = <<expr, expr, expr>>
               \/ kind = "StmtExpr" /\ next = <<body>>
        PROVE  ParseInv' /\ KidsInv'
    <3>1. ASSUME NEW extra PROVE NextOK(kind, next, extra)
      <4>1. CASE kind \in {"Dyn", "Const", "Comma"} /\ next = <<>>
        BY <4>1, <1>l DEF NextOK, Fits
      <4>2. CASE kind = "Not" /\ next = <<expr>>
        BY <4>2, <1>1, <1>c, <1>l DEF NextOK, Fits
      <4>3. CASE kind \in {"And", "Or"} /\ next = <<expr, expr>>
        BY <4>3, <1>1, <1>c, <1>l DEF NextOK, Fits
      <4>4. CASE kind = "Cond" /\ next = <<expr, expr, expr>>
        BY <4>4, <1>1, <1>c, <1>l DEF NextOK, Fits
      <4>5. CASE kind = "StmtExpr" /\ next = <<body>>
        BY <4>5, <2>1, <1>l DEF NextOK, Fits
      <4> QED
        BY <2>2, <4>1, <4>2, <4>3, <4>4, <4>5
    <3> QED
      BY <2>2, <3>1, NodeInv, NodeKids DEF ExprKind, At, Child
  <2>3. \/ \E c \in grammar.numbers \cup {0} : \/ Form("Dyn", <<>>, c)
                                              \/ Form("Const", <<>>, c)
                                              \/ Form("Comma", <<>>, c)
        \/ Form("Not", <<expr>>, 0)
        \/ Form("And", <<expr, expr>>, 0)
        \/ Form("Or", <<expr, expr>>, 0)
        \/ Form("Cond", <<expr, expr, expr>>, 0)
        \/ Form("StmtExpr", <<body>>, 0)
    BY <1>21 DEF ParseCondition, body
  <2>4. grammar.numbers \cup {0} \subseteq Nat
    BY <1>g
  <2>5. {"Dyn", "Const", "Comma", "Not", "And", "Or", "Cond", "StmtExpr"} \subseteq ExprKind
    BY DEF ExprKind
  <2> HIDE DEF Form
  <2> QED
    BY <2>2, <2>3, <2>4, <2>5
<1>22. CASE ParseStmtExpr
  <2>1. NextOK("Compound", <<items>>, Body)
    BY <1>b, <1>l DEF NextOK, Fits
  <2> QED
    BY <1>22, <2>1, NodeInv, NodeKids DEF ParseStmtExpr, StmtKind, At, items, Child
<1> QED
  BY <1>2, <1>3, <1>4, <1>5, <1>6, <1>7, <1>8, <1>9, <1>10, <1>11, <1>12, <1>13, <1>14,
     <1>15, <1>16, <1>17, <1>18, <1>19, <1>20, <1>21, <1>22 DEF ParseStep

\* A handler runs before the function is parsed.
LEMMA ParsesOnce ==
  ASSUME ParseStep PROVE parsed = "no"
<1>1. \A what : At(what) => parsed = "no"
  BY DEF At
<1>2. \A kind, next, extra : Stmt(kind, next, extra) => parsed = "no"
  BY <1>1 DEF Stmt
<1>3. \A kind, next : Plain(kind, next) => parsed = "no"
  BY <1>2 DEF Plain
<1>4. CASE \/ ParseExprStmt \/ ParseCompoundStmt \/ ParseIfStmt \/ ParseSwitchStmt
           \/ ParseWhileStmt \/ ParseDoWhileStmt \/ ParseCaseStmt \/ ParseDefaultStmt
           \/ ParseContinueStmt \/ ParseBreakStmt
  BY <1>3, <1>4, Zenon
     DEF ParseExprStmt, ParseCompoundStmt, ParseIfStmt, ParseSwitchStmt, ParseWhileStmt,
         ParseDoWhileStmt, ParseCaseStmt, ParseDefaultStmt, ParseContinueStmt, ParseBreakStmt
<1>5. CASE ParseForStmt \/ ParseReturnStmt \/ ParseGotoStmt
  BY <1>2, <1>5, Zenon DEF ParseForStmt, ParseReturnStmt, ParseGotoStmt
<1>6. CASE \/ ParseDecl \/ ParseLabelStmt \/ RegisterLabel \/ ParseElse \/ CloseBlock
           \/ ParseFuncDef \/ ParseCondition \/ ParseStmtExpr
  BY <1>1, <1>2, <1>6, Zenon
     DEF ParseDecl, ParseLabelStmt, RegisterLabel, ParseElse, CloseBlock, ParseFuncDef,
         ParseCondition, ParseStmtExpr
<1> QED
  BY <1>4, <1>5, <1>6 DEF ParseStep

\* Every node of a function that was parsed has the children its kind needs.
ChildrenComplete ==
  parsed = "yes" =>
    \A n \in DOMAIN prog : Least(prog[n].kind) <= Len(prog[n].kids)

LEMMA KidsComplete == ParseInv /\ KidsInv => ChildrenComplete
<1> SUFFICES ASSUME ParseInv, KidsInv, parsed = "yes", NEW n \in DOMAIN prog,
                    ~(Least(prog[n].kind) <= Len(prog[n].kids))
             PROVE  FALSE
  BY DEF ChildrenComplete
<1>1. prog[n].kids \in Seq(Nat)
  <2>1. prog[n] \in NodeType
    BY DEF ParseInv, ParseTypeOK
  <2> QED
    BY <2>1 DEF NodeType
<1> DEFINE k == Len(prog[n].kids) + 1
<1>2. k \in Nat /\ Len(prog[n].kids) < k /\ k <= Least(prog[n].kind)
  BY <1>1, LeastIsNat
<1>3. PICK slot : Slots(slot, open, prog)
  BY DEF KidsInv
<1> HIDE DEF k
<1>4. \E i \in DOMAIN open : Child(open[i]) /\ open[i].n = n /\ slot[i] = k
  BY <1>2, <1>3 DEF Slots
<1>5. open = <<>>
  BY DEF KidsInv
<1> QED
  BY <1>4, <1>5
=============================================================================
