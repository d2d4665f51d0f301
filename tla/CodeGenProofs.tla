---------------------------- MODULE CodeGenProofs ----------------------------
(***************************************************************************)
(* What every step of the code generator preserves, whatever the tree: the *)
(* blocks Builder has left are complete, Builder itself is never left      *)
(* behind a terminator (GenInv), and the stack of loops and switches is    *)
(* the one of the calls under way (LoopInv).                               *)
(***************************************************************************)
EXTENDS CodeGen, SequenceTheorems, WellFoundedInduction, TLAPS

\* The function under construction is a record of these fields, its terminators
\* go to blocks and never to null, and Builder is in one of its blocks.
TermOK(t) ==
  /\ t = [op |-> t.op, of |-> t.of, to |-> t.to]
  /\ t.to = [x \in DOMAIN t.to |-> t.to[x]]
  /\ \A x \in DOMAIN t.to : t.to[x] # NoBlock
  /\ t.op \in {"br", "switch"} => 0 \in DOMAIN t.to

BlkOK(x) == x = [code |-> x.code, term |-> x.term] /\ TermOK(x.term)

FnOK(f) ==
  /\ f = [blk |-> f.blk, phi |-> f.phi, loose |-> f.loose, at |-> f.at]
  /\ f.blk = [b \in DOMAIN f.blk |-> f.blk[b]]
  /\ \A b \in DOMAIN f.blk : b # NoBlock /\ BlkOK(f.blk[b])
  /\ f.at # NoBlock => f.at \in DOMAIN f.blk

\* Every block other than the one Builder is in has its terminator ...
Complete(f) == \A b \in DOMAIN f.blk \ {f.at} : f.blk[b].term.op # "none"

\* ... and that one has none yet.
Open(f) == f.at # NoBlock => f.blk[f.at].term.op = "none"

Sound(f) == FnOK(f) /\ Complete(f)

-----------------------------------------------------------------------------
LEMMA BlocksDiffer ==
  ASSUME NEW n, NEW role, role # "none"
  PROVE  Block(n, role) # NoBlock
BY DEF Block, NoBlock

LEMMA BrOK ==
  ASSUME NEW b, b # NoBlock PROVE TermOK(Br(b)) /\ Br(b).op = "br"
BY DEF TermOK, Br, Term

LEMMA CondBrOK ==
  ASSUME NEW v, NEW t, NEW f, t # NoBlock, f # NoBlock
  PROVE  TermOK(CondBr(v, t, f)) /\ CondBr(v, t, f).op = "condbr"
BY DEF TermOK, CondBr, Term

LEMMA SwitchOK ==
  ASSUME NEW b, b # NoBlock PROVE TermOK(Switch(b)) /\ Switch(b).op = "switch"
BY DEF TermOK, Switch, Term

LEMMA RetOK == TermOK(Ret) /\ Ret.op = "ret"
BY DEF TermOK, Ret, Term

LEMMA EmptyOK == BlkOK(Empty) /\ Empty.term.op = "none"
BY DEF BlkOK, TermOK, Empty, NoTerm, Term

LEMMA CreateTermOK ==
  ASSUME NEW f, Sound(f), NEW t, TermOK(t), t.op # "none"
  PROVE  /\ Sound(CreateTerm(f, t)) /\ CreateTerm(f, t).at = f.at
         /\ f.at # NoBlock => CreateTerm(f, t).blk[f.at].term.op # "none"
<1>1. CASE f.at = NoBlock
  BY <1>1 DEF CreateTerm, HaveInsertPoint, Sound, FnOK, Complete
<1>2. CASE f.at # NoBlock
  <2> DEFINE g == CreateTerm(f, t)
  <2>1. f.at \in DOMAIN f.blk
    BY <1>2 DEF Sound, FnOK
  <2>2. g = [f EXCEPT !.blk = [f.blk EXCEPT ![f.at] = [f.blk[f.at] EXCEPT !.term = t]]]
    BY <1>2 DEF CreateTerm, HaveInsertPoint
  <2>3. /\ g = [blk |-> g.blk, phi |-> g.phi, loose |-> g.loose, at |-> g.at]
        /\ g.at = f.at /\ g.blk = [f.blk EXCEPT ![f.at] = [f.blk[f.at] EXCEPT !.term = t]]
    BY <2>2 DEF Sound, FnOK
  <2>4. /\ DOMAIN g.blk = DOMAIN f.blk /\ g.blk = [b \in DOMAIN g.blk |-> g.blk[b]]
        /\ g.blk[f.at] = [f.blk[f.at] EXCEPT !.term = t]
        /\ \A b \in DOMAIN f.blk \ {f.at} : g.blk[b] = f.blk[b]
    BY <2>1, <2>3 DEF Sound, FnOK
  <2>5. BlkOK(g.blk[f.at]) /\ g.blk[f.at].term = t
    BY <2>1, <2>4 DEF Sound, FnOK, BlkOK
  <2> HIDE DEF g
  <2>6. FnOK(g)
    BY <2>1, <2>3, <2>4, <2>5 DEF Sound, FnOK
  <2>7. Complete(g)
    BY <2>3, <2>4 DEF Sound, Complete
  <2> QED
    BY <2>3, <2>5, <2>6, <2>7 DEF g, Sound
<1> QED
  BY <1>1, <1>2

\* What has no block to be in leaves the blocks alone.
LEMMA InsertOK ==
  ASSUME NEW f, Sound(f)
  PROVE  /\ Sound(Insert(f)) /\ Insert(f).at = f.at
         /\ Open(f) => Open(Insert(f))
<1> DEFINE loose == f.loose \cup {AnyValue}
<1>1. CASE HaveInsertPoint(f)
  BY <1>1 DEF Insert
<1>2. CASE ~HaveInsertPoint(f)
  <2>1. Insert(f) = [f EXCEPT !.loose = loose]
    BY <1>2 DEF Insert
  <2> HIDE DEF loose
  <2>2. Insert(f) = [blk |-> f.blk, phi |-> f.phi, loose |-> loose, at |-> f.at]
    BY <2>1 DEF Sound, FnOK
  <2> QED
    BY <2>2 DEF Sound, FnOK, Complete, Open
<1> QED
  BY <1>1, <1>2

LEMMA UseOK ==
  ASSUME NEW f, Sound(f), NEW v
  PROVE  /\ Sound(Use(f, v)) /\ Use(f, v).at = f.at
         /\ Open(f) => Open(Use(f, v))
BY InsertOK DEF Use

\* Appending to a block leaves its terminator alone.
LEMMA CodeAdded ==
  ASSUME NEW old, old = [code |-> old.code, term |-> old.term], NEW code
  PROVE  /\ [old EXCEPT !.code = code].code = code
         /\ [old EXCEPT !.code = code].term = old.term
         /\ [old EXCEPT !.code = code] = [code |-> code, term |-> old.term]
<1> DEFINE a == old.code
           t == old.term
           r == [code |-> a, term |-> t]
<1>1. old = r
  OBVIOUS
<1> HIDE DEF a, t
<1>2. [r EXCEPT !.code = code] = [code |-> code, term |-> t]
  OBVIOUS
<1> HIDE DEF r
<1>3. [old EXCEPT !.code = code] = [code |-> code, term |-> t]
  BY <1>1, <1>2
<1> QED
  BY <1>3 DEF t

LEMMA AddEventOK ==
  ASSUME NEW f, Sound(f), NEW e
  PROVE  /\ Sound(AddEvent(f, e)) /\ AddEvent(f, e).at = f.at
         /\ Open(f) => Open(AddEvent(f, e))
<1>1. CASE f.at = NoBlock
  BY <1>1, InsertOK DEF AddEvent, HaveInsertPoint
<1>2. CASE f.at # NoBlock
  <2> DEFINE g == AddEvent(f, e)
             old == f.blk[f.at]
             new == [old EXCEPT !.code = Append(old.code, e)]
  <2>1. f.at \in DOMAIN f.blk /\ BlkOK(old)
    BY <1>2 DEF Sound, FnOK
  <2>2. g = [f EXCEPT !.blk = [f.blk EXCEPT ![f.at] = new]]
    BY <1>2 DEF AddEvent, HaveInsertPoint
  <2>3. BlkOK(new) /\ new.term = old.term
    <3> HIDE DEF old
    <3>1. old = [code |-> old.code, term |-> old.term] /\ TermOK(old.term)
      BY <2>1 DEF BlkOK
    <3> DEFINE code == Append(old.code, e)
    <3> HIDE DEF code
    <3>2. new = [code |-> code, term |-> old.term] /\ new.code = code /\ new.term = old.term
      BY <3>1, CodeAdded DEF code
    <3> QED
      BY <3>1, <3>2 DEF BlkOK
  <2> HIDE DEF new
  <2>4. /\ g = [blk |-> g.blk, phi |-> g.phi, loose |-> g.loose, at |-> g.at]
        /\ g.at = f.at /\ g.blk = [f.blk EXCEPT ![f.at] = new]
    BY <2>2 DEF Sound, FnOK
  <2>5. /\ DOMAIN g.blk = DOMAIN f.blk /\ g.blk = [b \in DOMAIN g.blk |-> g.blk[b]]
        /\ g.blk[f.at] = new
        /\ \A b \in DOMAIN f.blk \ {f.at} : g.blk[b] = f.blk[b]
    BY <2>1, <2>4 DEF Sound, FnOK
  <2> HIDE DEF g
  <2>6. FnOK(g)
    BY <2>1, <2>4, <2>5, <2>3 DEF Sound, FnOK
  <2>7. Complete(g) /\ (Open(f) => Open(g))
    BY <2>4, <2>5, <2>3 DEF Sound, Complete, Open
  <2> QED
    BY <2>4, <2>6, <2>7 DEF g, Sound
<1> QED
  BY <1>1, <1>2

LEMMA ClearOK ==
  ASSUME NEW f, Sound(f), f.at # NoBlock => f.blk[f.at].term.op # "none"
  PROVE  Sound(ClearInsertionPoint(f)) /\ ClearInsertionPoint(f).at = NoBlock
<1>1. /\ ClearInsertionPoint(f) =
           [blk |-> f.blk, phi |-> f.phi, loose |-> f.loose, at |-> NoBlock]
  BY DEF ClearInsertionPoint, Sound, FnOK
<1> QED
  BY <1>1 DEF Sound, FnOK, Complete

LEMMA EmitBranchOK ==
  ASSUME NEW f, Sound(f), NEW b, b # NoBlock
  PROVE  Sound(EmitBranch(f, b)) /\ EmitBranch(f, b).at = NoBlock
<1>1. CASE HaveInsertPoint(f) /\ ~Terminated(f, f.at)
  BY <1>1, BrOK, CreateTermOK, ClearOK DEF EmitBranch
<1>2. CASE ~(HaveInsertPoint(f) /\ ~Terminated(f, f.at))
  BY <1>2, ClearOK DEF EmitBranch, HaveInsertPoint, Terminated
<1> QED
  BY <1>1, <1>2

LEMMA PushBackOK ==
  ASSUME NEW f, Sound(f), f.at = NoBlock, NEW b, b # NoBlock
  PROVE  Sound(PushBack(f, b)) /\ Open(PushBack(f, b)) /\ PushBack(f, b).at = b
<1> DEFINE g == PushBack(f, b)
           blk == [x \in DOMAIN f.blk \cup {b} |-> IF x = b THEN Empty ELSE f.blk[x]]
<1>1. g = [f EXCEPT !.blk = blk, !.at = b]
  BY DEF PushBack
<1>2. /\ DOMAIN blk = DOMAIN f.blk \cup {b} /\ blk = [x \in DOMAIN blk |-> blk[x]]
      /\ blk[b] = Empty /\ \A x \in DOMAIN f.blk \ {b} : blk[x] = f.blk[x]
  OBVIOUS
<1> HIDE DEF g, blk
<1>3. /\ g = [blk |-> g.blk, phi |-> g.phi, loose |-> g.loose, at |-> g.at]
      /\ g.at = b /\ g.blk = blk
  BY <1>1 DEF Sound, FnOK
<1>4. FnOK(g)
  BY <1>2, <1>3, EmptyOK DEF Sound, FnOK
<1>5. Complete(g) /\ Open(g)
  BY <1>2, <1>3, EmptyOK DEF Sound, FnOK, Complete, Open
<1> QED
  BY <1>3, <1>4, <1>5 DEF Sound, g

LEMMA EmitBlockOK ==
  ASSUME NEW f, Sound(f), NEW b, b # NoBlock
  PROVE  Sound(EmitBlock(f, b)) /\ Open(EmitBlock(f, b)) /\ EmitBlock(f, b).at = b
BY EmitBranchOK, PushBackOK DEF EmitBlock

\* No block is lost by it.
LEMMA EmitBlockKeeps ==
  ASSUME NEW f, Sound(f), NEW b, b # NoBlock
  PROVE  DOMAIN f.blk \subseteq DOMAIN EmitBlock(f, b).blk
<1> DEFINE c == CreateTerm(f, Br(b))
           g == EmitBranch(f, b)
           blk == [x \in DOMAIN g.blk \cup {b} |-> IF x = b THEN Empty ELSE g.blk[x]]
<1>1. Sound(c) /\ DOMAIN c.blk = DOMAIN f.blk
  <2>1. Sound(c)
    BY BrOK, CreateTermOK
  <2>2. CASE HaveInsertPoint(f)
    <3>1. c = [f EXCEPT !.blk[f.at].term = Br(b)]
      BY <2>2 DEF CreateTerm
    <3>2. c.blk = [f.blk EXCEPT ![f.at] = [f.blk[f.at] EXCEPT !.term = Br(b)]]
      BY <3>1 DEF Sound, FnOK
    <3> HIDE DEF c
    <3> QED
      BY <2>1, <3>2
  <2>3. CASE ~HaveInsertPoint(f)
    <3>1. c = [f EXCEPT !.loose = f.loose \cup Range(Br(b).to)]
      BY <2>3 DEF CreateTerm
    <3>2. c.blk = f.blk
      BY <3>1 DEF Sound, FnOK
    <3> QED
      BY <2>1, <3>2
  <2> QED
    BY <2>2, <2>3
<1>2. \A h : Sound(h) => ClearInsertionPoint(h).blk = h.blk
  BY DEF ClearInsertionPoint, Sound, FnOK
<1>3. Sound(g) /\ DOMAIN g.blk = DOMAIN f.blk
  <2> HIDE DEF c
  <2>1. Sound(g)
    BY EmitBranchOK
  <2>2. g = ClearInsertionPoint(f) \/ g = ClearInsertionPoint(c)
    BY DEF EmitBranch, c
  <2> HIDE DEF g
  <2> QED
    BY <1>1, <1>2, <2>1, <2>2
<1> HIDE DEF g
<1>4. EmitBlock(f, b) = [g EXCEPT !.blk = blk, !.at = b]
  BY DEF EmitBlock, PushBack, g
<1>5. EmitBlock(f, b).blk = blk
  <2> HIDE DEF blk
  <2> QED
    BY <1>3, <1>4 DEF Sound, FnOK
<1> QED
  BY <1>3, <1>5

LEMMA EmitFinishedOK ==
  ASSUME NEW f, Sound(f), NEW b, b # NoBlock
  PROVE  /\ Sound(EmitFinished(f, b)) /\ Open(EmitFinished(f, b))
         /\ EmitFinished(f, b).at \in {b, NoBlock}
BY EmitBranchOK, PushBackOK DEF EmitFinished, Open

LEMMA ThroughCleanupOK ==
  ASSUME NEW f, Sound(f), NEW b, b # NoBlock
  PROVE  /\ Sound(EmitBranchThroughCleanup(f, b))
         /\ EmitBranchThroughCleanup(f, b).at = NoBlock
<1>1. CASE HaveInsertPoint(f)
  BY <1>1, BrOK, CreateTermOK, ClearOK DEF EmitBranchThroughCleanup, HaveInsertPoint
<1>2. CASE ~HaveInsertPoint(f)
  BY <1>2 DEF EmitBranchThroughCleanup, HaveInsertPoint
<1> QED
  BY <1>1, <1>2

LEMMA ReplaceOK ==
  ASSUME NEW f, Sound(f), NEW old, NEW new, new # NoBlock
  PROVE  /\ Sound(ReplaceAllUses(f, old, new)) /\ ReplaceAllUses(f, old, new).at = f.at
         /\ Open(f) => Open(ReplaceAllUses(f, old, new))
<1> DEFINE g == ReplaceAllUses(f, old, new)
           Subst(x) == IF x = old THEN new ELSE x
           Redirect(t) == [t EXCEPT !.to = [x \in DOMAIN t.to |-> Subst(t.to[x])]]
           blk == [b \in DOMAIN f.blk |->
                     [f.blk[b] EXCEPT !.term = Redirect(f.blk[b].term)]]
           loose == {Subst(x) : x \in f.loose}
<1>1. g = [f EXCEPT !.blk = blk, !.loose = loose]
  BY DEF ReplaceAllUses
<1>2. ASSUME NEW t, TermOK(t)
      PROVE  TermOK(Redirect(t)) /\ Redirect(t).op = t.op
  BY <1>2 DEF TermOK
<1> HIDE DEF g, Redirect, loose
<1>3. ASSUME NEW b \in DOMAIN f.blk
      PROVE  BlkOK(blk[b]) /\ blk[b].term.op = f.blk[b].term.op
  BY <1>2, <1>3 DEF Sound, FnOK, BlkOK
<1>4. DOMAIN blk = DOMAIN f.blk /\ blk = [b \in DOMAIN blk |-> blk[b]]
  OBVIOUS
<1> HIDE DEF blk
<1>5. /\ g = [blk |-> g.blk, phi |-> g.phi, loose |-> g.loose, at |-> g.at]
      /\ g.at = f.at /\ g.blk = blk
  BY <1>1 DEF Sound, FnOK
<1>6. FnOK(g)
  BY <1>3, <1>4, <1>5 DEF Sound, FnOK
<1>7. Complete(g) /\ (Open(f) => Open(g))
  BY <1>3, <1>4, <1>5 DEF Sound, FnOK, Complete, Open
<1> QED
  BY <1>5, <1>6, <1>7 DEF Sound, g

LEMMA SimplifyOK ==
  ASSUME NEW f, Sound(f), Open(f), NEW b \in DOMAIN f.blk, b # f.at
  PROVE  Sound(SimplifyForwardingBlocks(f, b)) /\ Open(SimplifyForwardingBlocks(f, b))
<1>1. CASE f.blk[b].term.op # "br"
  BY <1>1 DEF SimplifyForwardingBlocks
<1>2. CASE f.blk[b].term.op = "br"
  <2> DEFINE g == ReplaceAllUses(f, b, f.blk[b].term.to[0])
             h == SimplifyForwardingBlocks(f, b)
  <2>1. f.blk[b].term.to[0] # NoBlock
    BY <1>2 DEF Sound, FnOK, BlkOK, TermOK
  <2>2. Sound(g) /\ Open(g) /\ g.at = f.at
    BY <2>1, ReplaceOK
  <2>3. h = [g EXCEPT !.blk = [x \in DOMAIN g.blk \ {b} |-> g.blk[x]]]
    BY <1>2 DEF SimplifyForwardingBlocks, Restrict
  <2> HIDE DEF g
  <2>4. /\ h = [blk |-> h.blk, phi |-> h.phi, loose |-> h.loose, at |-> h.at]
        /\ h.at = g.at /\ h.blk = [x \in DOMAIN g.blk \ {b} |-> g.blk[x]]
    BY <2>2, <2>3 DEF Sound, FnOK
  <2> HIDE DEF h
  <2>5. FnOK(h) /\ Complete(h) /\ Open(h)
    BY <2>2, <2>4 DEF Sound, FnOK, Complete, Open
  <2> QED
    BY <2>5 DEF Sound, h
<1> QED
  BY <1>1, <1>2

LEMMA PhiOK ==
  ASSUME NEW f, Sound(f), NEW phi
  PROVE  /\ Sound([f EXCEPT !.phi = phi]) /\ [f EXCEPT !.phi = phi].at = f.at
         /\ Open(f) => Open([f EXCEPT !.phi = phi])
<1> DEFINE g == [f EXCEPT !.phi = phi]
<1>1. /\ g = [blk |-> g.blk, phi |-> g.phi, loose |-> g.loose, at |-> g.at]
      /\ g.at = f.at /\ g.blk = f.blk
  BY DEF Sound, FnOK
<1> HIDE DEF g
<1>2. Sound(g) /\ (Open(f) => Open(g))
  BY <1>1 DEF Sound, FnOK, Complete, Open
<1> QED
  BY <1>1, <1>2 DEF g

LEMMA AddIncomingOK ==
  ASSUME NEW f, Sound(f), NEW b, NEW pred, NEW v
  PROVE  /\ Sound(AddIncoming(f, b, pred, v)) /\ AddIncoming(f, b, pred, v).at = f.at
         /\ Open(f) => Open(AddIncoming(f, b, pred, v))
<1> DEFINE phi == f.phi \cup {[at |-> b, from |-> pred, of |-> v.of]}
<1>1. AddIncoming(f, b, pred, v) = [f EXCEPT !.phi = phi]
  BY DEF AddIncoming
<1> QED
  BY <1>1, PhiOK

-----------------------------------------------------------------------------
\* The pieces still to run.  What ends Builder's block with a conditional
\* branch is followed by what starts the next block.
Branches(p) == p.op \in {"branch", "condbr"}
Starts(p)   == p.op \in {"block", "logic.rhs"}

PieceOK(p) ==
  /\ p.op = "block" => p.t # NoBlock
  /\ Branches(p) => p.t # NoBlock /\ p.f # NoBlock

\* A part of it that may end in a conditional branch.
PartOK(s) ==
  /\ \E S : s \in Seq(S)
  /\ \A i \in 1..Len(s) : PieceOK(s[i])
  /\ \A i \in 1..Len(s) - 1 : Branches(s[i]) => Starts(s[i + 1])

TodoOK(s) == PartOK(s) /\ (s # <<>> => ~Branches(s[Len(s)]))

GenInv ==
  /\ status = "emit" =>
       /\ Sound(fn) /\ TodoOK(todo)
       /\ Open(fn) \/ (todo # <<>> /\ Starts(todo[1]))
  /\ status \in {"done", "broken"} =>
       \A b \in DOMAIN fn.blk : fn.blk[b].term.op # "none"

LEMMA ConcatTail ==
  ASSUME NEW S, NEW s \in Seq(S), s # <<>>, NEW T, NEW q \in Seq(T)
  PROVE  /\ q \o Tail(s) \in Seq(S \cup T)
         /\ Len(q \o Tail(s)) = Len(q) + Len(s) - 1
         /\ \A i \in 1..Len(q) : (q \o Tail(s))[i] = q[i]
         /\ \A i \in 1..Len(s) - 1 : (q \o Tail(s))[Len(q) + i] = s[i + 1]
<1>1. q \in Seq(S \cup T) /\ Tail(s) \in Seq(S \cup T) /\ Len(Tail(s)) = Len(s) - 1
  OBVIOUS
<1>2. \A i \in 1..Len(s) - 1 : Tail(s)[i] = s[i + 1]
  OBVIOUS
<1> QED
  BY <1>1, <1>2

LEMMA TodoStep ==
  ASSUME NEW s, TodoOK(s), s # <<>>, NEW q, PartOK(q),
         q # <<>> /\ Branches(q[Len(q)]) => Branches(s[1])
  PROVE  TodoOK(q \o Tail(s))
<1> DEFINE r == q \o Tail(s)
<1>1. PICK S : s \in Seq(S)
  BY DEF TodoOK, PartOK
<1>2. PICK T : q \in Seq(T)
  BY DEF PartOK
<1>3. /\ r \in Seq(S \cup T)
      /\ Len(r) = Len(q) + Len(s) - 1
      /\ \A i \in 1..Len(q) : r[i] = q[i]
      /\ \A i \in 1..Len(s) - 1 : r[Len(q) + i] = s[i + 1]
  BY <1>1, <1>2, ConcatTail
<1>4. Len(s) \in Nat \ {0} /\ Len(q) \in Nat
  BY <1>1, <1>2
<1> HIDE DEF r
<1>5. \A j \in 1..Len(r) : j > Len(q) => r[j] = s[j - Len(q) + 1]
  <2> TAKE j \in 1..Len(r)
  <2> HAVE j > Len(q)
  <2>1. j - Len(q) \in 1..Len(s) - 1 /\ Len(q) + (j - Len(q)) = j
    BY <1>3, <1>4
  <2> QED
    BY <1>3, <2>1
<1>6. ASSUME NEW i \in 1..Len(r) PROVE PieceOK(r[i])
  <2>1. CASE i <= Len(q)
    BY <1>3, <1>4, <2>1 DEF PartOK
  <2>2. CASE i > Len(q)
    <3> DEFINE j == i - Len(q) + 1
    <3>1. j \in 1..Len(s) /\ r[i] = s[j]
      BY <1>3, <1>4, <1>5, <2>2
    <3> HIDE DEF j
    <3> QED
      BY <3>1 DEF TodoOK, PartOK
  <2> QED
    BY <1>3, <1>4, <2>1, <2>2
<1>7. ASSUME NEW i \in 1..Len(r) - 1, Branches(r[i]) PROVE Starts(r[i + 1])
  <2>1. CASE i < Len(q)
    BY <1>3, <1>4, <1>7, <2>1 DEF PartOK
  <2>2. CASE i = Len(q)
    <3>1. Branches(s[1]) /\ r[i + 1] = s[2] /\ 1 \in 1..Len(s) - 1
      BY <1>2, <1>3, <1>4, <1>5, <1>7, <2>2
    <3> QED
      BY <3>1 DEF TodoOK, PartOK
  <2>3. CASE i > Len(q)
    <3> DEFINE j == i - Len(q) + 1
    <3>1. j \in 1..Len(s) - 1 /\ r[i] = s[j] /\ r[i + 1] = s[j + 1]
      BY <1>3, <1>4, <1>5, <2>3
    <3> HIDE DEF j
    <3> QED
      BY <1>7, <3>1 DEF TodoOK, PartOK
  <2> QED
    BY <1>3, <1>4, <2>1, <2>2, <2>3
<1>8. ASSUME r # <<>> PROVE ~Branches(r[Len(r)])
  <2>1. CASE Len(s) > 1
    <3>1. r[Len(r)] = s[Len(s)]
      BY <1>3, <1>4, <1>5, <2>1
    <3> QED
      BY <2>1, <3>1 DEF TodoOK
  <2>2. CASE Len(s) = 1
    <3>1. Len(r) = Len(q) /\ Len(r) # 0
      BY <1>3, <1>4, <1>8, <2>2
    <3>2. q # <<>> /\ r[Len(r)] = q[Len(q)]
      BY <1>2, <1>3, <1>4, <3>1
    <3>3. ~Branches(s[1])
      BY <2>2 DEF TodoOK
    <3> QED
      BY <3>2, <3>3
  <2>3. \A m \in Nat \ {0} : m = 1 \/ m > 1
    OBVIOUS
  <2> QED
    BY <1>4, <2>1, <2>2, <2>3, Zenon
<1> QED
  BY <1>3, <1>6, <1>7, <1>8 DEF TodoOK, PartOK, r

-----------------------------------------------------------------------------
\* The shapes of next that the handlers use.
LEMMA NonePart == PartOK(<<>>) /\ TodoOK(<<>>)
BY DEF PartOK, TodoOK

LEMMA OnePart ==
  ASSUME NEW a, PieceOK(a)
  PROVE  PartOK(<<a>>) /\ (~Branches(a) => TodoOK(<<a>>))
<1> DEFINE q == <<a>>
<1>1. q \in Seq({a}) /\ Len(q) = 1
  OBVIOUS
<1>2. q[1] = a
  OBVIOUS
<1> HIDE DEF q
<1>3. \A i \in 1..Len(q) : PieceOK(q[i])
  BY <1>1, <1>2
<1>4. \A i \in 1..Len(q) - 1 : Branches(q[i]) => Starts(q[i + 1])
  BY <1>1, <1>2
<1>5. PartOK(q)
  BY <1>1, <1>3, <1>4 DEF PartOK
<1> QED
  BY <1>1, <1>2, <1>5 DEF TodoOK, q

LEMMA TwoParts ==
  ASSUME NEW a, PieceOK(a), NEW b, PieceOK(b),
         Branches(a) => Starts(b)
  PROVE  PartOK(<<a, b>>) /\ (~Branches(b) => TodoOK(<<a, b>>))
<1> DEFINE q == <<a, b>>
<1>1. q \in Seq({a, b}) /\ Len(q) = 2
  OBVIOUS
<1>2. q[1] = a /\ q[2] = b
  OBVIOUS
<1> HIDE DEF q
<1>3. \A i \in 1..Len(q) : PieceOK(q[i])
  BY <1>1, <1>2
<1>4. \A i \in 1..Len(q) - 1 : Branches(q[i]) => Starts(q[i + 1])
  BY <1>1, <1>2
<1>5. PartOK(q)
  BY <1>1, <1>3, <1>4 DEF PartOK
<1> QED
  BY <1>1, <1>2, <1>5 DEF TodoOK, q

LEMMA ThreeParts ==
  ASSUME NEW a, PieceOK(a), NEW b, PieceOK(b), NEW c, PieceOK(c),
         Branches(a) => Starts(b),
         Branches(b) => Starts(c)
  PROVE  PartOK(<<a, b, c>>) /\ (~Branches(c) => TodoOK(<<a, b, c>>))
<1> DEFINE q == <<a, b, c>>
<1>1. q \in Seq({a, b, c}) /\ Len(q) = 3
  OBVIOUS
<1>2. q[1] = a /\ q[2] = b /\ q[3] = c
  OBVIOUS
<1> HIDE DEF q
<1>3. \A i \in 1..Len(q) : PieceOK(q[i])
  BY <1>1, <1>2
<1>4. \A i \in 1..Len(q) - 1 : Branches(q[i]) => Starts(q[i + 1])
  BY <1>1, <1>2
<1>5. PartOK(q)
  BY <1>1, <1>3, <1>4 DEF PartOK
<1> QED
  BY <1>1, <1>2, <1>5 DEF TodoOK, q

LEMMA FourParts ==
  ASSUME NEW a, PieceOK(a), NEW b, PieceOK(b), NEW c, PieceOK(c), NEW d, PieceOK(d),
         Branches(a) => Starts(b),
         Branches(b) => Starts(c),
         Branches(c) => Starts(d)
  PROVE  PartOK(<<a, b, c, d>>) /\ (~Branches(d) => TodoOK(<<a, b, c, d>>))
<1> DEFINE q == <<a, b, c, d>>
<1>1. q \in Seq({a, b, c, d}) /\ Len(q) = 4
  OBVIOUS
<1>2. q[1] = a /\ q[2] = b /\ q[3] = c /\ q[4] = d
  OBVIOUS
<1> HIDE DEF q
<1>3. \A i \in 1..Len(q) : PieceOK(q[i])
  BY <1>1, <1>2
<1>4. \A i \in 1..Len(q) - 1 : Branches(q[i]) => Starts(q[i + 1])
  BY <1>1, <1>2
<1>5. PartOK(q)
  BY <1>1, <1>3, <1>4 DEF PartOK
<1> QED
  BY <1>1, <1>2, <1>5 DEF TodoOK, q

LEMMA FiveParts ==
  ASSUME NEW a, PieceOK(a), NEW b, PieceOK(b), NEW c, PieceOK(c), NEW d, PieceOK(d),
         NEW e, PieceOK(e),
         Branches(a) => Starts(b),
         Branches(b) => Starts(c),
         Branches(c) => Starts(d),
         Branches(d) => Starts(e)
  PROVE  PartOK(<<a, b, c, d, e>>) /\ (~Branches(e) => TodoOK(<<a, b, c, d, e>>))
<1> DEFINE q == <<a, b, c, d, e>>
<1>1. q \in Seq({a, b, c, d, e}) /\ Len(q) = 5
  OBVIOUS
<1>2. q[1] = a /\ q[2] = b /\ q[3] = c /\ q[4] = d /\ q[5] = e
  OBVIOUS
<1> HIDE DEF q
<1>3. \A i \in 1..Len(q) : PieceOK(q[i])
  BY <1>1, <1>2
<1>4. \A i \in 1..Len(q) - 1 : Branches(q[i]) => Starts(q[i + 1])
  BY <1>1, <1>2
<1>5. PartOK(q)
  BY <1>1, <1>3, <1>4 DEF PartOK
<1> QED
  BY <1>1, <1>2, <1>5 DEF TodoOK, q

LEMMA SevenParts ==
  ASSUME NEW a, PieceOK(a), NEW b, PieceOK(b), NEW c, PieceOK(c), NEW d, PieceOK(d),
         NEW e, PieceOK(e), NEW g, PieceOK(g), NEW h, PieceOK(h),
         Branches(a) => Starts(b),
         Branches(b) => Starts(c),
         Branches(c) => Starts(d),
         Branches(d) => Starts(e),
         Branches(e) => Starts(g),
         Branches(g) => Starts(h)
  PROVE  PartOK(<<a, b, c, d, e, g, h>>) /\ (~Branches(h) => TodoOK(<<a, b, c, d, e, g, h>>))
<1> DEFINE q == <<a, b, c, d, e, g, h>>
<1>1. q \in Seq({a, b, c, d, e, g, h}) /\ Len(q) = 7
  OBVIOUS
<1>2. q[1] = a /\ q[2] = b /\ q[3] = c /\ q[4] = d /\ q[5] = e /\ q[6] = g /\ q[7] = h
  OBVIOUS
<1> HIDE DEF q
<1>3. \A i \in 1..Len(q) : PieceOK(q[i])
  BY <1>1, <1>2
<1>4. \A i \in 1..Len(q) - 1 : Branches(q[i]) => Starts(q[i + 1])
  BY <1>1, <1>2
<1>5. PartOK(q)
  BY <1>1, <1>3, <1>4 DEF PartOK
<1> QED
  BY <1>1, <1>2, <1>5 DEF TodoOK, q

\* A run of statements to emit.
LEMMA StmtsPart ==
  ASSUME NEW k, NEW S, k \in Seq(S), NEW q, q = [i \in DOMAIN k |-> EmitStmt(k[i])]
  PROVE  TodoOK(q)
<1>1. \A i \in DOMAIN k : q[i] \in {EmitStmt(x) : x \in S} /\ q[i].op = "stmt"
  BY DEF EmitStmt, Piece
<1>2. DOMAIN k = 1..Len(k) /\ Len(k) \in Nat
  OBVIOUS
<1>3. q \in Seq({EmitStmt(x) : x \in S}) /\ Len(q) = Len(k)
  BY <1>1, <1>2
<1>4. \A i \in 1..Len(q) : PieceOK(q[i]) /\ ~Branches(q[i])
  BY <1>1, <1>2, <1>3 DEF PieceOK, Branches
<1>5. PartOK(q)
  <2>1. 1..Len(q) - 1 \subseteq 1..Len(q)
    BY <1>3
  <2>2. \E T : q \in Seq(T)
    BY <1>3, Zenon
  <2> QED
    BY <1>4, <2>1, <2>2 DEF PartOK
<1>6. q # <<>> => Len(q) \in 1..Len(q)
  BY <1>3
<1> QED
  BY <1>4, <1>5, <1>6 DEF TodoOK

-----------------------------------------------------------------------------
\* A handler that hands on a sound function, open or about to start a block.
LEMMA GoOK ==
  ASSUME GenInv, status = "emit", todo # <<>>,
         NEW f, Sound(f), NEW next, PartOK(next),
         next # <<>> /\ Branches(next[Len(next)]) => Branches(todo[1]),
         \/ Open(f)
         \/ next # <<>> /\ Starts(next[1])
         \/ next = <<>> /\ Branches(todo[1]),
         Go(f, next)
  PROVE  GenInv'
<1>1. TodoOK(todo) /\ status' = "emit" /\ fn' = f /\ todo' = next \o Tail(todo)
  BY DEF GenInv, Go
<1>2. TodoOK(todo')
  BY <1>1, TodoStep
<1>3. CASE Open(f)
  BY <1>1, <1>2, <1>3 DEF GenInv
<1>4. PICK S, T : todo \in Seq(S) /\ next \in Seq(T)
  BY <1>1 DEF TodoOK, PartOK
<1>5. /\ todo' \in Seq(T \cup S) /\ Len(todo') = Len(next) + Len(todo) - 1
      /\ \A i \in 1..Len(next) : todo'[i] = next[i]
      /\ \A i \in 1..Len(todo) - 1 : todo'[Len(next) + i] = todo[i + 1]
  <2>1. T \cup S = S \cup T
    OBVIOUS
  <2> QED
    BY <1>1, <1>4, <2>1, ConcatTail
<1>6. CASE next # <<>> /\ Starts(next[1])
  <2>1. 1 \in 1..Len(next) /\ Len(todo') # 0
    BY <1>4, <1>5, <1>6
  <2>2. todo'[1] = next[1] /\ todo' # <<>>
    BY <1>5, <2>1
  <2> QED
    BY <1>1, <1>2, <1>6, <2>2 DEF GenInv
<1>7. CASE next = <<>> /\ Branches(todo[1])
  <2>1. Len(todo) # 1
    BY <1>1, <1>7 DEF TodoOK
  <2>2. 1 \in 1..Len(todo) - 1 /\ Len(next) = 0
    <3>1. Len(todo) \in Nat /\ Len(todo) # 0
      BY <1>4
    <3>2. Len(next) = 0
      BY <1>7
    <3> QED
      BY <2>1, <3>1, <3>2
  <2>3. Starts(todo[2])
    <3>1. \A i \in 1..Len(todo) - 1 : Branches(todo[i]) => Starts(todo[i + 1])
      BY <1>1 DEF TodoOK, PartOK
    <3> QED
      BY <1>7, <2>2, <3>1
  <2>4. todo'[1] = todo[2] /\ todo' # <<>>
    BY <1>5, <2>2
  <2> QED
    BY <1>1, <1>2, <2>3, <2>4 DEF GenInv
<1> QED
  BY <1>3, <1>6, <1>7

\* The usual case of it.
LEMMA GoOpen ==
  ASSUME GenInv, status = "emit", todo # <<>>,
         NEW f, Sound(f), Open(f), NEW next, TodoOK(next), Go(f, next)
  PROVE  GenInv'
BY GoOK DEF TodoOK

LEMMA StopOK ==
  ASSUME NEW how \in {"error", "crash"}, Stop(how) PROVE GenInv'
BY DEF Stop, GenInv

LEMMA TopOK ==
  ASSUME GenInv, NEW op, Running(op)
  PROVE  /\ status = "emit" /\ todo # <<>> /\ Sound(fn)
         /\ Top = todo[1] /\ Top.op = op /\ PieceOK(Top)
         /\ op \notin {"block", "logic.rhs"} => Open(fn)
<1>1. status = "emit" /\ todo # <<>> /\ Top.op = op
  BY DEF Running
<1>2. Sound(fn) /\ TodoOK(todo) /\ (Open(fn) \/ Starts(todo[1]))
  BY <1>1 DEF GenInv
<1>3. PICK S : todo \in Seq(S)
  BY <1>2 DEF TodoOK, PartOK
<1>4. Top = todo[1] /\ 1 \in 1..Len(todo)
  BY <1>1, <1>3 DEF Top
<1> QED
  BY <1>1, <1>2, <1>4 DEF TodoOK, PartOK, Starts

LEMMA EnsuredOK ==
  ASSUME GenInv, Running("stmt") PROVE Sound(Ensured) /\ Open(Ensured)
<1>1. Sound(fn) /\ Open(fn)
  BY TopOK
<1> QED
  BY <1>1, EmitBlockOK, BlocksDiffer DEF Ensured

LEMMA PlainPiece ==
  ASSUME NEW op, op \notin {"block", "branch", "condbr"}, NEW n
  PROVE  PieceOK(Piece(op, n)) /\ ~Branches(Piece(op, n))
BY DEF PieceOK, Branches, Piece

LEMMA StmtPiece ==
  ASSUME NEW n PROVE PieceOK(EmitStmt(n)) /\ ~Branches(EmitStmt(n))
BY PlainPiece DEF EmitStmt

LEMMA ExprPiece ==
  ASSUME NEW n PROVE PieceOK(Accept(n)) /\ ~Branches(Accept(n))
BY PlainPiece DEF Accept

LEMMA ResumePiece ==
  ASSUME NEW op, op \notin {"block", "branch", "condbr"}, NEW n
  PROVE  PieceOK(Resume(op, n)) /\ ~Branches(Resume(op, n))
BY PlainPiece DEF Resume

LEMMA BlockPiece ==
  ASSUME NEW b, b # NoBlock
  PROVE  PieceOK(StartBlock(b)) /\ ~Branches(StartBlock(b)) /\ Starts(StartBlock(b))
BY DEF PieceOK, Branches, Starts, StartBlock

LEMMA BranchPiece ==
  ASSUME NEW e, NEW t, NEW f, t # NoBlock, f # NoBlock
  PROVE  PieceOK(BranchOn(e, t, f)) /\ PieceOK(CreateCondBr(t, f))
BY DEF PieceOK, Branches, BranchOn, CreateCondBr

-----------------------------------------------------------------------------
\* Every step of the code generator, one handler at a time.
LEMMA StartInv ==
  ASSUME GenInv, StartFunction PROVE GenInv'
<1>1. /\ fn' = StartedFunction /\ status' = "emit"
      /\ todo' = <<EmitStmt(1), Resume("finish", 1)>>
  BY DEF StartFunction
<1>2. Sound(StartedFunction) /\ Open(StartedFunction)
  <2> DEFINE blk == [b \in {EntryBlock} |-> Empty]
  <2>1. EntryBlock # NoBlock
    BY BlocksDiffer DEF EntryBlock
  <2>2. StartedFunction = [blk |-> blk, phi |-> {}, loose |-> {}, at |-> EntryBlock]
    BY DEF StartedFunction
  <2>3. DOMAIN blk = {EntryBlock} /\ blk[EntryBlock] = Empty
        /\ blk = [b \in DOMAIN blk |-> blk[b]]
    OBVIOUS
  <2> HIDE DEF blk
  <2> QED
    BY <2>1, <2>2, <2>3, EmptyOK DEF Sound, FnOK, Complete, Open
<1>3. TodoOK(<<EmitStmt(1), Resume("finish", 1)>>)
  BY TwoParts, StmtPiece, ResumePiece
<1> QED
  BY <1>1, <1>2, <1>3 DEF GenInv

LEMMA SimpleInv ==
  ASSUME GenInv,
         \/ DropStmt \/ VisitLabelStmt \/ VisitNullStmt \/ VisitExprStmt
         \/ VisitDeclaration \/ StoreInit \/ VisitGotoStmt
  PROVE  GenInv'
<1>1. CASE DropStmt
  BY <1>1, TopOK, GoOpen, NonePart DEF DropStmt
<1>2. CASE VisitLabelStmt
  <2> DEFINE b == GetBasicBlockForLabel(Top.n)
  <2>1. Running("stmt") /\ Go(EmitBlock(fn, b), <<EmitStmt(GetBody(Top.n))>>)
    BY <1>2 DEF VisitLabelStmt, Visit
  <2>2. b # NoBlock
    BY BlocksDiffer DEF GetBasicBlockForLabel
  <2>3. TodoOK(<<EmitStmt(GetBody(Top.n))>>)
    BY OnePart, StmtPiece
  <2> QED
    BY <2>1, <2>2, <2>3, TopOK, EmitBlockOK, GoOpen
<1>3. CASE VisitNullStmt
  BY <1>3, TopOK, EnsuredOK, GoOpen, NonePart DEF VisitNullStmt, Visit
<1>4. CASE VisitExprStmt
  <2>1. Running("stmt")
    BY <1>4 DEF VisitExprStmt, Visit
  <2>2. CASE Kids(Top.n) = <<>>
    <3>1. Go(AddEvent(Ensured, <<Top.n, "eval">>), <<>>)
      BY <1>4, <2>2 DEF VisitExprStmt, Evaluate
    <3> QED
      BY <2>1, <3>1, TopOK, EnsuredOK, AddEventOK, GoOpen, NonePart
  <2>3. CASE Kids(Top.n) # <<>>
    <3>1. Go(Ensured, <<Accept(Kids(Top.n)[1])>>)
      BY <1>4, <2>3 DEF VisitExprStmt
    <3>2. TodoOK(<<Accept(Kids(Top.n)[1])>>)
      BY OnePart, ExprPiece
    <3> QED
      BY <2>1, <3>1, <3>2, TopOK, EnsuredOK, GoOpen
  <2> QED
    BY <2>2, <2>3
<1>5. CASE VisitDeclaration
  <2>1. Running("stmt")
    BY <1>5 DEF VisitDeclaration, Visit
  <2>2. CASE Kids(Top.n) = <<>>
    <3>1. Go(AddEvent(fn, <<Top.n, "eval">>), <<>>)
      BY <1>5, <2>2 DEF VisitDeclaration, Evaluate
    <3> QED
      BY <2>1, <3>1, TopOK, AddEventOK, GoOpen, NonePart
  <2>3. CASE Kids(Top.n) # <<>>
    <3>1. Go(fn, <<Accept(Kids(Top.n)[1]), Resume("store", Top.n)>>)
      BY <1>5, <2>3 DEF VisitDeclaration
    <3>2. TodoOK(<<Accept(Kids(Top.n)[1]), Resume("store", Top.n)>>)
      BY TwoParts, ExprPiece, ResumePiece
    <3> QED
      BY <2>1, <3>1, <3>2, TopOK, GoOpen
  <2> QED
    BY <2>2, <2>3
<1>6. CASE VisitGotoStmt
  <2> DEFINE b == GetBasicBlockForLabel(prog[Top.n].to)
  <2>1. Running("stmt") /\ Go(EmitBranchThroughCleanup(fn, b), <<>>)
    BY <1>6 DEF VisitGotoStmt, Visit
  <2>2. b # NoBlock
    BY BlocksDiffer DEF GetBasicBlockForLabel
  <2>3. Sound(EmitBranchThroughCleanup(fn, b)) /\ Open(EmitBranchThroughCleanup(fn, b))
    BY <2>1, <2>2, TopOK, ThroughCleanupOK DEF Open
  <2> QED
    BY <2>1, <2>3, TopOK, GoOpen, NonePart
<1>7. CASE StoreInit
  BY <1>7, TopOK, InsertOK, GoOpen, NonePart DEF StoreInit
<1> QED
  BY <1>1, <1>2, <1>3, <1>4, <1>5, <1>6, <1>7

\* The parser's trees: every list of children is a sequence.
KidLists == \A n \in DOMAIN prog : prog[n].kids \in Seq(Nat)

LEMMA KidsSeq ==
  ASSUME KidLists, NEW n PROVE Kids(n) \in Seq(Nat)
BY DEF KidLists, Kids

LEMMA StmtListInv ==
  ASSUME GenInv, KidLists, VisitCompoundStmt \/ FoldIfStmt \/ VisitStmtExpr
  PROVE  GenInv'
<1>1. CASE VisitCompoundStmt
  <2>1. Running("stmt") /\ Go(fn, Stmts(Top.n))
    BY <1>1 DEF VisitCompoundStmt, Visit
  <2>2. TodoOK(Stmts(Top.n))
    BY KidsSeq, StmtsPart DEF Stmts
  <2> QED
    BY <2>1, <2>2, TopOK, GoOpen
<1>2. CASE VisitStmtExpr
  <2>1. Running("expr") /\ Go(fn, Stmts(Kids(Top.n)[1]))
    BY <1>2 DEF VisitStmtExpr, Expression, Then
  <2>2. TodoOK(Stmts(Kids(Top.n)[1]))
    BY KidsSeq, StmtsPart DEF Stmts
  <2> QED
    BY <2>1, <2>2, TopOK, GoOpen
<1>3. CASE FoldIfStmt
  <2> DEFINE k == Executed(Top.n)
             q == [i \in DOMAIN k |-> EmitStmt(k[i])]
  <2>1. Running("stmt") /\ Go(Ensured, q)
    BY <1>3 DEF FoldIfStmt, Visit
  <2>2. PICK S : k \in Seq(S)
    <3>1. <<GetThen(Top.n)>> \in Seq({GetThen(Top.n)})
          /\ <<GetElse(Top.n)>> \in Seq({GetElse(Top.n)})
          /\ <<>> \in Seq({})
      OBVIOUS
    <3>2. k \in {<<GetThen(Top.n)>>, <<GetElse(Top.n)>>, <<>>}
      BY DEF Executed
    <3> QED
      BY <3>1, <3>2, Zenon
  <2>3. TodoOK(q)
    <3> HIDE DEF k
    <3> QED
      BY <2>2, StmtsPart
  <2> QED
    BY <2>1, <2>3, TopOK, EnsuredOK, GoOpen
<1> QED
  BY <1>1, <1>2, <1>3

LEMMA IfInv ==
  ASSUME GenInv, VisitIfStmt \/ IfElse \/ IfEnd PROVE GenInv'
<1> DEFINE n == Top.n
<1>1. CASE VisitIfStmt
  <2> DEFINE else == Block(n, IF HasElse(n) THEN "else" ELSE "end")
             br == BranchOn(GetCond(n), Block(n, "then"), else)
             next == <<br, StartBlock(Block(n, "then")), EmitStmt(GetThen(n)),
                       Resume("if.else", n)>>
  <2>1. Running("stmt") /\ Go(Ensured, next)
    BY <1>1 DEF VisitIfStmt, Visit
  <2>2. else # NoBlock /\ Block(n, "then") # NoBlock
    BY BlocksDiffer
  <2>3. PieceOK(br) /\ Starts(StartBlock(Block(n, "then")))
    BY <2>2, BranchPiece, BlockPiece
  <2> HIDE DEF br, else
  <2>4. TodoOK(next)
    BY <2>2, <2>3, FourParts, BlockPiece, StmtPiece, ResumePiece
  <2> QED
    BY <2>1, <2>4, TopOK, EnsuredOK, GoOpen
<1>2. CASE IfElse
  <2> DEFINE f == EmitBranch(fn, Block(n, "end"))
  <2>1. Running("if.else")
    BY <1>2 DEF IfElse
  <2>2. Block(n, "end") # NoBlock /\ Block(n, "else") # NoBlock
    BY BlocksDiffer
  <2>3. Sound(f)
    BY <2>1, <2>2, TopOK, EmitBranchOK
  <2>4. CASE HasElse(n)
    <3>1. Go(EmitBlock(f, Block(n, "else")), <<EmitStmt(GetElse(n)), Resume("if.end", n)>>)
      BY <1>2, <2>4 DEF IfElse
    <3>2. TodoOK(<<EmitStmt(GetElse(n)), Resume("if.end", n)>>)
      BY TwoParts, StmtPiece, ResumePiece
    <3> HIDE DEF f
    <3> QED
      BY <2>1, <2>2, <2>3, <3>1, <3>2, TopOK, EmitBlockOK, GoOpen
  <2>5. CASE ~HasElse(n)
    <3>1. Go(EmitFinished(f, Block(n, "end")), <<>>)
      BY <1>2, <2>5 DEF IfElse
    <3> HIDE DEF f
    <3> QED
      BY <2>1, <2>2, <2>3, <3>1, TopOK, EmitFinishedOK, NonePart, GoOpen
  <2> QED
    BY <2>4, <2>5
<1>3. CASE IfEnd
  <2> DEFINE f == EmitBranch(fn, Block(n, "end"))
  <2>1. Running("if.end") /\ Go(EmitFinished(f, Block(n, "end")), <<>>)
    BY <1>3 DEF IfEnd
  <2>2. Block(n, "end") # NoBlock
    BY BlocksDiffer
  <2>3. Sound(f)
    BY <2>1, <2>2, TopOK, EmitBranchOK
  <2> HIDE DEF f
  <2> QED
    BY <2>1, <2>2, <2>3, TopOK, EmitFinishedOK, NonePart, GoOpen
<1> QED
  BY <1>1, <1>2, <1>3

LEMMA AddCaseOK ==
  ASSUME NEW f, Sound(f), Open(f), NEW s \in DOMAIN f.blk, NEW n, NEW b, b # NoBlock
  PROVE  Sound(AddCase(f, s, n, b)) /\ Open(AddCase(f, s, n, b))
<1> DEFINE g == AddCase(f, s, n, b)
           old == f.blk[s].term
           to == [x \in DOMAIN old.to \cup {n} |-> IF x = n THEN b ELSE old.to[x]]
           new == [f.blk[s] EXCEPT !.term.to = to]
<1>1. BlkOK(f.blk[s])
  BY DEF Sound, FnOK
<1>2. /\ to = [x \in DOMAIN to |-> to[x]] /\ DOMAIN to = DOMAIN old.to \cup {n}
      /\ \A x \in DOMAIN to : to[x] # NoBlock
  BY <1>1 DEF BlkOK, TermOK
<1>3. g = [f EXCEPT !.blk[s].term.to = to]
  BY DEF AddCase
<1> HIDE DEF to, g
<1>4. BlkOK(new) /\ new.term.op = old.op
  <2>1. /\ new.code = f.blk[s].code
        /\ new.term.op = old.op /\ new.term.of = old.of /\ new.term.to = to
        /\ new = [code |-> new.code, term |-> new.term]
        /\ new.term = [op |-> new.term.op, of |-> new.term.of, to |-> new.term.to]
    BY <1>1 DEF BlkOK, TermOK
  <2>2. old.op \in {"br", "switch"} => 0 \in DOMAIN to
    BY <1>1, <1>2 DEF BlkOK, TermOK
  <2> HIDE DEF new, old
  <2> QED
    BY <2>1, <2>2, <1>2 DEF BlkOK, TermOK
<1> HIDE DEF new
<1>5. /\ g = [blk |-> g.blk, phi |-> g.phi, loose |-> g.loose, at |-> g.at]
      /\ g.at = f.at /\ g.blk = [f.blk EXCEPT ![s] = new]
  BY <1>3 DEF Sound, FnOK, new
<1>6. /\ DOMAIN g.blk = DOMAIN f.blk /\ g.blk = [x \in DOMAIN g.blk |-> g.blk[x]]
      /\ g.blk[s] = new /\ \A x \in DOMAIN f.blk \ {s} : g.blk[x] = f.blk[x]
  BY <1>5 DEF Sound, FnOK
<1> QED
  BY <1>4, <1>5, <1>6 DEF Sound, FnOK, Complete, Open, g

LEMMA SwitchInv ==
  ASSUME GenInv, VisitCaseStmt \/ VisitDefaultStmt \/ VisitSwitchStmt \/ SwitchEnd
  PROVE  GenInv'
<1> DEFINE n == Top.n
<1>1. CASE VisitCaseStmt
  <2> DEFINE f == EmitBlock(fn, Block(n, "case"))
             b == Block(n, "case")
             g == AddCase(f, switchInst, n, b)
  <2>1. Running("stmt")
    BY <1>1 DEF VisitCaseStmt, Visit
  <2>2. b # NoBlock
    BY BlocksDiffer
  <2>3. Sound(f) /\ Open(f)
    BY <2>1, <2>2, TopOK, EmitBlockOK
  <2>4. CASE ~InSwitch
    BY <1>1, <2>4, StopOK DEF VisitCaseStmt
  <2>5. CASE InSwitch
    <3>1. Go(g, <<EmitStmt(GetBody(n))>>)
      BY <1>1, <2>5 DEF VisitCaseStmt
    <3>2. TodoOK(<<EmitStmt(GetBody(n))>>)
      BY OnePart, StmtPiece
    <3>3. switchInst \in DOMAIN f.blk
      BY <2>1, <2>2, <2>5, TopOK, EmitBlockKeeps DEF InSwitch
    <3> HIDE DEF f, b
    <3>4. Sound(g) /\ Open(g)
      BY <2>2, <2>3, <3>3, AddCaseOK
    <3> HIDE DEF g
    <3> QED
      BY <2>1, <3>1, <3>2, <3>4, TopOK, GoOpen
  <2> QED
    BY <2>4, <2>5
<1>2. CASE VisitDefaultStmt
  <2> DEFINE b == fn.blk[switchInst].term.to[0]
  <2>1. Running("stmt")
    BY <1>2 DEF VisitDefaultStmt, Visit
  <2>2. CASE ~InSwitch \/ b \in DOMAIN fn.blk
    BY <1>2, <2>2, StopOK DEF VisitDefaultStmt
  <2>3. CASE ~(~InSwitch \/ b \in DOMAIN fn.blk)
    <3>1. Go(EmitBlock(fn, b), <<EmitStmt(GetBody(n))>>)
      BY <1>2, <2>3 DEF VisitDefaultStmt
    <3>2. TodoOK(<<EmitStmt(GetBody(n))>>)
      BY OnePart, StmtPiece
    <3>3. Sound(fn)
      BY <2>1, TopOK
    <3>4. b # NoBlock
      <4> DEFINE t == fn.blk[switchInst].term
      <4>1. switchInst \in DOMAIN fn.blk /\ t.op = "switch"
        BY <2>3 DEF InSwitch
      <4>2. BlkOK(fn.blk[switchInst])
        BY <3>3, <4>1 DEF Sound, FnOK
      <4> QED
        BY <4>1, <4>2 DEF BlkOK, TermOK
    <3> HIDE DEF b
    <3> QED
      BY <2>1, <3>1, <3>2, <3>3, <3>4, TopOK, EmitBlockOK, GoOpen
  <2> QED
    BY <2>2, <2>3
<1>3. CASE VisitSwitchStmt
  <2> DEFINE f == AddEvent(Ensured, <<n, "eval">>)
             t == Switch(Block(n, "default"))
             g == CreateTerm(f, t)
             next == <<EmitStmt(GetBody(n)), RestoreSwitch(n)>>
  <2>1. Running("stmt") /\ Go(ClearInsertionPoint(g), next)
    BY <1>3 DEF VisitSwitchStmt, Visit
  <2>2. Sound(f)
    BY <2>1, EnsuredOK, AddEventOK
  <2>3. TermOK(t) /\ t.op = "switch"
    BY BlocksDiffer, SwitchOK
  <2>4. PieceOK(RestoreSwitch(n)) /\ ~Branches(RestoreSwitch(n))
    BY DEF RestoreSwitch, PieceOK, Branches
  <2>5. TodoOK(next)
    BY <2>4, TwoParts, StmtPiece
  <2> HIDE DEF f, t
  <2>6. Sound(g) /\ g.at = f.at /\ (f.at # NoBlock => g.blk[f.at].term.op # "none")
    BY <2>2, <2>3, CreateTermOK
  <2> HIDE DEF g, next
  <2>7. Sound(ClearInsertionPoint(g)) /\ Open(ClearInsertionPoint(g))
    BY <2>6, ClearOK DEF Open
  <2> QED
    BY <2>1, <2>5, <2>7, TopOK, GoOpen
<1>4. CASE SwitchEnd
  <2> DEFINE default == Block(n, "default")
             f == IF default \in DOMAIN fn.blk THEN fn
                  ELSE ReplaceAllUses(fn, default, Block(n, "end"))
  <2>1. Running("switch.end") /\ Go(EmitFinished(f, Block(n, "end")), <<>>)
    BY <1>4 DEF SwitchEnd
  <2>2. Block(n, "end") # NoBlock
    BY BlocksDiffer
  <2>3. Sound(f)
    BY <2>1, <2>2, TopOK, ReplaceOK
  <2> HIDE DEF f
  <2> QED
    BY <2>1, <2>2, <2>3, TopOK, EmitFinishedOK, NonePart, GoOpen
<1> QED
  BY <1>1, <1>2, <1>3, <1>4

LEMMA LoopStartInv ==
  ASSUME GenInv,
         VisitWhileStmt \/ VisitDoWhileStmt \/ DoWhileCond \/ VisitForStmt \/ ForBody
  PROVE  GenInv'
<1> DEFINE n == Top.n
<1>1. Block(n, "cond") # NoBlock /\ Block(n, "body") # NoBlock /\ Block(n, "end") # NoBlock
  BY BlocksDiffer
<1>2. CASE VisitWhileStmt
  <2> DEFINE next == <<Accept(GetCond(n)), Resume("while.body", n)>>
  <2>1. Running("stmt") /\ Go(EmitBlock(Ensured, Block(n, "cond")), next)
    BY <1>2 DEF VisitWhileStmt, Visit
  <2>2. TodoOK(next)
    BY TwoParts, ExprPiece, ResumePiece
  <2> HIDE DEF next
  <2> QED
    BY <1>1, <2>1, <2>2, TopOK, EnsuredOK, EmitBlockOK, GoOpen
<1>3. CASE VisitDoWhileStmt
  <2> DEFINE next == <<EmitStmt(GetBody(n)), Resume("do.cond", n)>>
  <2>1. Running("stmt") /\ Go(EmitBlock(Ensured, Block(n, "body")), next)
    BY <1>3 DEF VisitDoWhileStmt, Visit
  <2>2. TodoOK(next)
    BY TwoParts, StmtPiece, ResumePiece
  <2> HIDE DEF next
  <2> QED
    BY <1>1, <2>1, <2>2, TopOK, EnsuredOK, EmitBlockOK, GoOpen
<1>4. CASE DoWhileCond
  <2> DEFINE next == <<Accept(GetCond(n)), Resume("do.end", n)>>
  <2>1. Running("do.cond") /\ Go(EmitBlock(fn, Block(n, "cond")), next)
    BY <1>4 DEF DoWhileCond
  <2>2. TodoOK(next)
    BY TwoParts, ExprPiece, ResumePiece
  <2> HIDE DEF next
  <2> QED
    BY <1>1, <2>1, <2>2, TopOK, EmitBlockOK, GoOpen
<1>5. CASE VisitForStmt
  <2> DEFINE init == IF Has(n, "init") THEN AddEvent(Ensured, <<n, "init">>) ELSE Ensured
             br == BranchOn(GetCond(n), Block(n, "body"), Block(n, "end"))
             body == Resume("for.body", n)
             next == IF ~Has(n, "cond") THEN <<body>>
                     ELSE <<br, StartBlock(Block(n, "body")), body>>
  <2>1. Running("stmt") /\ Go(EmitBlock(init, Block(n, "cond")), next)
    BY <1>5 DEF VisitForStmt, Visit
  <2>2. Sound(init)
    BY <2>1, EnsuredOK, AddEventOK
  <2>3. TodoOK(next)
    <3>1. PieceOK(br) /\ PieceOK(body) /\ ~Branches(body)
      BY <1>1, BranchPiece, ResumePiece
    <3>2. LET p == StartBlock(Block(n, "body"))
          IN  PieceOK(p) /\ Starts(p) /\ ~Branches(p)
      BY <1>1, BlockPiece
    <3> HIDE DEF br, body
    <3> QED
      BY <3>1, <3>2, OnePart, ThreeParts
  <2> HIDE DEF init, next
  <2> QED
    BY <1>1, <2>1, <2>2, <2>3, TopOK, EmitBlockOK, GoOpen
<1>6. CASE ForBody
  <2> DEFINE next == <<EmitStmt(GetBody(n)), Resume("for.end", n)>>
  <2>1. Running("for.body") /\ Go(fn, next)
    BY <1>6 DEF ForBody
  <2>2. TodoOK(next)
    BY TwoParts, StmtPiece, ResumePiece
  <2> HIDE DEF next
  <2> QED
    BY <2>1, <2>2, TopOK, GoOpen
<1> QED
  BY <1>2, <1>3, <1>4, <1>5, <1>6

LEMMA LoopEndInv ==
  ASSUME GenInv, WhileBody \/ WhileEnd \/ DoWhileEnd \/ ForEnd
  PROVE  GenInv'
<1> DEFINE n == Top.n
           cond == Block(n, "cond")
           body == Block(n, "body")
           end == Block(n, "end")
           br == CondBr(result, body, end)
<1>1. cond # NoBlock /\ body # NoBlock /\ end # NoBlock /\ cond # end
  BY BlocksDiffer DEF Block
<1>b. TermOK(br) /\ br.op = "condbr"
  BY <1>1, CondBrOK
<1> HIDE DEF br
<1>2. CASE WhileBody
  <2> DEFINE f == IF IsOne THEN fn ELSE CreateTerm(Use(fn, result), br)
             rest == Resume(IF IsOne THEN "while.end.one" ELSE "while.end", n)
             next == <<EmitStmt(GetBody(n)), rest>>
  <2>1. Running("while.body") /\ Go(EmitBlock(f, body), next)
    BY <1>2 DEF WhileBody, br
  <2>2. TodoOK(next)
    BY TwoParts, StmtPiece, ResumePiece
  <2>3. Sound(f)
    BY <1>b, <2>1, TopOK, UseOK, CreateTermOK
  <2> HIDE DEF f, next
  <2> QED
    BY <1>1, <2>1, <2>2, <2>3, TopOK, EmitBlockOK, GoOpen
<1>3. CASE WhileEnd
  <2> DEFINE g == EmitBranch(fn, cond)
             f == EmitFinished(g, end)
  <2>1. \/ Go(f, <<>>) \/ Stop("crash")
        \/ Simplifies(f, cond) /\ Go(SimplifyForwardingBlocks(f, cond), <<>>)
    BY <1>3 DEF WhileEnd
  <2>2. PICK op \in {"while.end", "while.end.one"} : Running(op)
    BY <1>3 DEF WhileEnd
  <2>3. Sound(g)
    BY <1>1, <2>2, TopOK, EmitBranchOK
  <2> HIDE DEF g
  <2>4. Sound(f) /\ Open(f) /\ f.at # cond
    BY <1>1, <2>3, EmitFinishedOK
  <2> HIDE DEF f, cond
  <2>5. CASE Go(f, <<>>)
    BY <2>2, <2>4, <2>5, TopOK, GoOpen, NonePart
  <2>6. CASE Stop("crash")
    BY <2>6, StopOK
  <2>7. CASE Simplifies(f, cond) /\ Go(SimplifyForwardingBlocks(f, cond), <<>>)
    <3>1. Sound(SimplifyForwardingBlocks(f, cond)) /\ Open(SimplifyForwardingBlocks(f, cond))
      BY <2>4, <2>7, SimplifyOK DEF Simplifies
    <3> QED
      BY <2>2, <2>7, <3>1, TopOK, GoOpen, NonePart
  <2> QED
    BY <2>1, <2>5, <2>6, <2>7
<1>4. CASE DoWhileEnd
  <2> DEFINE g == IF IsZero THEN fn ELSE CreateTerm(Use(fn, result), br)
             f == EmitBlock(g, end)
  <2>1. /\ Running("do.end")
        /\ \/ Go(f, <<>>) \/ Stop("crash")
           \/ Simplifies(f, cond) /\ Go(SimplifyForwardingBlocks(f, cond), <<>>)
    BY <1>4 DEF DoWhileEnd, br
  <2>2. Sound(g)
    BY <1>b, <2>1, TopOK, UseOK, CreateTermOK
  <2> HIDE DEF g
  <2>3. Sound(f) /\ Open(f) /\ f.at # cond
    BY <1>1, <2>2, EmitBlockOK
  <2> HIDE DEF f, cond
  <2>4. CASE Go(f, <<>>)
    BY <2>1, <2>3, <2>4, TopOK, GoOpen, NonePart
  <2>5. CASE Stop("crash")
    BY <2>5, StopOK
  <2>6. CASE Simplifies(f, cond) /\ Go(SimplifyForwardingBlocks(f, cond), <<>>)
    <3>1. Sound(SimplifyForwardingBlocks(f, cond)) /\ Open(SimplifyForwardingBlocks(f, cond))
      BY <2>3, <2>6, SimplifyOK DEF Simplifies
    <3> QED
      BY <2>1, <2>6, <3>1, TopOK, GoOpen, NonePart
  <2> QED
    BY <2>1, <2>4, <2>5, <2>6
<1>5. CASE ForEnd
  <2> DEFINE inc == EmitBlock(fn, Block(n, "inc"))
             f == IF Has(n, "inc") THEN AddEvent(inc, <<n, "inc">>) ELSE fn
             g == EmitBranch(f, cond)
  <2>1. Running("for.end") /\ Go(EmitFinished(g, end), <<>>)
    BY <1>5 DEF ForEnd
  <2>2. Sound(inc) /\ Sound(fn)
    BY <2>1, BlocksDiffer, TopOK, EmitBlockOK
  <2> HIDE DEF inc
  <2>3. Sound(f)
    BY <2>2, AddEventOK
  <2> HIDE DEF f
  <2>4. Sound(g)
    BY <1>1, <2>3, EmitBranchOK
  <2> HIDE DEF g
  <2> QED
    BY <1>1, <2>1, <2>4, TopOK, EmitFinishedOK, NonePart, GoOpen
<1> QED
  BY <1>2, <1>3, <1>4, <1>5

LEMMA JumpInv ==
  ASSUME GenInv, VisitContinueStmt \/ VisitBreakStmt \/ VisitReturnStmt
  PROVE  GenInv'
<1>1. Running("stmt")
  BY DEF VisitContinueStmt, VisitBreakStmt, VisitReturnStmt, Visit
<1>2. ASSUME NEW b, BranchTo(b) PROVE GenInv'
  <2>1. CASE b = NoBlock /\ HaveInsertPoint(fn)
    BY <1>2, <2>1, StopOK DEF BranchTo
  <2>2. CASE ~(b = NoBlock /\ HaveInsertPoint(fn))
    <3> DEFINE f == EmitBranchThroughCleanup(fn, b)
    <3>1. Go(f, <<>>)
      BY <1>2, <2>2 DEF BranchTo
    <3>2. Sound(fn) /\ Open(fn)
      BY <1>1, TopOK
    <3>3. CASE b = NoBlock
      <4>1. f = fn
        BY <2>2, <3>3 DEF EmitBranchThroughCleanup
      <4> QED
        BY <1>1, <3>1, <3>2, <4>1, TopOK, GoOpen, NonePart
    <3>4. CASE b # NoBlock
      <4>1. Sound(f) /\ Open(f)
        BY <3>2, <3>4, ThroughCleanupOK DEF Open
      <4> HIDE DEF f
      <4> QED
        BY <1>1, <3>1, <4>1, TopOK, GoOpen, NonePart
    <3> QED
      BY <3>3, <3>4
  <2> QED
    BY <2>1, <2>2
<1>3. CASE VisitContinueStmt
  BY <1>2, <1>3, StopOK DEF VisitContinueStmt
<1>4. CASE VisitBreakStmt
  BY <1>2, <1>4, StopOK DEF VisitBreakStmt
<1>5. CASE VisitReturnStmt
  <2> DEFINE e == AddEvent(Ensured, <<Top.n, "eval">>)
             f == EmitBranchThroughCleanup(Ensured, ReturnBlock)
             g == EmitBranchThroughCleanup(e, ReturnBlock)
  <2>1. Go(f, <<>>) \/ Go(g, <<>>) \/ Stop("error")
    BY <1>5 DEF VisitReturnStmt, Evaluate
  <2>2. ReturnBlock # NoBlock
    BY BlocksDiffer DEF ReturnBlock
  <2>3. Sound(Ensured) /\ Sound(e)
    BY <1>1, EnsuredOK, AddEventOK
  <2> HIDE DEF e
  <2>4. Sound(f) /\ Open(f) /\ Sound(g) /\ Open(g)
    BY <2>2, <2>3, ThroughCleanupOK DEF Open
  <2> HIDE DEF f, g
  <2> QED
    BY <1>1, <2>1, <2>4, TopOK, GoOpen, StopOK, NonePart
<1> QED
  BY <1>3, <1>4, <1>5

LEMMA ValueInv ==
  ASSUME GenInv,
         \/ VisitConstantExpr \/ VisitFuncCallExpr \/ VisitCommaExpr
         \/ VisitUnaryOpExpr \/ LogicNotOp \/ SelectArm
  PROVE  GenInv'
<1> DEFINE e == AddEvent(fn, <<Top.n, "eval">>)
           u == Use(fn, result)
<1>1. PICK op \in {"expr", "not", "select"} : Running(op)
  BY DEF VisitConstantExpr, VisitFuncCallExpr, VisitCommaExpr, VisitUnaryOpExpr,
         LogicNotOp, SelectArm, Expression
<1>2. Sound(fn) /\ Open(fn)
  BY <1>1, TopOK
<1>3. Sound(e) /\ Open(e) /\ Sound(u) /\ Open(u)
  BY <1>2, AddEventOK, UseOK
<1>4. \/ Go(fn, <<>>) \/ Go(e, <<>>) \/ Go(u, <<>>)
      \/ Go(fn, <<Accept(Kids(Top.n)[1]), Resume("not", Top.n)>>)
  BY DEF VisitConstantExpr, VisitFuncCallExpr, VisitCommaExpr, VisitUnaryOpExpr,
         LogicNotOp, SelectArm, Value, Evaluate, Then
<1>5. TodoOK(<<Accept(Kids(Top.n)[1]), Resume("not", Top.n)>>)
  BY TwoParts, ExprPiece, ResumePiece
<1> HIDE DEF e, u
<1> QED
  BY <1>1, <1>2, <1>3, <1>4, <1>5, TopOK, GoOpen, NonePart

LEMMA ConditionInv ==
  ASSUME GenInv, VisitConditionOpExpr \/ CondLhsEnd \/ CondRhsEnd PROVE GenInv'
<1> DEFINE n == Top.n
           end == Block(n, "end")
           arm == EndArm(fn, n)
<1>1. end # NoBlock /\ Block(n, "lhs") # NoBlock /\ Block(n, "rhs") # NoBlock
  BY BlocksDiffer
<1>a. ASSUME Sound(fn) PROVE Sound(arm) /\ Open(arm)
  BY <1>1, <1>a, AddIncomingOK, EmitBranchOK DEF EndArm, Open
<1> HIDE DEF arm
<1>2. CASE VisitConditionOpExpr
  <2> DEFINE e(i) == Accept(Kids(n)[i])
             p == BranchOn(Kids(n)[1], Block(n, "lhs"), Block(n, "rhs"))
             l == StartBlock(Block(n, "lhs"))
             r == StartBlock(Block(n, "rhs"))
             one == <<Accept(IF Calc(Kids(n)[1]) = 0 THEN Kids(n)[3] ELSE Kids(n)[2])>>
             two == <<e(1), Resume("select", n)>>
             all == <<p, l, e(2), Resume("cond.lhs", n), r, e(3), Resume("cond.rhs", n)>>
  <2>1. Running("expr") /\ (Go(fn, one) \/ Go(fn, two) \/ Go(fn, all))
    BY <1>2 DEF VisitConditionOpExpr, Expression, Then
  <2>2. TodoOK(one) /\ TodoOK(two)
    BY OnePart, TwoParts, ExprPiece, ResumePiece
  <2>3. PieceOK(p) /\ PieceOK(l) /\ PieceOK(r) /\ ~Branches(l) /\ ~Branches(r) /\ Starts(l)
    BY <1>1, BranchPiece, BlockPiece
  <2> HIDE DEF p, l, r
  <2>4. TodoOK(all)
    BY <2>3, SevenParts, ExprPiece, ResumePiece
  <2> HIDE DEF one, two, all
  <2> QED
    BY <2>1, <2>2, <2>4, TopOK, GoOpen
<1>3. CASE CondLhsEnd
  <2>1. Running("cond.lhs") /\ Go(arm, <<>>)
    BY <1>3 DEF CondLhsEnd, arm
  <2> QED
    BY <1>a, <2>1, TopOK, GoOpen, NonePart
<1>4. CASE CondRhsEnd
  <2>1. Running("cond.rhs") /\ Go(EmitBlock(arm, end), <<>>)
    BY <1>4 DEF CondRhsEnd, Evaluate, arm
  <2> QED
    BY <1>1, <1>a, <2>1, TopOK, EmitBlockOK, GoOpen, NonePart
<1> QED
  BY <1>2, <1>3, <1>4

LEMMA LogicInv ==
  ASSUME GenInv, VisitLogicOp \/ LogicRhs \/ LogicEnd PROVE GenInv'
<1> DEFINE n == Top.n
           end == Block(n, "end")
           rhs == Block(n, "rhs")
<1>1. end # NoBlock /\ rhs # NoBlock
  BY BlocksDiffer
<1>2. CASE VisitLogicOp
  <2> DEFINE br == IF Kind(n) = "And" THEN BranchOn(Kids(n)[1], rhs, end)
                   ELSE BranchOn(Kids(n)[1], end, rhs)
             logic == Resume("logic.rhs", n)
             two == <<br, logic>>
             one == <<Accept(Kids(n)[2])>>
  <2>1. /\ Running("expr")
        /\ Go(fn, two) \/ Go(fn, <<>>) \/ Go(fn, one)
    BY <1>2 DEF VisitLogicOp, Expression, Then, Value
  <2>2. PieceOK(br) /\ PieceOK(logic) /\ ~Branches(logic) /\ Starts(logic)
    BY <1>1, BranchPiece, ResumePiece DEF Starts, Resume, Piece
  <2> HIDE DEF br, logic
  <2>3. TodoOK(two) /\ TodoOK(one)
    BY <2>2, OnePart, TwoParts, ExprPiece
  <2> HIDE DEF one, two
  <2> QED
    BY <2>1, <2>3, TopOK, GoOpen, NonePart
<1>3. CASE LogicRhs
  <2> DEFINE phi == fn.phi \cup {[at |-> end, from |-> p, of |-> ShortValue(n).of] :
                                    p \in Predecessors(fn, end)}
             f == [fn EXCEPT !.phi = phi]
             next == <<Accept(Kids(n)[2]), Resume("logic.end", n)>>
  <2>1. Running("logic.rhs") /\ Go(EmitBlock(f, rhs), next)
    BY <1>3 DEF LogicRhs
  <2> HIDE DEF phi
  <2>2. Sound(f)
    BY <2>1, TopOK, PhiOK
  <2>3. TodoOK(next)
    BY TwoParts, ExprPiece, ResumePiece
  <2> HIDE DEF f, next
  <2> QED
    BY <1>1, <2>1, <2>2, <2>3, TopOK, EmitBlockOK, GoOpen
<1>4. CASE LogicEnd
  <2> DEFINE f == EmitBlock(fn, end)
  <2>1. Running("logic.end") /\ Go(AddIncoming(f, end, fn.at, result), <<>>)
    BY <1>4 DEF LogicEnd, Evaluate
  <2>2. Sound(f) /\ Open(f)
    BY <1>1, <2>1, TopOK, EmitBlockOK
  <2> HIDE DEF f
  <2> QED
    BY <2>1, <2>2, TopOK, AddIncomingOK, GoOpen, NonePart
<1> QED
  BY <1>2, <1>3, <1>4

LEMMA BranchInv ==
  ASSUME GenInv, EmitBranchOnBoolExpr \/ BranchOnValue \/ EmitNextBlock PROVE GenInv'
<1> DEFINE n == Top.n
           t == Top.t
           f == Top.f
<1>1. CASE EmitBranchOnBoolExpr
  <2> DEFINE e(i) == Kids(n)[i]
             lhs == Block(n, "lhs")
             rhs == Block(n, "rhs")
             l == StartBlock(lhs)
             r == StartBlock(rhs)
             and == <<BranchOn(e(1), lhs, f), l, BranchOn(e(2), t, f)>>
             or == <<BranchOn(e(1), t, lhs), l, BranchOn(e(2), t, f)>>
             not == <<BranchOn(e(1), f, t)>>
             cond == <<BranchOn(e(1), lhs, rhs), l, BranchOn(e(2), t, f), r,
                       BranchOn(e(3), t, f)>>
             other == <<Accept(n), CreateCondBr(t, f)>>
  <2>1. Running("branch")
    BY <1>1 DEF EmitBranchOnBoolExpr
  <2>2. \/ Go(fn, and) \/ Go(fn, or) \/ Go(fn, not) \/ Go(fn, cond) \/ Go(fn, other)
    BY <1>1, Zenon DEF EmitBranchOnBoolExpr, Then
  <2>3. t # NoBlock /\ f # NoBlock /\ lhs # NoBlock /\ rhs # NoBlock
    BY <2>1, TopOK, BlocksDiffer DEF PieceOK, Branches
  <2>4. PieceOK(l) /\ PieceOK(r) /\ Starts(l) /\ Starts(r) /\ ~Branches(l) /\ ~Branches(r)
    BY <2>3, BlockPiece
  <2> HIDE DEF l, r
  <2>5. PartOK(and) /\ PartOK(or)
    BY <2>3, <2>4, ThreeParts, BranchPiece
  <2>6. PartOK(not) /\ PartOK(other)
    BY <2>3, OnePart, TwoParts, BranchPiece, ExprPiece
  <2>7. PartOK(cond)
    BY <2>3, <2>4, FiveParts, BranchPiece
  <2>8. Branches(todo[1]) /\ status = "emit" /\ todo # <<>> /\ Sound(fn) /\ Open(fn)
    BY <2>1, TopOK DEF Branches
  <2> HIDE DEF and, or, not, cond, other
  <2> QED
    BY <2>2, <2>5, <2>6, <2>7, <2>8, GoOK
<1>2. CASE BranchOnValue
  <2>1. Running("condbr") /\ Go(CreateTerm(Use(fn, result), CondBr(result, t, f)), <<>>)
    BY <1>2 DEF BranchOnValue
  <2>2. Branches(todo[1]) /\ t # NoBlock /\ f # NoBlock
    BY <2>1, TopOK DEF PieceOK, Branches
  <2>3. Sound(CreateTerm(Use(fn, result), CondBr(result, t, f)))
    BY <2>1, <2>2, TopOK, UseOK, CondBrOK, CreateTermOK
  <2> QED
    BY <2>1, <2>2, <2>3, TopOK, GoOK, NonePart
<1>3. CASE EmitNextBlock
  <2>1. Running("block") /\ Go(EmitBlock(fn, t), <<>>)
    BY <1>3 DEF EmitNextBlock
  <2>2. t # NoBlock
    BY <2>1, TopOK DEF PieceOK
  <2> QED
    BY <2>1, <2>2, TopOK, EmitBlockOK, GoOpen, NonePart
<1> QED
  BY <1>1, <1>2, <1>3

LEMMA FinishInv ==
  ASSUME GenInv, FinishFunction PROVE GenInv'
<1> DEFINE r == EmitReturnBlock(fn)
           f == EmitFunctionEpilog(r)
<1>1. Running("finish")
  BY DEF FinishFunction
<1>2. CASE Stop("crash")
  BY <1>2, StopOK
<1>3. CASE ~Stop("crash")
  <2>1. fn' = f /\ status' \in {"done", "broken"}
    BY <1>3 DEF FinishFunction
  <2>2. Sound(fn) /\ ReturnBlock # NoBlock
    BY <1>1, TopOK, BlocksDiffer DEF ReturnBlock
  <2>3. Sound(r) /\ r.at # NoBlock
    <3>1. CASE HaveInsertPoint(fn) /\ (IsEmpty(fn, fn.at) \/ UseEmpty(fn, ReturnBlock))
      BY <2>2, <3>1, ReplaceOK DEF EmitReturnBlock, HaveInsertPoint
    <3>2. CASE ~(HaveInsertPoint(fn) /\ (IsEmpty(fn, fn.at) \/ UseEmpty(fn, ReturnBlock)))
      BY <2>2, <3>2, EmitBlockOK DEF EmitReturnBlock
    <3> QED
      BY <3>1, <3>2
  <2> HIDE DEF r
  <2>4. Sound(f) /\ f.at = r.at /\ f.blk[f.at].term.op # "none"
    BY <2>3, RetOK, CreateTermOK DEF EmitFunctionEpilog
  <2> HIDE DEF f
  <2>5. \A b \in DOMAIN f.blk : f.blk[b].term.op # "none"
    BY <2>4 DEF Sound, Complete
  <2> QED
    BY <2>1, <2>5 DEF GenInv
<1> QED
  BY <1>2, <1>3

\* All of it together.
LEMMA GenStepInv ==
  ASSUME GenInv, KidLists, GenStep PROVE GenInv'
BY StartInv, SimpleInv, StmtListInv, IfInv, SwitchInv, LoopStartInv, LoopEndInv,
   JumpInv, ValueInv, ConditionInv, LogicInv, BranchInv, FinishInv DEF GenStep

-----------------------------------------------------------------------------
\* break_continue_stack_ and the C++ call stack.  d counts, from each piece on,
\* those that have still to pop; monotony is what a pop needs of it.
Counts(d, s, l) ==
  /\ d \in [1..Len(s) + 1 -> 0..Len(l)]
  /\ d[1] = Len(l) /\ d[Len(s) + 1] = 0
  /\ \A i, j \in 1..Len(s) + 1 : i <= j => d[j] <= d[i]
  /\ \A i \in 1..Len(s) :
       IF s[i].op \in Pushed
       THEN /\ d[i] = d[i + 1] + 1
            /\ l[Len(l) + 1 - d[i]].break = Block(s[i].n, "end")
       ELSE d[i] = d[i + 1]

\* The function is finished when everything else is.
FinishLast(s) == \A i \in 1..Len(s) : s[i].op = "finish" => i = Len(s)

AnySeq(s) == \E S : s \in Seq(S)

Matches(s, l) ==
  AnySeq(s) /\ AnySeq(l) /\ FinishLast(s) /\ \E d : Counts(d, s, l)

LoopInv ==
  /\ status = "idle" => loops = <<>>
  /\ status \in {"emit", "done", "broken"} => Matches(todo, loops)

PopsNothing(s) == AnySeq(s) /\ \A i \in 1..Len(s) : s[i].op \notin Pushed /\ s[i].op # "finish"

LEMMA ConcatAny ==
  ASSUME NEW q, AnySeq(q), NEW s, AnySeq(s)
  PROVE  /\ AnySeq(q \o s) /\ Len(q) \in Nat /\ Len(s) \in Nat
         /\ Len(q \o s) = Len(q) + Len(s)
         /\ \A i \in 1..Len(q) : (q \o s)[i] = q[i]
         /\ \A i \in 1..Len(s) : (q \o s)[Len(q) + i] = s[i]
<1>1. PICK Q : q \in Seq(Q)
  BY DEF AnySeq
<1>2. PICK S : s \in Seq(S)
  BY DEF AnySeq
<1>3. q \in Seq(Q \cup S) /\ s \in Seq(Q \cup S)
  BY <1>1, <1>2
<1>4. q \o s \in Seq(Q \cup S)
  BY <1>3
<1> QED
  BY <1>3, <1>4 DEF AnySeq

LEMMA TailAny ==
  ASSUME NEW s, AnySeq(s), s # <<>>
  PROVE  /\ AnySeq(Tail(s)) /\ Len(s) \in Nat /\ Len(s) > 0 /\ Len(Tail(s)) = Len(s) - 1
         /\ \A i \in 1..Len(s) - 1 : Tail(s)[i] = s[i + 1]
<1>1. PICK S : s \in Seq(S)
  BY DEF AnySeq
<1> QED
  BY <1>1 DEF AnySeq

LEMMA CountsFacts ==
  ASSUME NEW d, NEW s, AnySeq(s), NEW l, AnySeq(l), Counts(d, s, l)
  PROVE  /\ d = [i \in 1..Len(s) + 1 |-> d[i]]
         /\ \A i \in 1..Len(s) + 1 : d[i] \in Nat /\ d[i] <= Len(l)
         /\ d[1] = Len(l) /\ d[Len(s) + 1] = 0
         /\ \A i, j \in 1..Len(s) + 1 : i <= j => d[j] <= d[i]
         /\ \A i \in 1..Len(s) : s[i].op \in Pushed =>
              d[i] = d[i + 1] + 1 /\ l[Len(l) + 1 - d[i]].break = Block(s[i].n, "end")
         /\ \A i \in 1..Len(s) : s[i].op \notin Pushed => d[i] = d[i + 1]
<1>1. Len(s) \in Nat /\ Len(l) \in Nat
  BY DEF AnySeq
<1> QED
  BY <1>1 DEF Counts

LEMMA FactsCount ==
  ASSUME NEW d, NEW s, NEW l, Len(s) \in Nat, Len(l) \in Nat,
         d = [i \in 1..Len(s) + 1 |-> d[i]],
         \A i \in 1..Len(s) + 1 : d[i] \in Nat /\ d[i] <= Len(l),
         d[1] = Len(l), d[Len(s) + 1] = 0,
         \A i, j \in 1..Len(s) + 1 : i <= j => d[j] <= d[i],
         \A i \in 1..Len(s) :
           /\ s[i].op \in Pushed =>
                d[i] = d[i + 1] + 1 /\ l[Len(l) + 1 - d[i]].break = Block(s[i].n, "end")
           /\ s[i].op \notin Pushed => d[i] = d[i + 1]
  PROVE  Counts(d, s, l)
<1>1. d \in [1..Len(s) + 1 -> 0..Len(l)]
  OBVIOUS
<1> QED
  BY <1>1 DEF Counts

\* A piece that pops nothing is done ...
LEMMA MatchTail ==
  ASSUME NEW s, NEW l, Matches(s, l), s # <<>>, s[1].op \notin Pushed
  PROVE  Matches(Tail(s), l)
<1>1. PICK d : Counts(d, s, l)
  BY DEF Matches
<1> DEFINE t == Tail(s)
           n == Len(s)
           c == [i \in 1..n |-> d[i + 1]]
<1>2. /\ AnySeq(t) /\ n \in Nat /\ n > 0 /\ Len(t) = n - 1
      /\ \A i \in 1..n - 1 : t[i] = s[i + 1]
  BY TailAny DEF Matches
<1>3. d[1] = d[2]
  BY <1>1, <1>2 DEF Counts
<1>a. AnySeq(s) /\ AnySeq(l) /\ Len(l) \in Nat
  BY DEF Matches, AnySeq
<1>b. /\ \A i \in 1..n : i + 1 \in 1..n + 1 /\ c[i] = d[i + 1]
      /\ n - 1 + 1 = n /\ n - 1 \in Nat /\ c = [i \in 1..n |-> c[i]]
  BY <1>2
<1> HIDE DEF t, c
<1>c. /\ \A i \in 1..n + 1 : d[i] \in Nat /\ d[i] <= Len(l)
      /\ d[1] = Len(l) /\ d[n + 1] = 0
      /\ \A i, j \in 1..n + 1 : i <= j => d[j] <= d[i]
  BY <1>1, <1>a, CountsFacts DEF n
<1>d. \A i \in 1..n :
        /\ s[i].op \in Pushed => d[i] = d[i + 1] + 1
        /\ s[i].op \in Pushed => l[Len(l) + 1 - d[i]].break = Block(s[i].n, "end")
        /\ s[i].op \notin Pushed => d[i] = d[i + 1]
  BY <1>1, <1>a, CountsFacts DEF n
<1> HIDE DEF n
<1>4. Counts(c, t, l)
  <2>1. \A i \in 1..n : c[i] \in Nat /\ c[i] <= Len(l)
    BY <1>b, <1>c
  <2>2. c[1] = Len(l) /\ c[n] = 0
    <3>1. 1 \in 1..n /\ n \in 1..n /\ 1 + 1 = 2
      BY <1>2
    <3>2. c[1] = d[2] /\ c[n] = d[n + 1]
      BY <1>b, <3>1
    <3> QED
      BY <1>3, <1>c, <3>2
  <2>3. \A i, j \in 1..n : i <= j => c[j] <= c[i]
    <3> TAKE i, j \in 1..n
    <3> HAVE i <= j
    <3>1. i + 1 \in 1..n + 1 /\ j + 1 \in 1..n + 1 /\ i + 1 <= j + 1
      BY <1>2
    <3> QED
      BY <1>b, <1>c, <3>1
  <2>4. ASSUME NEW i \in 1..n - 1
        PROVE  /\ t[i].op \in Pushed =>
                    c[i] = c[i + 1] + 1 /\ l[Len(l) + 1 - c[i]].break = Block(t[i].n, "end")
               /\ t[i].op \notin Pushed => c[i] = c[i + 1]
    <3>1. /\ i + 1 \in 1..n /\ t[i] = s[i + 1] /\ c[i] = d[i + 1] /\ c[i + 1] = d[(i + 1) + 1]
      BY <1>2, <1>b
    <3> QED
      BY <1>d, <3>1
  <2>5. Len(t) + 1 = n /\ Len(t) = n - 1 /\ Len(t) \in Nat
    BY <1>2
  <2>6. \A i \in 1..Len(t) :
          /\ t[i].op \in Pushed =>
               c[i] = c[i + 1] + 1 /\ l[Len(l) + 1 - c[i]].break = Block(t[i].n, "end")
          /\ t[i].op \notin Pushed => c[i] = c[i + 1]
    BY <2>4, <2>5
  <2> QED
    BY <1>a, <1>b, <2>1, <2>2, <2>3, <2>5, <2>6, FactsCount
<1>5. FinishLast(t)
  <2> SUFFICES ASSUME NEW i \in 1..n - 1, t[i].op = "finish" PROVE i = n - 1
    BY <1>2 DEF FinishLast
  <2>1. i + 1 \in 1..n /\ s[i + 1].op = "finish"
    BY <1>2
  <2> QED
    BY <1>2, <2>1 DEF Matches, FinishLast, n
<1> QED
  BY <1>2, <1>4, <1>5 DEF Matches, t

\* ... and one that pops leaves the rest of the stack to the others.
LEMMA MatchPop ==
  ASSUME NEW s, NEW l, Matches(s, l), s # <<>>, s[1].op \in Pushed
  PROVE  /\ Matches(Tail(s), Tail(l))
         /\ l # <<>> /\ l[1].break = Block(s[1].n, "end")
<1>1. PICK d : Counts(d, s, l)
  BY DEF Matches
<1> DEFINE t == Tail(s)
           k == Tail(l)
           n == Len(s)
           c == [i \in 1..n |-> d[i + 1]]
<1>2. /\ AnySeq(t) /\ n \in Nat /\ n > 0 /\ Len(t) = n - 1
      /\ \A i \in 1..n - 1 : t[i] = s[i + 1]
  BY TailAny DEF Matches
<1>3. d[1] = d[2] + 1 /\ d[2] \in Nat /\ d[1] = Len(l)
  BY <1>1, <1>2 DEF Counts
<1>4. l # <<>> /\ l[1].break = Block(s[1].n, "end")
  <2>1. Len(l) + 1 - d[1] = 1 /\ Len(l) # 0
    BY <1>3
  <2>2. l[Len(l) + 1 - d[1]].break = Block(s[1].n, "end")
    BY <1>1, <1>2 DEF Counts
  <2> QED
    BY <2>1, <2>2
<1>5. /\ AnySeq(k) /\ Len(l) \in Nat /\ Len(l) > 0 /\ Len(k) = Len(l) - 1
      /\ \A i \in 1..Len(l) - 1 : k[i] = l[i + 1]
  BY <1>4, TailAny DEF Matches
<1>a. AnySeq(s) /\ AnySeq(l) /\ Len(k) \in Nat
  BY <1>5 DEF Matches
<1>b. /\ \A i \in 1..n : i + 1 \in 1..n + 1 /\ c[i] = d[i + 1]
      /\ n - 1 + 1 = n /\ n - 1 \in Nat /\ c = [i \in 1..n |-> c[i]]
  BY <1>2
<1> HIDE DEF t, k, c
<1>c. /\ \A i \in 1..n + 1 : d[i] \in Nat /\ d[i] <= Len(l)
      /\ d[1] = Len(l) /\ d[n + 1] = 0
      /\ \A i, j \in 1..n + 1 : i <= j => d[j] <= d[i]
  BY <1>1, <1>a, CountsFacts DEF n
<1>d. \A i \in 1..n :
        /\ s[i].op \in Pushed => d[i] = d[i + 1] + 1
        /\ s[i].op \in Pushed => l[Len(l) + 1 - d[i]].break = Block(s[i].n, "end")
        /\ s[i].op \notin Pushed => d[i] = d[i + 1]
  BY <1>1, <1>a, CountsFacts DEF n
<1> HIDE DEF n
<1>6. \A i \in 1..n : c[i] \in Nat /\ c[i] <= Len(k)
  <2> SUFFICES ASSUME NEW i \in 1..n PROVE c[i] \in Nat /\ c[i] <= Len(k)
    OBVIOUS
  <2>1. 2 \in 1..n + 1 /\ i + 1 \in 1..n + 1 /\ 2 <= i + 1
    BY <1>2
  <2>2. d[i + 1] \in Nat /\ d[i + 1] <= d[2]
    BY <1>c, <2>1
  <2>3. c[i] = d[i + 1]
    BY <1>b
  <2>4. d[2] = Len(k)
    BY <1>3, <1>5
  <2> QED
    BY <2>2, <2>3, <2>4
<1>7. ASSUME NEW i \in 1..n - 1
      PROVE  /\ t[i].op \in Pushed =>
                  c[i] = c[i + 1] + 1 /\ k[Len(k) + 1 - c[i]].break = Block(t[i].n, "end")
             /\ t[i].op \notin Pushed => c[i] = c[i + 1]
  <2>1. /\ i \in 1..n /\ i + 1 \in 1..n /\ t[i] = s[i + 1]
        /\ c[i] = d[i + 1] /\ c[i + 1] = d[(i + 1) + 1]
    BY <1>2, <1>b
  <2>2. /\ s[i + 1].op \in Pushed => d[i + 1] = d[(i + 1) + 1] + 1
        /\ s[i + 1].op \in Pushed =>
             l[Len(l) + 1 - d[i + 1]].break = Block(s[i + 1].n, "end")
        /\ s[i + 1].op \notin Pushed => d[i + 1] = d[(i + 1) + 1]
    BY <1>d, <2>1
  <2>3. /\ c[i] \in Nat /\ c[i] <= Len(k)
        /\ c[i + 1] \in Nat
    BY <1>6, <2>1
  <2>4. s[i + 1].op \in Pushed => k[Len(k) + 1 - c[i]] = l[Len(l) + 1 - c[i]]
    <3> SUFFICES ASSUME s[i + 1].op \in Pushed
                 PROVE  k[Len(k) + 1 - c[i]] = l[Len(l) + 1 - c[i]]
      OBVIOUS
    <3>1. c[i] > 0
      BY <2>1, <2>2, <2>3
    <3>2. /\ Len(k) + 1 - c[i] \in 1..Len(l) - 1
          /\ (Len(k) + 1 - c[i]) + 1 = Len(l) + 1 - c[i]
      BY <1>5, <2>3, <3>1
    <3> QED
      BY <1>5, <3>2
  <2> QED
    BY <2>1, <2>2, <2>4
<1>8. Counts(c, t, k)
  <2>1. c[1] = Len(k) /\ c[n] = 0
    <3>1. 1 \in 1..n /\ n \in 1..n /\ 1 + 1 = 2
      BY <1>2
    <3>2. c[1] = d[1 + 1] /\ c[n] = d[n + 1]
      BY <1>b, <3>1
    <3>3. d[2] = Len(k)
      BY <1>3, <1>5
    <3> QED
      BY <1>c, <3>1, <3>2, <3>3
  <2>2. \A i, j \in 1..n : i <= j => c[j] <= c[i]
    <3> TAKE i, j \in 1..n
    <3> HAVE i <= j
    <3>1. i + 1 \in 1..n + 1 /\ j + 1 \in 1..n + 1 /\ i + 1 <= j + 1
      BY <1>2
    <3> QED
      BY <1>b, <1>c, <3>1
  <2>3. Len(t) + 1 = n /\ Len(t) = n - 1 /\ Len(t) \in Nat
    BY <1>2
  <2>4. \A i \in 1..Len(t) :
          /\ t[i].op \in Pushed =>
               c[i] = c[i + 1] + 1 /\ k[Len(k) + 1 - c[i]].break = Block(t[i].n, "end")
          /\ t[i].op \notin Pushed => c[i] = c[i + 1]
    BY <1>7, <2>3
  <2> QED
    BY <1>6, <1>a, <1>b, <2>1, <2>2, <2>3, <2>4, FactsCount
<1>9. FinishLast(t)
  <2> SUFFICES ASSUME NEW i \in 1..n - 1, t[i].op = "finish" PROVE i = n - 1
    BY <1>2 DEF FinishLast
  <2>1. i + 1 \in 1..n /\ s[i + 1].op = "finish"
    BY <1>2
  <2> QED
    BY <1>2, <2>1 DEF Matches, FinishLast, n
<1> QED
  BY <1>2, <1>4, <1>5, <1>8, <1>9 DEF Matches, t, k

LEMMA MatchPlain ==
  ASSUME NEW s, NEW l, Matches(s, l), NEW q, PopsNothing(q)
  PROVE  Matches(q \o s, l)
<1>1. PICK d : Counts(d, s, l)
  BY DEF Matches
<1> DEFINE r == q \o s
           m == Len(q)
           n == Len(s)
           c == [i \in 1..m + n + 1 |-> IF i <= m THEN d[1] ELSE d[i - m]]
<1>2. /\ AnySeq(r) /\ m \in Nat /\ n \in Nat /\ Len(r) = m + n
      /\ \A i \in 1..m : r[i] = q[i]
      /\ \A i \in 1..n : r[m + i] = s[i]
  BY ConcatAny DEF Matches, PopsNothing
<1>3. \A i \in 1..m + n : i > m => i - m \in 1..n /\ r[i] = s[i - m]
  <2> TAKE i \in 1..m + n
  <2> HAVE i > m
  <2>1. i - m \in 1..n /\ m + (i - m) = i
    BY <1>2
  <2> QED
    BY <1>2, <2>1
<1> HIDE DEF r
<1>4. c[1] = d[1] /\ c[Len(r) + 1] = d[n + 1]
  BY <1>2
<1>5. c \in [1..Len(r) + 1 -> 0..Len(l)]
  BY <1>1, <1>2 DEF Counts
<1>6. \A i, j \in 1..Len(r) + 1 : i <= j => c[j] <= c[i]
  <2>1. \A i, j \in 1..n + 1 : i <= j => d[j] <= d[i]
    BY <1>1 DEF Counts
  <2>2. \A i \in 1..n + 1 : d[i] \in Int /\ d[i] <= d[1]
    BY <1>1, <1>2 DEF Counts
  <2> TAKE i, j \in 1..Len(r) + 1
  <2> HAVE i <= j
  <2>3. i \in 1..m + n + 1 /\ j \in 1..m + n + 1
    BY <1>2
  <2>4. CASE j <= m
    <3>1. c[i] = d[1] /\ c[j] = d[1] /\ d[1] \in Int
      BY <1>2, <2>2, <2>3, <2>4
    <3> QED
      BY <3>1
  <2>5. CASE j > m /\ i <= m
    <3>1. c[i] = d[1] /\ c[j] = d[j - m] /\ j - m \in 1..n + 1
      BY <1>2, <2>3, <2>5
    <3> QED
      BY <2>2, <3>1
  <2>6. CASE i > m
    <3>1. /\ c[i] = d[i - m] /\ c[j] = d[j - m]
          /\ i - m \in 1..n + 1 /\ j - m \in 1..n + 1 /\ i - m <= j - m
      BY <1>2, <2>3, <2>6
    <3> QED
      BY <2>1, <3>1
  <2> QED
    BY <1>2, <2>3, <2>4, <2>5, <2>6
<1>7. ASSUME NEW i \in 1..Len(r)
      PROVE  IF r[i].op \in Pushed
             THEN /\ c[i] = c[i + 1] + 1
                  /\ l[Len(l) + 1 - c[i]].break = Block(r[i].n, "end")
             ELSE c[i] = c[i + 1]
  <2>1. CASE i <= m
    <3>1. r[i].op \notin Pushed
      BY <1>2, <2>1 DEF PopsNothing
    <3>2. c[i] = d[1] /\ c[i + 1] = d[1]
      BY <1>2, <2>1
    <3> QED
      BY <3>1, <3>2
  <2>2. CASE i > m
    <3>1. /\ i - m \in 1..n /\ r[i] = s[i - m]
          /\ c[i] = d[i - m] /\ c[i + 1] = d[i - m + 1]
      BY <1>2, <1>3, <2>2
    <3> HIDE DEF c
    <3> QED
      BY <1>1, <3>1 DEF Counts
  <2> QED
    BY <1>2, <2>1, <2>2
<1> HIDE DEF c
<1>8. Counts(c, r, l)
  BY <1>1, <1>4, <1>5, <1>6, <1>7 DEF Counts
<1>9. FinishLast(r)
  <2> SUFFICES ASSUME NEW i \in 1..Len(r), r[i].op = "finish" PROVE i = Len(r)
    BY DEF FinishLast
  <2>1. i > m
    BY <1>2 DEF PopsNothing
  <2>2. i - m = n
    BY <1>2, <1>3, <2>1 DEF Matches, FinishLast
  <2> QED
    BY <1>2, <2>2
<1> QED
  BY <1>2, <1>8, <1>9 DEF Matches, r

LEMMA MatchPush ==
  ASSUME NEW s, NEW l, Matches(s, l), NEW p, p.op \in Pushed,
         NEW e, e.break = Block(p.n, "end")
  PROVE  Matches(<<p>> \o s, <<e>> \o l)
<1>1. PICK d : Counts(d, s, l)
  BY DEF Matches
<1> DEFINE r == <<p>> \o s
           k == <<e>> \o l
           n == Len(s)
           c == [i \in 1..n + 2 |-> IF i = 1 THEN d[1] + 1 ELSE d[i - 1]]
<1>2. AnySeq(<<p>>) /\ Len(<<p>>) = 1 /\ <<p>>[1] = p
  <2>1. <<p>> \in Seq({p})
    OBVIOUS
  <2> QED
    BY <2>1 DEF AnySeq
<1>a. AnySeq(<<e>>) /\ Len(<<e>>) = 1 /\ <<e>>[1] = e
  <2>1. <<e>> \in Seq({e})
    OBVIOUS
  <2> QED
    BY <2>1 DEF AnySeq
<1>3. /\ AnySeq(r) /\ n \in Nat /\ Len(r) = n + 1
      /\ r[1] = p /\ \A i \in 1..n : r[i + 1] = s[i]
  <2> HIDE DEF r
  <2>1. \A i \in 1..n : i + 1 = 1 + i
    OBVIOUS
  <2> QED
    BY <1>2, <2>1, ConcatAny DEF Matches, r
<1>4. /\ AnySeq(k) /\ Len(l) \in Nat /\ Len(k) = Len(l) + 1
      /\ k[1] = e /\ \A i \in 1..Len(l) : k[1 + i] = l[i]
  BY <1>a, ConcatAny DEF Matches
<1>5. \A i \in 1..n + 1 : i > 1 => i - 1 \in 1..n /\ r[i] = s[i - 1]
  <2> TAKE i \in 1..n + 1
  <2> HAVE i > 1
  <2>1. i - 1 \in 1..n /\ (i - 1) + 1 = i
    BY <1>3
  <2> HIDE DEF r
  <2> QED
    BY <1>3, <2>1
<1> HIDE DEF r, k
<1>6. /\ \A i \in 1..n + 1 : d[i] \in 0..Len(l)
      /\ \A i, j \in 1..n + 1 : i <= j => d[j] <= d[i]
      /\ d[1] = Len(l) /\ d[n + 1] = 0
  BY <1>1 DEF Counts
<1>7. c \in [1..Len(r) + 1 -> 0..Len(k)]
  BY <1>3, <1>4, <1>6
<1>8. c[1] = Len(k) /\ c[Len(r) + 1] = 0
  BY <1>3, <1>4, <1>6
<1>9. \A i, j \in 1..Len(r) + 1 : i <= j => c[j] <= c[i]
  <2> TAKE i, j \in 1..Len(r) + 1
  <2> HAVE i <= j
  <2>1. i \in 1..n + 2 /\ j \in 1..n + 2
    BY <1>3
  <2>2. CASE i = 1 /\ j > 1
    <3>1. c[i] = d[1] + 1 /\ c[j] = d[j - 1] /\ j - 1 \in 1..n + 1
      BY <1>3, <2>1, <2>2
    <3>2. d[1] = Len(l) /\ d[j - 1] \in 0..Len(l)
      BY <1>6, <3>1
    <3> QED
      BY <1>4, <3>1, <3>2
  <2>3. CASE i = 1 /\ j = 1
    BY <1>4, <1>6, <2>1, <2>3
  <2>4. CASE i > 1
    <3>1. /\ c[i] = d[i - 1] /\ c[j] = d[j - 1]
          /\ i - 1 \in 1..n + 1 /\ j - 1 \in 1..n + 1 /\ i - 1 <= j - 1
      BY <1>3, <2>1, <2>4
    <3> QED
      BY <1>6, <3>1
  <2> QED
    BY <1>3, <2>1, <2>2, <2>3, <2>4
<1>10. ASSUME NEW i \in 1..Len(r)
      PROVE  IF r[i].op \in Pushed
             THEN /\ c[i] = c[i + 1] + 1
                  /\ k[Len(k) + 1 - c[i]].break = Block(r[i].n, "end")
             ELSE c[i] = c[i + 1]
  <2>1. CASE i = 1
    <3>1. c[1] = Len(k) /\ c[2] = d[1] /\ Len(k) + 1 - c[1] = 1
      BY <1>3, <1>4, <1>6
    <3> HIDE DEF c
    <3> QED
      BY <1>3, <1>4, <1>6, <2>1, <3>1
  <2>2. CASE i > 1
    <3>1. /\ i - 1 \in 1..n /\ r[i] = s[i - 1]
          /\ c[i] = d[i - 1] /\ c[i + 1] = d[i]
      BY <1>3, <1>5, <2>2
    <3>2. IF s[i - 1].op \in Pushed
          THEN /\ d[i - 1] = d[i] + 1
               /\ l[Len(l) + 1 - d[i - 1]].break = Block(s[i - 1].n, "end")
          ELSE d[i - 1] = d[i]
      <4>1. (i - 1) + 1 = i
        BY <1>3
      <4> QED
        BY <1>1, <3>1, <4>1 DEF Counts
    <3>3. s[i - 1].op \in Pushed => k[Len(k) + 1 - d[i - 1]] = l[Len(l) + 1 - d[i - 1]]
      <4>1. d[i - 1] \in 0..Len(l) /\ d[i] \in 0..Len(l)
        BY <1>3, <1>6, <3>1
      <4>a. s[i - 1].op \in Pushed => d[i - 1] = d[i] + 1
        BY <3>2
      <4>2. s[i - 1].op \in Pushed => Len(l) + 1 - d[i - 1] \in 1..Len(l)
        <5> DEFINE x == d[i - 1]
                   y == d[i]
        <5>1. /\ x \in Nat /\ y \in Nat /\ Len(l) \in Nat /\ x <= Len(l)
              /\ s[i - 1].op \in Pushed => x = y + 1
          BY <1>4, <4>1, <4>a
        <5> HIDE DEF x, y
        <5>2. s[i - 1].op \in Pushed => Len(l) + 1 - x \in 1..Len(l)
          BY <5>1
        <5> QED
          BY <5>2 DEF x
      <4>3. Len(k) + 1 - d[i - 1] = 1 + (Len(l) + 1 - d[i - 1])
        <5> DEFINE x == d[i - 1]
        <5>1. x \in Nat /\ Len(l) \in Nat /\ Len(k) = Len(l) + 1
          BY <1>4, <4>1
        <5> HIDE DEF x
        <5>2. Len(k) + 1 - x = 1 + (Len(l) + 1 - x)
          BY <5>1
        <5> QED
          BY <5>2 DEF x
      <4> QED
        BY <1>4, <4>2, <4>3
    <3> HIDE DEF c
    <3> QED
      BY <3>1, <3>2, <3>3
  <2> QED
    BY <1>3, <2>1, <2>2
<1> HIDE DEF c
<1>11. Counts(c, r, k)
  BY <1>7, <1>8, <1>9, <1>10 DEF Counts
<1>12. FinishLast(r)
  <2> SUFFICES ASSUME NEW i \in 1..Len(r), r[i].op = "finish" PROVE i = Len(r)
    BY DEF FinishLast
  <2>1. i > 1
    BY <1>3 DEF Pushed
  <2>2. i - 1 = n
    BY <1>3, <1>5, <2>1 DEF Matches, FinishLast
  <2> QED
    BY <1>3, <2>2
<1> QED
  BY <1>3, <1>4, <1>11, <1>12 DEF Matches, r, k

\* What a handler calls, other than the piece that will pop.
Quiet(p) == p.op \notin Pushed /\ p.op # "finish"

LEMMA QuietPieces ==
  /\ \A n : Quiet(EmitStmt(n)) /\ Quiet(Accept(n))
  /\ \A e, t, f : Quiet(BranchOn(e, t, f)) /\ Quiet(CreateCondBr(t, f))
  /\ \A b : Quiet(StartBlock(b))
BY DEF Quiet, Pushed, EmitStmt, Accept, Piece, BranchOn, CreateCondBr, StartBlock

LEMMA QuietResume ==
  ASSUME NEW op, op \notin Pushed, op # "finish", NEW n PROVE Quiet(Resume(op, n))
BY DEF Quiet, Resume, Piece

LEMMA QuietPlain ==
  ASSUME NEW S, \A p \in S : Quiet(p), NEW q \in Seq(S) PROVE PopsNothing(q)
BY DEF PopsNothing, AnySeq, Quiet

LEMMA PlainNone == PopsNothing(<<>>)
<1>1. <<>> \in Seq({})
  OBVIOUS
<1> QED
  BY <1>1, QuietPlain

LEMMA PlainOne == ASSUME NEW a, Quiet(a) PROVE PopsNothing(<<a>>)
<1>1. <<a>> \in Seq({a})
  OBVIOUS
<1> QED
  BY <1>1, QuietPlain

LEMMA PlainTwo == ASSUME NEW a, Quiet(a), NEW b, Quiet(b) PROVE PopsNothing(<<a, b>>)
<1>1. <<a, b>> \in Seq({a, b})
  OBVIOUS
<1> QED
  BY <1>1, QuietPlain

LEMMA PlainThree ==
  ASSUME NEW a, Quiet(a), NEW b, Quiet(b), NEW c, Quiet(c) PROVE PopsNothing(<<a, b, c>>)
<1>1. <<a, b, c>> \in Seq({a, b, c})
  OBVIOUS
<1> QED
  BY <1>1, QuietPlain

LEMMA PlainFour ==
  ASSUME NEW a, Quiet(a), NEW b, Quiet(b), NEW c, Quiet(c), NEW d, Quiet(d)
  PROVE  PopsNothing(<<a, b, c, d>>)
<1>1. <<a, b, c, d>> \in Seq({a, b, c, d})
  OBVIOUS
<1> QED
  BY <1>1, QuietPlain

LEMMA PlainFive ==
  ASSUME NEW a, Quiet(a), NEW b, Quiet(b), NEW c, Quiet(c), NEW d, Quiet(d),
         NEW e, Quiet(e)
  PROVE  PopsNothing(<<a, b, c, d, e>>)
<1>1. <<a, b, c, d, e>> \in Seq({a, b, c, d, e})
  OBVIOUS
<1> QED
  BY <1>1, QuietPlain

LEMMA PlainSeven ==
  ASSUME NEW a, Quiet(a), NEW b, Quiet(b), NEW c, Quiet(c), NEW d, Quiet(d),
         NEW e, Quiet(e), NEW f, Quiet(f), NEW g, Quiet(g)
  PROVE  PopsNothing(<<a, b, c, d, e, f, g>>)
<1>1. <<a, b, c, d, e, f, g>> \in Seq({a, b, c, d, e, f, g})
  OBVIOUS
<1> QED
  BY <1>1, QuietPlain

LEMMA PlainStmts ==
  ASSUME NEW S, NEW k \in Seq(S) PROVE PopsNothing([i \in DOMAIN k |-> EmitStmt(k[i])])
<1> DEFINE q == [i \in DOMAIN k |-> EmitStmt(k[i])]
           T == {EmitStmt(x) : x \in S}
<1>1. q \in Seq(T)
  OBVIOUS
<1> QED
  BY <1>1, QuietPieces, QuietPlain

\* What a step does to the two stacks, whatever it emits.
Calls(next) == todo' = next \o Tail(todo) /\ UNCHANGED status

LEMMA LoopsKept ==
  ASSUME LoopInv, NEW op, Running(op), op \notin Pushed,
         NEW next, PopsNothing(next), Calls(next), loops' = loops
  PROVE  LoopInv'
<1>1. Matches(todo, loops) /\ todo # <<>> /\ todo[1].op \notin Pushed
  BY DEF LoopInv, Running, Top
<1>2. Matches(Tail(todo), loops)
  BY <1>1, MatchTail
<1>3. Matches(next \o Tail(todo), loops)
  BY <1>2, MatchPlain
<1> QED
  BY <1>3 DEF LoopInv, Calls, Running

LEMMA LoopsPopped ==
  ASSUME LoopInv, NEW op, Running(op), op \in Pushed,
         NEW next, PopsNothing(next), Calls(next), loops' = Tail(loops)
  PROVE  LoopInv'
<1>1. Matches(todo, loops) /\ todo # <<>> /\ todo[1].op \in Pushed
  BY DEF LoopInv, Running, Top
<1>2. Matches(Tail(todo), Tail(loops))
  BY <1>1, MatchPop
<1>3. Matches(next \o Tail(todo), Tail(loops))
  BY <1>2, MatchPlain
<1> QED
  BY <1>3 DEF LoopInv, Calls, Running

LEMMA ConcatTwo ==
  ASSUME NEW a, NEW b, NEW s, AnySeq(s) PROVE <<a, b>> \o s = <<a>> \o (<<b>> \o s)
<1>1. PICK S : s \in Seq(S)
  BY DEF AnySeq
<1> DEFINE T == S \cup {a, b}
<1>2. s \in Seq(T) /\ <<a>> \in Seq(T) /\ <<b>> \in Seq(T)
  BY <1>1
<1> HIDE DEF T
<1>3. (<<a>> \o <<b>>) \o s = <<a>> \o (<<b>> \o s)
  BY <1>2, ConcatAssociative
<1>4. <<a>> \o <<b>> = <<a, b>>
  <2> DEFINE c == <<a>> \o <<b>>
             e == <<a, b>>
  <2>1. a \in T /\ b \in T
    BY DEF T
  <2>2. c \in Seq(T) /\ Len(c) = 2 /\ c[1] = a /\ c[2] = b
    BY <1>2
  <2>3. e \in Seq(T) /\ Len(e) = 2 /\ e[1] = a /\ e[2] = b
    BY <2>1
  <2> HIDE DEF c, e
  <2>4. \A i \in 1..Len(c) : c[i] = e[i]
    BY <2>2, <2>3
  <2>5. c = e
    BY <2>2, <2>3, <2>4, SeqEqual
  <2> QED
    BY <2>5 DEF c, e
<1> QED
  BY <1>3, <1>4

LEMMA LoopsPushed ==
  ASSUME LoopInv, NEW op, Running(op), op \notin Pushed,
         NEW x, Quiet(x), NEW p, p.op \in Pushed, Calls(<<x, p>>),
         NEW e, e.break = Block(p.n, "end"), loops' = <<e>> \o loops
  PROVE  LoopInv'
<1>1. Matches(todo, loops) /\ todo # <<>> /\ todo[1].op \notin Pushed
  BY DEF LoopInv, Running, Top
<1>2. Matches(Tail(todo), loops)
  BY <1>1, MatchTail
<1>3. Matches(<<p>> \o Tail(todo), <<e>> \o loops)
  BY <1>2, MatchPush
<1>4. Matches(<<x>> \o (<<p>> \o Tail(todo)), <<e>> \o loops)
  BY <1>3, PlainOne, MatchPlain
<1>5. AnySeq(Tail(todo))
  BY <1>2 DEF Matches
<1>6. todo' = <<x>> \o (<<p>> \o Tail(todo)) /\ status' = "emit"
  BY <1>5, ConcatTwo DEF Calls, Running
<1> QED
  BY <1>4, <1>6 DEF LoopInv

\* A handler that has pushed is cut once more before it pops.
LEMMA LoopsHeld ==
  ASSUME LoopInv, NEW op, Running(op), op \in Pushed,
         NEW x, Quiet(x), NEW p, p.op \in Pushed, p.n = Top.n,
         Calls(<<x, p>>), loops' = loops
  PROVE  LoopInv'
<1>1. Matches(todo, loops) /\ todo # <<>> /\ todo[1].op \in Pushed /\ p.n = todo[1].n
  BY DEF LoopInv, Running, Top
<1>2. /\ Matches(Tail(todo), Tail(loops))
      /\ loops # <<>> /\ loops[1].break = Block(p.n, "end")
  BY <1>1, MatchPop
<1>3. Matches(<<p>> \o Tail(todo), <<loops[1]>> \o Tail(loops))
  BY <1>2, MatchPush
<1>4. <<loops[1]>> \o Tail(loops) = loops
  <2>1. PICK S : loops \in Seq(S)
    BY <1>1 DEF Matches, AnySeq
  <2> QED
    BY <1>2, <2>1
<1>5. Matches(<<x>> \o (<<p>> \o Tail(todo)), loops)
  BY <1>3, <1>4, PlainOne, MatchPlain
<1>6. AnySeq(Tail(todo))
  BY <1>2 DEF Matches
<1>7. todo' = <<x>> \o (<<p>> \o Tail(todo)) /\ status' = "emit"
  BY <1>6, ConcatTwo DEF Calls, Running
<1> QED
  BY <1>5, <1>7 DEF LoopInv

LEMMA LoopsStopped ==
  ASSUME NEW how \in {"error", "crash"}, Stop(how) PROVE LoopInv'
BY DEF Stop, LoopInv

-----------------------------------------------------------------------------
\* LoopInv through every handler.
LEMMA StartLoops == ASSUME LoopInv, StartFunction PROVE LoopInv'
<1> DEFINE a == EmitStmt(1)
           b == Resume("finish", 1)
           s == <<a, b>>
           d == [i \in 1..3 |-> 0]
<1>1. todo' = s /\ status' = "emit" /\ loops' = <<>>
  BY DEF StartFunction, LoopInv
<1>2. /\ a.op \notin Pushed /\ a.op # "finish"
      /\ b.op \notin Pushed /\ b.op = "finish"
  BY DEF EmitStmt, Resume, Piece, Pushed
<1> HIDE DEF a, b
<1>3. AnySeq(s) /\ AnySeq(<<>>)
  <2>1. s \in Seq({a, b}) /\ <<>> \in Seq({})
    OBVIOUS
  <2> QED
    BY <2>1 DEF AnySeq
<1>4. Len(s) = 2 /\ s[1] = a /\ s[2] = b
  OBVIOUS
<1> HIDE DEF s
<1>5. \A i \in 1..Len(s) : s[i].op \notin Pushed
  BY <1>2, <1>4
<1>6. Counts(d, s, <<>>)
  BY <1>4, <1>5 DEF Counts
<1>7. FinishLast(s)
  BY <1>2, <1>4 DEF FinishLast
<1> QED
  BY <1>1, <1>3, <1>6, <1>7 DEF LoopInv, Matches

LEMMA SimpleLoops ==
  ASSUME LoopInv,
         \/ DropStmt \/ VisitLabelStmt \/ VisitNullStmt \/ VisitExprStmt
         \/ VisitDeclaration \/ StoreInit \/ VisitGotoStmt
  PROVE  LoopInv'
<1> DEFINE none == <<>>
           body == <<EmitStmt(GetBody(Top.n))>>
           expr == <<Accept(Kids(Top.n)[1])>>
           init == <<Accept(Kids(Top.n)[1]), Resume("store", Top.n)>>
<1>1. /\ Running("stmt") \/ Running("store")
      /\ loops' = loops
      /\ Calls(none) \/ Calls(body) \/ Calls(expr) \/ Calls(init)
  BY DEF DropStmt, VisitLabelStmt, VisitNullStmt, VisitExprStmt, VisitDeclaration,
         StoreInit, VisitGotoStmt, Visit, Evaluate, Keep, Go, Calls
<1>2. PopsNothing(none) /\ PopsNothing(body) /\ PopsNothing(expr) /\ PopsNothing(init)
  <2>1. Quiet(Resume("store", Top.n))
    BY QuietResume DEF Pushed
  <2> QED
    BY <2>1, PlainNone, PlainOne, PlainTwo, QuietPieces
<1> HIDE DEF none, body, expr, init
<1> QED
  BY <1>1, <1>2, LoopsKept DEF Pushed

LEMMA StmtListLoops ==
  ASSUME LoopInv, KidLists, VisitCompoundStmt \/ FoldIfStmt \/ VisitStmtExpr
  PROVE  LoopInv'
<1> DEFINE list(k) == [i \in DOMAIN k |-> EmitStmt(k[i])]
<1>1. CASE VisitCompoundStmt \/ VisitStmtExpr
  <2>1. PICK m : /\ Running("stmt") \/ Running("expr")
                 /\ Calls(Stmts(m)) /\ loops' = loops
    BY <1>1 DEF VisitCompoundStmt, VisitStmtExpr, Visit, Expression, Then, Go, Keep, Calls
  <2>2. PopsNothing(Stmts(m))
    BY KidsSeq, PlainStmts DEF Stmts
  <2> QED
    BY <2>1, <2>2, LoopsKept DEF Pushed
<1>2. CASE FoldIfStmt
  <2> DEFINE k == Executed(Top.n)
  <2>1. Running("stmt") /\ Calls(list(k)) /\ loops' = loops
    BY <1>2 DEF FoldIfStmt, Visit, Go, Keep, Calls
  <2>2. PICK S : k \in Seq(S)
    <3>1. /\ <<GetThen(Top.n)>> \in Seq({GetThen(Top.n)})
          /\ <<GetElse(Top.n)>> \in Seq({GetElse(Top.n)})
          /\ <<>> \in Seq({})
      OBVIOUS
    <3>2. k \in {<<GetThen(Top.n)>>, <<GetElse(Top.n)>>, <<>>}
      BY DEF Executed
    <3> QED
      BY <3>1, <3>2, Zenon
  <2> HIDE DEF k
  <2>3. PopsNothing(list(k))
    BY <2>2, PlainStmts
  <2> HIDE DEF list
  <2> QED
    BY <2>1, <2>3, LoopsKept DEF Pushed
<1> QED
  BY <1>1, <1>2

LEMMA IfLoops ==
  ASSUME LoopInv, VisitIfStmt \/ IfElse \/ IfEnd PROVE LoopInv'
<1> DEFINE n == Top.n
           p == BranchOn(GetCond(n), Block(n, "then"),
                         Block(n, IF HasElse(n) THEN "else" ELSE "end"))
           four == <<p, StartBlock(Block(n, "then")), EmitStmt(GetThen(n)),
                     Resume("if.else", n)>>
           two == <<EmitStmt(GetElse(n)), Resume("if.end", n)>>
           none == <<>>
<1>1. /\ Running("stmt") \/ Running("if.else") \/ Running("if.end")
      /\ loops' = loops /\ (Calls(four) \/ Calls(two) \/ Calls(none))
  BY DEF VisitIfStmt, IfElse, IfEnd, Visit, Go, Keep, Calls
<1>2. Quiet(Resume("if.else", n)) /\ Quiet(Resume("if.end", n))
  BY QuietResume DEF Pushed
<1>3. PopsNothing(four) /\ PopsNothing(two) /\ PopsNothing(none)
  BY <1>2, PlainNone, PlainTwo, PlainFour, QuietPieces
<1> HIDE DEF four, two, none
<1> QED
  BY <1>1, <1>3, LoopsKept DEF Pushed

LEMMA SwitchLoops ==
  ASSUME LoopInv, VisitSwitchStmt \/ SwitchEnd \/ VisitCaseStmt \/ VisitDefaultStmt
  PROVE  LoopInv'
<1> DEFINE n == Top.n
<1>1. CASE VisitSwitchStmt
  <2> DEFINE x == EmitStmt(GetBody(n))
             p == RestoreSwitch(n)
             e == [break |-> Block(n, "end"),
                   continue |-> IF loops = <<>> THEN NoBlock ELSE Head(loops).continue]
  <2>1. Running("stmt") /\ Calls(<<x, p>>) /\ loops' = <<e>> \o loops
    BY <1>1 DEF VisitSwitchStmt, Visit, Go, PushBlock, Calls
  <2>2. Quiet(x) /\ p.op \in Pushed /\ e.break = Block(p.n, "end")
    BY QuietPieces DEF RestoreSwitch, Pushed
  <2> HIDE DEF x, p, e
  <2> QED
    BY <2>1, <2>2, LoopsPushed DEF Pushed
<1>2. CASE SwitchEnd
  <2>1. Running("switch.end") /\ Calls(<<>>) /\ loops' = Tail(loops)
    BY <1>2 DEF SwitchEnd, Go, Calls
  <2> QED
    BY <2>1, PlainNone, LoopsPopped DEF Pushed
<1>3. CASE VisitCaseStmt \/ VisitDefaultStmt
  <2> DEFINE next == <<EmitStmt(GetBody(n))>>
  <2>1. \/ Stop("crash")
        \/ Running("stmt") /\ Calls(next) /\ loops' = loops
    BY <1>3 DEF VisitCaseStmt, VisitDefaultStmt, Visit, Go, Keep, Calls
  <2>2. PopsNothing(next)
    BY PlainOne, QuietPieces
  <2> HIDE DEF next
  <2> QED
    BY <2>1, <2>2, LoopsKept, LoopsStopped DEF Pushed
<1> QED
  BY <1>1, <1>2, <1>3

LEMMA LoopStartLoops ==
  ASSUME LoopInv, VisitWhileStmt \/ VisitDoWhileStmt \/ VisitForStmt \/ ForBody
  PROVE  LoopInv'
<1> DEFINE n == Top.n
           end == Block(n, "end")
<1>1. CASE VisitWhileStmt \/ VisitDoWhileStmt \/ ForBody
  <2>1. PICK x, p, c :
          /\ Running("stmt") \/ Running("for.body")
          /\ x \in {Accept(GetCond(n)), EmitStmt(GetBody(n))}
          /\ p \in {Resume("while.body", n), Resume("do.cond", n), Resume("for.end", n)}
          /\ Calls(<<x, p>>) /\ PushBlock(end, c)
    BY <1>1 DEF VisitWhileStmt, VisitDoWhileStmt, ForBody, Visit, Go, Calls
  <2> DEFINE e == [break |-> end, continue |-> c]
  <2>2. Quiet(x) /\ p.op \in Pushed /\ e.break = Block(p.n, "end")
    BY <2>1, QuietPieces DEF Resume, Piece, Pushed
  <2>3. loops' = <<e>> \o loops
    BY <2>1 DEF PushBlock
  <2>4. PICK op \in {"stmt", "for.body"} : Running(op)
    BY <2>1
  <2>5. op \notin Pushed /\ Calls(<<x, p>>)
    BY <2>1, <2>4 DEF Pushed
  <2> HIDE DEF e
  <2> QED
    BY <2>2, <2>3, <2>4, <2>5, LoopsPushed
<1>2. CASE VisitForStmt
  <2> DEFINE body == Resume("for.body", n)
             p == BranchOn(GetCond(n), Block(n, "body"), end)
             one == <<body>>
             three == <<p, StartBlock(Block(n, "body")), body>>
  <2>1. Running("stmt") /\ loops' = loops /\ (Calls(one) \/ Calls(three))
    BY <1>2 DEF VisitForStmt, Visit, Go, Keep, Calls
  <2>2. PopsNothing(one) /\ PopsNothing(three)
    <3>1. Quiet(body)
      BY QuietResume DEF Pushed
    <3> QED
      BY <3>1, PlainOne, PlainThree, QuietPieces
  <2> HIDE DEF one, three
  <2> QED
    BY <2>1, <2>2, LoopsKept DEF Pushed
<1> QED
  BY <1>1, <1>2

LEMMA LoopEndLoops ==
  ASSUME LoopInv, WhileBody \/ WhileEnd \/ DoWhileCond \/ DoWhileEnd \/ ForEnd
  PROVE  LoopInv'
<1> DEFINE n == Top.n
<1>1. CASE WhileBody
  <2> DEFINE x == EmitStmt(GetBody(n))
             p == Resume(IF IsOne THEN "while.end.one" ELSE "while.end", n)
  <2>1. Running("while.body") /\ Calls(<<x, p>>) /\ loops' = loops
    BY <1>1 DEF WhileBody, Go, Keep, Calls
  <2>2. Quiet(x) /\ p.op \in Pushed /\ p.n = Top.n
    BY QuietPieces DEF Resume, Piece, Pushed
  <2> HIDE DEF x, p
  <2> QED
    BY <2>1, <2>2, LoopsHeld DEF Pushed
<1>2. CASE WhileEnd
  <2>1. \/ Stop("crash")
        \/ /\ Running("while.end") \/ Running("while.end.one")
           /\ Calls(<<>>) /\ loops' = Tail(loops)
    BY <1>2 DEF WhileEnd, Go, PopBlock, Calls
  <2> QED
    BY <2>1, PlainNone, LoopsPopped, LoopsStopped DEF Pushed
<1>3. CASE ForEnd
  <2>1. Running("for.end") /\ Calls(<<>>) /\ loops' = Tail(loops)
    BY <1>3 DEF ForEnd, Go, PopBlock, Calls
  <2> QED
    BY <2>1, PlainNone, LoopsPopped DEF Pushed
<1>4. CASE DoWhileCond
  <2> DEFINE next == <<Accept(GetCond(n)), Resume("do.end", n)>>
  <2>1. Running("do.cond") /\ Calls(next) /\ loops' = Tail(loops)
    BY <1>4 DEF DoWhileCond, Go, PopBlock, Calls
  <2>2. PopsNothing(next)
    <3>1. Quiet(Resume("do.end", n))
      BY QuietResume DEF Pushed
    <3> QED
      BY <3>1, PlainTwo, QuietPieces
  <2> HIDE DEF next
  <2> QED
    BY <2>1, <2>2, LoopsPopped DEF Pushed
<1>5. CASE DoWhileEnd
  <2>1. \/ Stop("crash")
        \/ Running("do.end") /\ Calls(<<>>) /\ loops' = loops
    BY <1>5 DEF DoWhileEnd, Go, Keep, Calls
  <2> QED
    BY <2>1, PlainNone, LoopsKept, LoopsStopped DEF Pushed
<1> QED
  BY <1>1, <1>2, <1>3, <1>4, <1>5

LEMMA JumpLoops ==
  ASSUME LoopInv, VisitContinueStmt \/ VisitBreakStmt \/ VisitReturnStmt
  PROVE  LoopInv'
<1>1. \/ Stop("error") \/ Stop("crash")
      \/ Running("stmt") /\ Calls(<<>>) /\ loops' = loops
  BY DEF VisitContinueStmt, VisitBreakStmt, VisitReturnStmt, Visit, BranchTo,
         Evaluate, Go, Keep, Calls
<1> QED
  BY <1>1, PlainNone, LoopsKept, LoopsStopped DEF Pushed

LEMMA ValueLoops ==
  ASSUME LoopInv,
         \/ VisitConstantExpr \/ VisitFuncCallExpr \/ VisitCommaExpr
         \/ VisitUnaryOpExpr \/ LogicNotOp \/ SelectArm
  PROVE  LoopInv'
<1> DEFINE none == <<>>
           two == <<Accept(Kids(Top.n)[1]), Resume("not", Top.n)>>
<1>1. /\ Running("expr") \/ Running("not") \/ Running("select")
      /\ loops' = loops /\ (Calls(none) \/ Calls(two))
  BY DEF VisitConstantExpr, VisitFuncCallExpr, VisitCommaExpr, VisitUnaryOpExpr,
         LogicNotOp, SelectArm, Expression, Value, Evaluate, Then, Go, Keep, Calls
<1>2. PopsNothing(none) /\ PopsNothing(two)
  <2>1. Quiet(Resume("not", Top.n))
    BY QuietResume DEF Pushed
  <2> QED
    BY <2>1, PlainNone, PlainTwo, QuietPieces
<1> HIDE DEF none, two
<1> QED
  BY <1>1, <1>2, LoopsKept DEF Pushed

LEMMA ConditionLoops ==
  ASSUME LoopInv, VisitConditionOpExpr \/ CondLhsEnd \/ CondRhsEnd PROVE LoopInv'
<1> DEFINE n == Top.n
           e(i) == Accept(Kids(n)[i])
           p == BranchOn(Kids(n)[1], Block(n, "lhs"), Block(n, "rhs"))
           none == <<>>
           one == <<Accept(IF Calc(Kids(n)[1]) = 0 THEN Kids(n)[3] ELSE Kids(n)[2])>>
           two == <<e(1), Resume("select", n)>>
           all == <<p, StartBlock(Block(n, "lhs")), e(2), Resume("cond.lhs", n),
                    StartBlock(Block(n, "rhs")), e(3), Resume("cond.rhs", n)>>
<1>1. /\ Running("expr") \/ Running("cond.lhs") \/ Running("cond.rhs")
      /\ loops' = loops /\ (Calls(none) \/ Calls(one) \/ Calls(two) \/ Calls(all))
  BY DEF VisitConditionOpExpr, CondLhsEnd, CondRhsEnd, Expression, Evaluate, Then, Go,
         Keep, Calls
<1>2. PopsNothing(none) /\ PopsNothing(one) /\ PopsNothing(two) /\ PopsNothing(all)
  <2>1. /\ Quiet(Resume("select", n)) /\ Quiet(Resume("cond.lhs", n))
        /\ Quiet(Resume("cond.rhs", n))
    BY QuietResume DEF Pushed
  <2> QED
    BY <2>1, PlainNone, PlainOne, PlainTwo, PlainSeven, QuietPieces
<1> HIDE DEF none, one, two, all
<1> QED
  BY <1>1, <1>2, LoopsKept DEF Pushed

LEMMA LogicLoops ==
  ASSUME LoopInv, VisitLogicOp \/ LogicRhs \/ LogicEnd PROVE LoopInv'
<1> DEFINE n == Top.n
           end == Block(n, "end")
           rhs == Block(n, "rhs")
           br == IF Kind(n) = "And" THEN BranchOn(Kids(n)[1], rhs, end)
                 ELSE BranchOn(Kids(n)[1], end, rhs)
           none == <<>>
           one == <<Accept(Kids(n)[2])>>
           two == <<br, Resume("logic.rhs", n)>>
           right == <<Accept(Kids(n)[2]), Resume("logic.end", n)>>
<1>1. /\ Running("expr") \/ Running("logic.rhs") \/ Running("logic.end")
      /\ loops' = loops /\ (Calls(none) \/ Calls(one) \/ Calls(two) \/ Calls(right))
  BY DEF VisitLogicOp, LogicRhs, LogicEnd, Expression, Value, Evaluate, Then, Go, Keep,
         Calls
<1>2. PopsNothing(none) /\ PopsNothing(one) /\ PopsNothing(two) /\ PopsNothing(right)
  <2>1. Quiet(Resume("logic.rhs", n)) /\ Quiet(Resume("logic.end", n)) /\ Quiet(br)
    BY QuietResume, QuietPieces DEF Pushed
  <2> HIDE DEF br
  <2> QED
    BY <2>1, PlainNone, PlainOne, PlainTwo, QuietPieces
<1> HIDE DEF none, one, two, right
<1> QED
  BY <1>1, <1>2, LoopsKept DEF Pushed

LEMMA BranchLoops ==
  ASSUME LoopInv, EmitBranchOnBoolExpr \/ BranchOnValue \/ EmitNextBlock
  PROVE  LoopInv'
<1> DEFINE n == Top.n
           t == Top.t
           f == Top.f
           e(i) == Kids(n)[i]
           lhs == Block(n, "lhs")
           rhs == Block(n, "rhs")
           none == <<>>
           and == <<BranchOn(e(1), lhs, f), StartBlock(lhs), BranchOn(e(2), t, f)>>
           or == <<BranchOn(e(1), t, lhs), StartBlock(lhs), BranchOn(e(2), t, f)>>
           not == <<BranchOn(e(1), f, t)>>
           cond == <<BranchOn(e(1), lhs, rhs), StartBlock(lhs), BranchOn(e(2), t, f),
                     StartBlock(rhs), BranchOn(e(3), t, f)>>
           other == <<Accept(n), CreateCondBr(t, f)>>
<1>1. CASE EmitBranchOnBoolExpr
  <2>1. Running("branch") /\ loops' = loops
    BY <1>1 DEF EmitBranchOnBoolExpr, Then, Keep
  <2>2. \/ Go(fn, and) \/ Go(fn, or) \/ Go(fn, not) \/ Go(fn, cond) \/ Go(fn, other)
    BY <1>1, Zenon DEF EmitBranchOnBoolExpr, Then
  <2>3. /\ PopsNothing(and) /\ PopsNothing(or) /\ PopsNothing(not) /\ PopsNothing(cond)
        /\ PopsNothing(other)
    BY PlainOne, PlainTwo, PlainThree, PlainFive, QuietPieces
  <2> HIDE DEF and, or, not, cond, other
  <2>4. Calls(and) \/ Calls(or) \/ Calls(not) \/ Calls(cond) \/ Calls(other)
    BY <2>2 DEF Go, Calls
  <2> QED
    BY <2>1, <2>3, <2>4, LoopsKept DEF Pushed
<1>2. CASE BranchOnValue \/ EmitNextBlock
  <2>1. /\ Running("condbr") \/ Running("block")
        /\ loops' = loops /\ Calls(none)
    BY <1>2 DEF BranchOnValue, EmitNextBlock, Go, Keep, Calls
  <2> HIDE DEF none
  <2> QED
    BY <2>1, PlainNone, LoopsKept DEF Pushed, none
<1> QED
  BY <1>1, <1>2

\* When only the end of the function is left to run, the stack is empty.
LEMMA FinishLoops == ASSUME LoopInv, FinishFunction PROVE LoopInv'
<1>1. CASE Stop("crash")
  BY <1>1, LoopsStopped
<1>2. CASE ~Stop("crash")
  <2>1. /\ Matches(todo, loops) /\ todo # <<>> /\ todo[1].op = "finish"
        /\ todo' = <<>> /\ loops' = loops
    BY <1>2 DEF FinishFunction, Running, LoopInv, Top, Keep
  <2>2. Len(todo) = 1
    <3>1. Len(todo) \in Nat /\ Len(todo) > 0 /\ FinishLast(todo)
      BY <2>1, TailAny DEF Matches
    <3>2. 1 \in 1..Len(todo)
      BY <3>1
    <3> QED
      BY <2>1, <3>1, <3>2 DEF FinishLast
  <2>3. Tail(todo) = <<>>
    <3>1. PICK S : todo \in Seq(S)
      BY <2>1 DEF Matches, AnySeq
    <3>2. Tail(todo) \in Seq(S) /\ Len(Tail(todo)) = 0
      BY <2>1, <2>2, <3>1
    <3> QED
      BY <3>2, EmptySeq
  <2>4. Matches(Tail(todo), loops)
    BY <2>1, MatchTail DEF Pushed
  <2>5. Matches(<<>>, loops)
    BY <2>3, <2>4
  <2>6. Matches(todo', loops')
    BY <2>1, <2>5
  <2>7. status' # "idle"
    BY <1>2 DEF FinishFunction
  <2> QED
    BY <2>6, <2>7 DEF LoopInv
<1> QED
  BY <1>1, <1>2

LEMMA GenStepLoops ==
  ASSUME LoopInv, KidLists, GenStep PROVE LoopInv'
BY StartLoops, SimpleLoops, StmtListLoops, IfLoops, SwitchLoops, LoopStartLoops,
   LoopEndLoops, JumpLoops, ValueLoops, ConditionLoops, LogicLoops, BranchLoops,
   FinishLoops DEF GenStep

\* The count that LoopInv asks for is the one Depth makes.
LEMMA DepthCounts ==
  ASSUME Matches(todo, loops) PROVE Counts(Depth, todo, loops)
<1> DEFINE n == Len(todo)
           pops(i) == IF todo[i].op \in Pushed THEN 1 ELSE 0
           Is(f) == f = [i \in 1..n + 1 |-> IF i > n THEN 0 ELSE f[i + 1] + pops(i)]
<1>1. PICK d : Counts(d, todo, loops)
  BY DEF Matches
<1>2. n \in Nat
  BY DEF Matches, AnySeq
<1>3. Is(d)
  <2>1. d = [i \in 1..n + 1 |-> d[i]] /\ \A i \in 1..n + 1 : d[i] \in Nat
    BY <1>1 DEF Counts
  <2>2. \A i \in 1..n + 1 : d[i] = IF i > n THEN 0 ELSE d[i + 1] + pops(i)
    <3> TAKE i \in 1..n + 1
    <3>1. CASE i > n
      BY <1>1, <1>2, <3>1 DEF Counts
    <3>2. CASE i <= n
      <4>1. i \in 1..n /\ i + 1 \in 1..n + 1 /\ ~(i > n)
        BY <1>2, <3>2
      <4>2. d[i] = IF todo[i].op \in Pushed THEN d[i + 1] + 1 ELSE d[i + 1]
        BY <1>1, <4>1 DEF Counts
      <4>3. d[i + 1] \in Nat
        BY <2>1, <4>1
      <4> QED
        BY <4>1, <4>2, <4>3
    <3> QED
      BY <1>2, <3>1, <3>2
  <2> HIDE DEF pops
  <2> QED
    BY <2>1, <2>2
<1>4. Depth = CHOOSE f : Is(f)
  BY DEF Depth
<1>5. Is(Depth)
  <2> HIDE DEF Is
  <2> QED
    BY <1>3, <1>4
<1> DEFINE D == Depth
<1> HIDE DEF D
<1>6. Is(D)
  BY <1>5 DEF D
<1> DEFINE Agree == {k \in Nat : k <= n => D[n + 1 - k] = d[n + 1 - k]}
<1>7. 0 \in Agree
  BY <1>2, <1>3, <1>6
<1>8. ASSUME NEW k \in Nat, k \in Agree PROVE k + 1 \in Agree
  <2> SUFFICES ASSUME k + 1 <= n PROVE D[n - k] = d[n - k]
    BY <1>2
  <2>1. n - k \in 1..n /\ n + 1 - k = (n - k) + 1 /\ D[n + 1 - k] = d[n + 1 - k]
    BY <1>2, <1>8
  <2>a. n - k \in 1..n + 1 /\ ~(n - k > n)
    BY <1>2, <2>1
  <2> DEFINE j == n - k
  <2> HIDE DEF pops, j
  <2>b. j \in 1..n + 1 /\ ~(j > n)
    BY <2>a DEF j
  <2>c. D[j] = D[j + 1] + pops(j) /\ d[j] = d[j + 1] + pops(j)
    <3> HIDE DEF n
    <3> QED
      BY <1>3, <1>6, <2>b
  <2>2. /\ D[n - k] = D[(n - k) + 1] + pops(n - k)
        /\ d[n - k] = d[(n - k) + 1] + pops(n - k)
    BY <2>c DEF j
  <2> QED
    BY <2>1, <2>2
<1>9. Nat \subseteq Agree
  <2> SUFFICES ASSUME Nat \ Agree # {} PROVE FALSE
    OBVIOUS
  <2> HIDE DEF Agree
  <2>1. PICK k \in Nat \ Agree : \A j \in Nat \ Agree : ~(<<j, k>> \in OpToRel(<, Nat))
    BY NatLessThanWellFounded, WFMin
  <2>2. k - 1 \in Nat /\ k - 1 < k /\ k = (k - 1) + 1
    BY <1>7
  <2>3. <<k - 1, k>> \in OpToRel(<, Nat)
    BY <2>2 DEF OpToRel
  <2>4. k - 1 \in Agree
    BY <2>1, <2>2, <2>3
  <2> QED
    BY <1>8, <2>1, <2>2, <2>4
<1>10. D = d
  <2>1. ASSUME NEW i \in 1..n + 1 PROVE D[i] = d[i]
    <3>1. n + 1 - i \in Nat /\ n + 1 - i <= n /\ n + 1 - (n + 1 - i) = i
      BY <1>2
    <3> QED
      BY <1>9, <3>1
  <2> HIDE DEF pops
  <2> QED
    BY <1>3, <1>6, <2>1
<1> QED
  BY <1>1, <1>10 DEF D

LEMMA LoopsMatchCalls == LoopInv => LoopStackMatchesCalls
<1> SUFFICES ASSUME LoopInv, status \in {"emit", "done", "broken"}
             PROVE  /\ Len(loops) = Depth[1]
                    /\ \A i \in DOMAIN todo : todo[i].op \in Pushed =>
                         loops[Len(loops) + 1 - Depth[i]].break = Block(todo[i].n, "end")
  BY DEF LoopStackMatchesCalls
<1>1. Matches(todo, loops)
  BY DEF LoopInv
<1>2. Counts(Depth, todo, loops) /\ DOMAIN todo = 1..Len(todo)
  BY <1>1, DepthCounts DEF Matches, AnySeq
<1> HIDE DEF Depth
<1> QED
  BY <1>2 DEF Counts

-----------------------------------------------------------------------------
\* The types of the state.

Truths == [0..1 -> 0..1]

TermTyped(t) ==
  /\ t = [op |-> t.op, of |-> t.of, to |-> t.to]
  /\ t.op \in {"none", "ret", "br", "condbr", "switch"} /\ t.of \in Truths
  /\ DOMAIN t.to \subseteq Nat /\ \A x \in DOMAIN t.to : t.to[x] \in Blocks \ {NoBlock}
  /\ t.op \in {"br", "switch"} => 0 \in DOMAIN t.to

BlkTyped(x) ==
  x = [code |-> x.code, term |-> x.term] /\ x.code \in Seq(Events) /\ TermTyped(x.term)

FnTyped(f) ==
  /\ f = [blk |-> f.blk, phi |-> f.phi, loose |-> f.loose, at |-> f.at]
  /\ f.blk = [b \in DOMAIN f.blk |-> f.blk[b]]
  /\ DOMAIN f.blk \subseteq Blocks \ {NoBlock} /\ \A b \in DOMAIN f.blk : BlkTyped(f.blk[b])
  /\ f.phi \subseteq [at : Blocks, from : Blocks, of : Truths]
  /\ f.loose \subseteq Blocks /\ f.at \in Blocks

LEMMA RolesAreBlocks ==
  ASSUME NEW n \in Nat, NEW role \in Roles, role # "none"
  PROVE  Block(n, role) \in Blocks \ {NoBlock}
BY DEF Block, Blocks, NoBlock

LEMMA NamedBlocks ==
  /\ NoBlock \in Blocks /\ EntryBlock \in Blocks \ {NoBlock}
  /\ ReturnBlock \in Blocks \ {NoBlock} /\ AnyValue \in Blocks
<1>1. /\ 0 \in Nat /\ "none" \in Roles /\ "entry" \in Roles /\ "return" \in Roles
      /\ "value" \in Roles
  BY DEF Roles
<1> QED
  BY <1>1 DEF Blocks, NoBlock, EntryBlock, ReturnBlock, AnyValue, Block

LEMMA Values ==
  /\ Register \in [isConst : BOOLEAN, of : Truths]
  /\ \A c : Constant(c) \in [isConst : BOOLEAN, of : Truths]
BY DEF Register, Constant, Truths

LEMMA TermsTyped ==
  /\ TermTyped(NoTerm) /\ TermTyped(Ret)
  /\ \A b \in Blocks \ {NoBlock} : TermTyped(Br(b)) /\ TermTyped(Switch(b))
  /\ \A v \in [isConst : BOOLEAN, of : Truths] : \A t, f \in Blocks \ {NoBlock} :
       TermTyped(CondBr(v, t, f))
<1>1. Register.of \in Truths
  BY DEF Register, Truths
<1>2. TermTyped(NoTerm) /\ TermTyped(Ret)
  BY <1>1 DEF TermTyped, NoTerm, Ret, Term
<1>3. ASSUME NEW b \in Blocks \ {NoBlock} PROVE TermTyped(Br(b)) /\ TermTyped(Switch(b))
  BY <1>1 DEF TermTyped, Br, Switch, Term
<1>4. ASSUME NEW v \in [isConst : BOOLEAN, of : Truths],
             NEW t \in Blocks \ {NoBlock}, NEW f \in Blocks \ {NoBlock}
      PROVE  TermTyped(CondBr(v, t, f))
  BY DEF TermTyped, CondBr, Term
<1> QED
  BY <1>2, <1>3, <1>4

LEMMA EmptyTyped == BlkTyped(Empty)
<1>1. Empty = [code |-> <<>>, term |-> NoTerm] /\ <<>> \in Seq(Events)
  BY DEF Empty
<1> QED
  BY <1>1, TermsTyped DEF BlkTyped

\* A step that changes one block.
LEMMA BlockTyped ==
  ASSUME NEW f, FnTyped(f), NEW b, NEW x, b \in DOMAIN f.blk => BlkTyped(x),
         NEW g, g = [f EXCEPT !.blk = [f.blk EXCEPT ![b] = x]]
  PROVE  FnTyped(g) /\ g.at = f.at
<1> DEFINE blk == [f.blk EXCEPT ![b] = x]
<1>1. /\ DOMAIN blk = DOMAIN f.blk /\ blk = [c \in DOMAIN blk |-> blk[c]]
      /\ \A c \in DOMAIN blk : blk[c] = IF c = b THEN x ELSE f.blk[c]
  BY DEF FnTyped
<1> HIDE DEF blk
<1>2. g = [blk |-> blk, phi |-> f.phi, loose |-> f.loose, at |-> f.at]
  BY DEF FnTyped, blk
<1> QED
  BY <1>1, <1>2 DEF FnTyped

LEMMA CreateTermTyped ==
  ASSUME NEW f, FnTyped(f), NEW t, TermTyped(t)
  PROVE  FnTyped(CreateTerm(f, t)) /\ CreateTerm(f, t).at = f.at
<1>1. CASE HaveInsertPoint(f)
  <2> DEFINE x == [f.blk[f.at] EXCEPT !.term = t]
  <2>1. CreateTerm(f, t) = [f EXCEPT !.blk = [f.blk EXCEPT ![f.at] = x]]
    BY <1>1 DEF CreateTerm
  <2>2. f.at \in DOMAIN f.blk => BlkTyped(x)
    BY DEF FnTyped, BlkTyped
  <2> HIDE DEF x
  <2> QED
    BY <2>1, <2>2, BlockTyped
<1>2. CASE ~HaveInsertPoint(f)
  <2> DEFINE loose == f.loose \cup Range(t.to)
  <2>1. Range(t.to) \subseteq Blocks
    BY DEF TermTyped, Range
  <2>2. CreateTerm(f, t) = [f EXCEPT !.loose = loose]
    BY <1>2 DEF CreateTerm
  <2> HIDE DEF loose
  <2>3. CreateTerm(f, t) = [blk |-> f.blk, phi |-> f.phi, loose |-> loose, at |-> f.at]
    BY <2>2 DEF FnTyped
  <2>4. loose \subseteq Blocks
    BY <2>1 DEF loose, FnTyped
  <2> QED
    BY <2>3, <2>4 DEF FnTyped
<1> QED
  BY <1>1, <1>2

LEMMA InsertTyped ==
  ASSUME NEW f, FnTyped(f) PROVE FnTyped(Insert(f)) /\ Insert(f).at = f.at
<1> DEFINE loose == f.loose \cup {AnyValue}
<1>1. CASE HaveInsertPoint(f)
  BY <1>1 DEF Insert
<1>2. CASE ~HaveInsertPoint(f)
  <2>1. Insert(f) = [f EXCEPT !.loose = loose]
    BY <1>2 DEF Insert
  <2>2. loose \subseteq Blocks
    BY NamedBlocks DEF FnTyped
  <2> HIDE DEF loose
  <2>3. Insert(f) = [blk |-> f.blk, phi |-> f.phi, loose |-> loose, at |-> f.at]
    BY <2>1 DEF FnTyped
  <2> QED
    BY <2>2, <2>3 DEF FnTyped
<1> QED
  BY <1>1, <1>2

LEMMA UseTyped ==
  ASSUME NEW f, FnTyped(f), NEW v PROVE FnTyped(Use(f, v)) /\ Use(f, v).at = f.at
BY InsertTyped DEF Use

LEMMA AddEventTyped ==
  ASSUME NEW f, FnTyped(f), NEW e \in Events
  PROVE  FnTyped(AddEvent(f, e)) /\ AddEvent(f, e).at = f.at
<1>1. CASE HaveInsertPoint(f)
  <2> DEFINE old == f.blk[f.at]
             x == [old EXCEPT !.code = Append(old.code, e)]
  <2>1. AddEvent(f, e) = [f EXCEPT !.blk = [f.blk EXCEPT ![f.at] = x]]
    BY <1>1 DEF AddEvent
  <2>2. f.at \in DOMAIN f.blk => BlkTyped(old)
    BY DEF FnTyped
  <2>3. BlkTyped(old) => BlkTyped(x)
    <3> HIDE DEF old
    <3>1. old.code \in Seq(Events) => Append(old.code, e) \in Seq(Events)
      OBVIOUS
    <3> DEFINE code == Append(old.code, e)
    <3> HIDE DEF code
    <3>2. BlkTyped(old) => /\ x = [code |-> code, term |-> old.term]
                           /\ x.code = code /\ x.term = old.term
      BY CodeAdded DEF BlkTyped, code
    <3>3. BlkTyped(old) => code \in Seq(Events) /\ TermTyped(old.term)
      BY <3>1 DEF BlkTyped, code
    <3> HIDE DEF x
    <3> QED
      BY <3>2, <3>3 DEF BlkTyped
  <2> HIDE DEF x
  <2> QED
    BY <2>1, <2>2, <2>3, BlockTyped
<1>2. CASE ~HaveInsertPoint(f)
  BY <1>2, InsertTyped DEF AddEvent
<1> QED
  BY <1>1, <1>2

LEMMA ClearTyped ==
  ASSUME NEW f, FnTyped(f)
  PROVE  FnTyped(ClearInsertionPoint(f)) /\ ClearInsertionPoint(f).at = NoBlock
<1>1. ClearInsertionPoint(f) = [blk |-> f.blk, phi |-> f.phi, loose |-> f.loose, at |-> NoBlock]
  BY DEF ClearInsertionPoint, FnTyped
<1> QED
  BY <1>1, NamedBlocks DEF FnTyped

LEMMA PushBackTyped ==
  ASSUME NEW f, FnTyped(f), NEW b \in Blocks \ {NoBlock}
  PROVE  FnTyped(PushBack(f, b))
<1> DEFINE blk == [x \in DOMAIN f.blk \cup {b} |-> IF x = b THEN Empty ELSE f.blk[x]]
<1>1. PushBack(f, b) = [blk |-> blk, phi |-> f.phi, loose |-> f.loose, at |-> b]
  <2>1. PushBack(f, b) = [f EXCEPT !.blk = blk, !.at = b]
    BY DEF PushBack
  <2> HIDE DEF blk
  <2> QED
    BY <2>1 DEF FnTyped
<1>2. /\ DOMAIN blk = DOMAIN f.blk \cup {b} /\ blk = [x \in DOMAIN blk |-> blk[x]]
      /\ \A x \in DOMAIN blk : blk[x] = IF x = b THEN Empty ELSE f.blk[x]
  OBVIOUS
<1> HIDE DEF blk
<1>3. \A x \in DOMAIN blk : BlkTyped(blk[x])
  BY <1>2, EmptyTyped DEF FnTyped
<1> QED
  BY <1>1, <1>2, <1>3 DEF FnTyped

LEMMA EmitTyped ==
  ASSUME NEW f, FnTyped(f), NEW b \in Blocks \ {NoBlock}
  PROVE  /\ FnTyped(EmitBranch(f, b)) /\ FnTyped(EmitBlock(f, b))
         /\ FnTyped(EmitFinished(f, b)) /\ FnTyped(EmitBranchThroughCleanup(f, b))
<1>1. TermTyped(Br(b))
  BY TermsTyped
<1>2. FnTyped(CreateTerm(f, Br(b)))
  BY <1>1, CreateTermTyped
<1>3. FnTyped(EmitBranch(f, b)) /\ FnTyped(EmitBranchThroughCleanup(f, b))
  BY <1>2, ClearTyped DEF EmitBranch, EmitBranchThroughCleanup
<1> QED
  BY <1>3, PushBackTyped DEF EmitBlock, EmitFinished

LEMMA ReplaceTyped ==
  ASSUME NEW f, FnTyped(f), NEW old, NEW new \in Blocks \ {NoBlock}
  PROVE  FnTyped(ReplaceAllUses(f, old, new))
<1> DEFINE Subst(x) == IF x = old THEN new ELSE x
           Redirect(t) == [t EXCEPT !.to = [x \in DOMAIN t.to |-> Subst(t.to[x])]]
           blk == [b \in DOMAIN f.blk |->
                     [f.blk[b] EXCEPT !.term = Redirect(f.blk[b].term)]]
           loose == {Subst(x) : x \in f.loose}
<1>1. ReplaceAllUses(f, old, new) = [f EXCEPT !.blk = blk, !.loose = loose]
  BY DEF ReplaceAllUses
<1>2. ASSUME NEW t, TermTyped(t) PROVE TermTyped(Redirect(t))
  <2> DEFINE to == [x \in DOMAIN t.to |-> Subst(t.to[x])]
  <2>1. Redirect(t) = [op |-> t.op, of |-> t.of, to |-> to]
    BY <1>2 DEF TermTyped
  <2>2. DOMAIN to = DOMAIN t.to /\ \A x \in DOMAIN to : to[x] \in Blocks \ {NoBlock}
    BY <1>2 DEF TermTyped
  <2> HIDE DEF to
  <2> QED
    BY <1>2, <2>1, <2>2 DEF TermTyped
<1>3. loose \subseteq Blocks
  BY DEF FnTyped
<1> HIDE DEF Redirect, loose
<1>4. ASSUME NEW b \in DOMAIN f.blk PROVE BlkTyped(blk[b])
  BY <1>2 DEF FnTyped, BlkTyped
<1>5. DOMAIN blk = DOMAIN f.blk /\ blk = [b \in DOMAIN blk |-> blk[b]]
  OBVIOUS
<1> HIDE DEF blk
<1>6. ReplaceAllUses(f, old, new) = [blk |-> blk, phi |-> f.phi, loose |-> loose, at |-> f.at]
  BY <1>1 DEF FnTyped
<1> QED
  BY <1>3, <1>4, <1>5, <1>6 DEF FnTyped

LEMMA SimplifyTyped ==
  ASSUME NEW f, FnTyped(f), NEW b \in DOMAIN f.blk
  PROVE  FnTyped(SimplifyForwardingBlocks(f, b))
<1>1. CASE f.blk[b].term.op # "br"
  BY <1>1 DEF SimplifyForwardingBlocks
<1>2. CASE f.blk[b].term.op = "br"
  <2> DEFINE g == ReplaceAllUses(f, b, f.blk[b].term.to[0])
             h == SimplifyForwardingBlocks(f, b)
             blk == [x \in DOMAIN g.blk \ {b} |-> g.blk[x]]
  <2>1. f.blk[b].term.to[0] \in Blocks \ {NoBlock}
    BY <1>2 DEF FnTyped, BlkTyped, TermTyped
  <2>2. FnTyped(g)
    BY <2>1, ReplaceTyped
  <2>3. h = [g EXCEPT !.blk = blk]
    BY <1>2 DEF SimplifyForwardingBlocks, Restrict
  <2> HIDE DEF g, h
  <2>4. /\ DOMAIN blk = DOMAIN g.blk \ {b} /\ blk = [x \in DOMAIN blk |-> blk[x]]
        /\ \A x \in DOMAIN blk : blk[x] = g.blk[x]
    OBVIOUS
  <2> HIDE DEF blk
  <2>5. h = [blk |-> blk, phi |-> g.phi, loose |-> g.loose, at |-> g.at]
    BY <2>2, <2>3 DEF FnTyped
  <2>6. FnTyped(h)
    BY <2>2, <2>4, <2>5 DEF FnTyped
  <2> QED
    BY <2>6 DEF h
<1> QED
  BY <1>1, <1>2

LEMMA PhiTyped ==
  ASSUME NEW f, FnTyped(f), NEW phi, phi \subseteq [at : Blocks, from : Blocks, of : Truths]
  PROVE  FnTyped([f EXCEPT !.phi = phi]) /\ [f EXCEPT !.phi = phi].at = f.at
<1>1. [f EXCEPT !.phi = phi] = [blk |-> f.blk, phi |-> phi, loose |-> f.loose, at |-> f.at]
  BY DEF FnTyped
<1> QED
  BY <1>1 DEF FnTyped

LEMMA AddIncomingTyped ==
  ASSUME NEW f, FnTyped(f), NEW b \in Blocks, NEW pred \in Blocks,
         NEW v \in [isConst : BOOLEAN, of : Truths]
  PROVE  FnTyped(AddIncoming(f, b, pred, v))
<1> DEFINE phi == f.phi \cup {[at |-> b, from |-> pred, of |-> v.of]}
<1>1. phi \subseteq [at : Blocks, from : Blocks, of : Truths]
  BY DEF FnTyped
<1>2. AddIncoming(f, b, pred, v) = [f EXCEPT !.phi = phi]
  BY DEF AddIncoming
<1> HIDE DEF phi
<1> QED
  BY <1>1, <1>2, PhiTyped

LEMMA AddCaseTyped ==
  ASSUME NEW f, FnTyped(f), NEW switch, NEW n \in Nat, NEW b \in Blocks \ {NoBlock}
  PROVE  FnTyped(AddCase(f, switch, n, b))
<1> DEFINE old == f.blk[switch]
           to == [x \in DOMAIN old.term.to \cup {n} |->
                    IF x = n THEN b ELSE old.term.to[x]]
           term == [old.term EXCEPT !.to = to]
           new == [old EXCEPT !.term = term]
<1>1. AddCase(f, switch, n, b) = [f EXCEPT !.blk = [f.blk EXCEPT ![switch] = new]]
  BY DEF AddCase
<1>2. switch \in DOMAIN f.blk => BlkTyped(old)
  BY DEF FnTyped
<1>3. ASSUME BlkTyped(old) PROVE BlkTyped(new)
  <2> HIDE DEF old
  <2>1. /\ DOMAIN to = DOMAIN old.term.to \cup {n}
        /\ \A x \in DOMAIN to : to[x] \in Blocks \ {NoBlock}
    BY <1>3 DEF BlkTyped, TermTyped
  <2> HIDE DEF to
  <2>2. term = [op |-> old.term.op, of |-> old.term.of, to |-> to]
    BY <1>3 DEF BlkTyped, TermTyped
  <2> HIDE DEF term
  <2>3. TermTyped(term)
    BY <1>3, <2>1, <2>2 DEF BlkTyped, TermTyped
  <2>4. new = [code |-> old.code, term |-> term]
    BY <1>3 DEF BlkTyped
  <2> QED
    BY <1>3, <2>3, <2>4 DEF BlkTyped
<1> HIDE DEF new
<1> QED
  BY <1>1, <1>2, <1>3, BlockTyped

\* The tree a function was parsed into: each node has its kind's children.
TreeOK ==
  /\ DOMAIN prog \subseteq Nat /\ 1 \in DOMAIN prog
  /\ \A n \in DOMAIN prog :
       /\ prog[n].kids \in Seq(DOMAIN prog)
       /\ prog[n].kind \in {"For", "Switch", "Case", "Default", "Label", "Not"} => Len(prog[n].kids) >= 1
       /\ prog[n].kind \in {"If", "While", "DoWhile", "And", "Or"} => Len(prog[n].kids) >= 2
       /\ prog[n].kind = "Cond" => Len(prog[n].kids) >= 3
       /\ prog[n].kind = "Goto" => prog[n].to \in Nat

\* A piece, with a node of the kind its handler was called for.
PieceTyped(p) ==
  /\ p.op \in {"stmt", "expr", "branch", "if.else"} => p.n \in DOMAIN prog
  /\ p.op = "while.body" => p.n \in DOMAIN prog /\ prog[p.n].kind = "While"
  /\ p.op = "do.cond" => p.n \in DOMAIN prog /\ prog[p.n].kind = "DoWhile"
  /\ p.op = "for.body" => p.n \in DOMAIN prog /\ prog[p.n].kind = "For"
  /\ p.op = "logic.rhs" => p.n \in DOMAIN prog /\ prog[p.n].kind \in {"And", "Or"}
  /\ p.op \in {"branch", "condbr"} => p.t # NoBlock /\ p.f # NoBlock
  /\ p.op = "block" => p.t # NoBlock

Pieces == {p \in [op : Ops, n : Nat, t : Blocks, f : Blocks] : PieceTyped(p)}

Results == [isConst : BOOLEAN, of : Truths]
LoopEntries == [break : Blocks, continue : Blocks]

GenTypes ==
  /\ FnTyped(fn) /\ todo \in Seq(Pieces) /\ result \in Results
  /\ loops \in Seq(LoopEntries) /\ switchInst \in Blocks
  /\ status \in {"idle", "emit", "done", "broken", "error", "crash"}

LEMMA GenTypesTyped == GenTypes => CodeGenTypeOK
<1> SUFFICES ASSUME GenTypes PROVE CodeGenTypeOK
  OBVIOUS
<1>1. ASSUME NEW t, TermTyped(t) PROVE IsTerm(t)
  BY <1>1 DEF TermTyped, IsTerm, Truths
<1>2. ASSUME NEW b \in DOMAIN fn.blk
      PROVE  /\ b \in Blocks \ {NoBlock}
             /\ fn.blk[b] \in [code : Seq(Events), term : {fn.blk[b].term}]
             /\ IsTerm(fn.blk[b].term)
  BY <1>1 DEF GenTypes, FnTyped, BlkTyped
<1>3. todo \in Seq([op : Ops, n : Nat, t : Blocks, f : Blocks])
  <2> DEFINE S == [op : Ops, n : Nat, t : Blocks, f : Blocks]
  <2>1. Pieces \subseteq S
    BY DEF Pieces
  <2>2. todo \in Seq(Pieces)
    BY DEF GenTypes
  <2> HIDE DEF S
  <2>3. todo \in Seq(S)
    BY <2>1, <2>2
  <2> QED
    BY <2>3 DEF S
<1> QED
  BY <1>2, <1>3 DEF CodeGenTypeOK, GenTypes, FnTyped, Results, Truths, LoopEntries

LEMMA StartedTyped == FnTyped(StartedFunction)
<1> DEFINE blk == [b \in {EntryBlock} |-> Empty]
<1>1. /\ StartedFunction = [blk |-> blk, phi |-> {}, loose |-> {}, at |-> EntryBlock]
      /\ DOMAIN blk = {EntryBlock} /\ blk[EntryBlock] = Empty
      /\ blk = [b \in DOMAIN blk |-> blk[b]]
  BY DEF StartedFunction
<1> HIDE DEF blk
<1> QED
  BY <1>1, NamedBlocks, EmptyTyped DEF FnTyped

LEMMA GenInitTypes == GenInit => GenTypes
BY StartedTyped, NamedBlocks, Values DEF GenInit, GenTypes, Results

\* The pieces a handler calls.
LEMMA NodePieces ==
  ASSUME TreeOK, NEW n \in DOMAIN prog
  PROVE  EmitStmt(n) \in Pieces /\ Accept(n) \in Pieces /\ Resume("if.else", n) \in Pieces
BY NamedBlocks DEF Ops, TreeOK, EmitStmt, Accept, Resume, Piece, Pieces, PieceTyped

LEMMA ResumePieces ==
  ASSUME NEW n \in Nat
  PROVE  \A op \in {"finish", "if.end", "while.end", "while.end.one", "do.end", "for.end",
                     "store", "not", "select", "cond.lhs", "cond.rhs", "logic.end"} :
           Resume(op, n) \in Pieces
BY NamedBlocks DEF Ops, Resume, Piece, Pieces, PieceTyped

LEMMA KindPieces ==
  ASSUME TreeOK, NEW n \in DOMAIN prog
  PROVE  /\ prog[n].kind = "While" => Resume("while.body", n) \in Pieces
         /\ prog[n].kind = "DoWhile" => Resume("do.cond", n) \in Pieces
         /\ prog[n].kind = "For" => Resume("for.body", n) \in Pieces
         /\ prog[n].kind \in {"And", "Or"} => Resume("logic.rhs", n) \in Pieces
BY NamedBlocks DEF Ops, TreeOK, Resume, Piece, Pieces, PieceTyped

LEMMA BranchPieces ==
  ASSUME TreeOK, NEW t \in Blocks \ {NoBlock}, NEW f \in Blocks \ {NoBlock}
  PROVE  /\ \A n \in DOMAIN prog : BranchOn(n, t, f) \in Pieces
         /\ CreateCondBr(t, f) \in Pieces /\ StartBlock(t) \in Pieces
BY NamedBlocks DEF Ops, TreeOK, BranchOn, CreateCondBr, StartBlock, Pieces, PieceTyped

LEMMA SwitchPieces ==
  ASSUME NEW n \in Nat, switchInst \in Blocks PROVE RestoreSwitch(n) \in Pieces
BY NamedBlocks DEF Ops, RestoreSwitch, Pieces, PieceTyped

LEMMA KidsTyped ==
  ASSUME TreeOK, NEW n \in DOMAIN prog
  PROVE  /\ Kids(n) = prog[n].kids /\ Kids(n) \in Seq(DOMAIN prog) /\ Len(Kids(n)) \in Nat
         /\ \A i \in 1..Len(Kids(n)) : Kids(n)[i] \in DOMAIN prog
         /\ Kids(n) # <<>> => Kids(n)[1] \in DOMAIN prog /\ Last(Kids(n)) \in DOMAIN prog
<1>1. Kids(n) = prog[n].kids /\ Kids(n) \in Seq(DOMAIN prog)
  BY DEF TreeOK, Kids
<1> QED
  BY <1>1 DEF Last

LEMMA TopTyped ==
  ASSUME GenTypes, todo # <<>>
  PROVE  Top \in Pieces /\ Tail(todo) \in Seq(Pieces)
BY DEF GenTypes, Top

\* The rest of a handler is called with what it needs.
LEMMA GoTyped ==
  ASSUME GenTypes, todo # <<>>, NEW f, FnTyped(f), NEW next \in Seq(Pieces), Go(f, next),
         UNCHANGED prog, result' \in Results, loops' \in Seq(LoopEntries), switchInst' \in Blocks
  PROVE  GenTypes'
<1>1. Pieces' = Pieces
  BY DEF Pieces, PieceTyped
<1>2. next \o Tail(todo) \in Seq(Pieces)
  BY TopTyped
<1> QED
  BY <1>1, <1>2 DEF GenTypes, Go

LEMMA KeepTyped ==
  ASSUME GenTypes, todo # <<>>, NEW f, FnTyped(f), NEW next \in Seq(Pieces), Go(f, next),
         UNCHANGED prog, Keep
  PROVE  GenTypes'
BY GoTyped DEF GenTypes, Keep

LEMMA EvaluateTyped ==
  ASSUME GenTypes, todo # <<>>, NEW f, FnTyped(f), NEW next \in Seq(Pieces), Evaluate(f, next),
         UNCHANGED prog
  PROVE  GenTypes'
BY GoTyped, Values DEF GenTypes, Evaluate, Results

LEMMA StopTyped ==
  ASSUME GenTypes, NEW how \in {"error", "crash"}, Stop(how), UNCHANGED prog
  PROVE  GenTypes'
<1>1. <<>> \in Seq(Pieces')
  OBVIOUS
<1> QED
  BY <1>1 DEF GenTypes, Stop

-----------------------------------------------------------------------------
\* What a handler finds.
LEMMA NodeBlocks ==
  ASSUME NEW n \in Nat
  PROVE  \A role \in {"anon", "label", "case", "default", "then", "else", "end", "cond",
                      "body", "inc", "lhs", "rhs"} : Block(n, role) \in Blocks \ {NoBlock}
<1> SUFFICES ASSUME NEW role \in {"anon", "label", "case", "default", "then", "else", "end",
                                  "cond", "body", "inc", "lhs", "rhs"}
             PROVE  Block(n, role) \in Blocks \ {NoBlock}
  OBVIOUS
<1>1. role \in Roles /\ role # "none"
  BY DEF Roles
<1> QED
  BY <1>1, RolesAreBlocks

LEMMA NodeEvents ==
  ASSUME NEW n \in Nat
  PROVE  <<n, "eval">> \in Events /\ <<n, "init">> \in Events /\ <<n, "inc">> \in Events
BY DEF Events

LEMMA RunningTyped ==
  ASSUME GenTypes, NEW op, Running(op)
  PROVE  /\ todo # <<>> /\ PieceTyped(Top) /\ Top.op = op /\ Top.n \in Nat
         /\ Top.t \in Blocks /\ Top.f \in Blocks /\ FnTyped(fn)
<1>1. todo # <<>> /\ Top.op = op
  BY DEF Running
<1>2. Top \in Pieces
  BY <1>1, TopTyped
<1> QED
  BY <1>1, <1>2 DEF Pieces, GenTypes

LEMMA VisitTyped ==
  ASSUME GenTypes, TreeOK, NEW kind, Visit(kind)
  PROVE  /\ Running("stmt") /\ todo # <<>> /\ Top.n \in DOMAIN prog /\ Top.n \in Nat
         /\ prog[Top.n].kind = kind /\ FnTyped(fn) /\ FnTyped(Ensured)
<1>1. Running("stmt") /\ prog[Top.n].kind = kind
  BY DEF Visit, Kind
<1>2. todo # <<>> /\ FnTyped(fn) /\ Top.n \in Nat /\ Top.n \in DOMAIN prog
  BY <1>1, RunningTyped DEF PieceTyped
<1>3. Block(Top.n, "anon") \in Blocks \ {NoBlock}
  BY <1>2, NodeBlocks
<1>4. FnTyped(Ensured)
  BY <1>2, <1>3, EmitTyped DEF Ensured
<1> QED
  BY <1>1, <1>2, <1>4

LEMMA ExpressionTyped ==
  ASSUME GenTypes, TreeOK, NEW kind, Expression(kind)
  PROVE  /\ Running("expr") /\ todo # <<>> /\ Top.n \in DOMAIN prog /\ Top.n \in Nat
         /\ prog[Top.n].kind = kind /\ FnTyped(fn)
<1>1. Running("expr") /\ prog[Top.n].kind = kind
  BY DEF Expression, Kind
<1> QED
  BY <1>1, RunningTyped DEF PieceTyped

LEMMA Bodies ==
  ASSUME TreeOK, NEW n \in DOMAIN prog,
         prog[n].kind \in {"For", "Switch", "Case", "Default", "Label", "While", "DoWhile"}
  PROVE  GetBody(n) \in DOMAIN prog
<1> DEFINE k == Kids(n)
<1>a. k = prog[n].kids /\ k \in Seq(DOMAIN prog)
  BY KidsTyped
<1>1. Len(k) >= 1
  BY <1>a DEF TreeOK
<1>2. Kids(n)[1] \in DOMAIN prog /\ Last(Kids(n)) \in DOMAIN prog
  <2>1. k # <<>> /\ k[1] \in DOMAIN prog
    BY <1>a, <1>1
  <2> QED
    BY <2>1, KidsTyped
<1> QED
  BY <1>2 DEF GetBody

LEMMA Conditions ==
  ASSUME TreeOK, NEW n \in DOMAIN prog,
         prog[n].kind \in {"For", "While", "DoWhile", "If"}
  PROVE  GetCond(n) \in DOMAIN prog
<1>a. Kids(n) = prog[n].kids /\ Kids(n) \in Seq(DOMAIN prog)
  BY KidsTyped
<1>1. Len(Kids(n)) >= 1 /\ (prog[n].kind = "DoWhile" => Len(Kids(n)) >= 2)
  BY <1>a DEF TreeOK
<1>2. Kids(n)[1] \in DOMAIN prog /\ (prog[n].kind = "DoWhile" => Kids(n)[2] \in DOMAIN prog)
  BY <1>a, <1>1
<1> QED
  BY <1>2 DEF GetCond, Kind

LEMMA IfParts ==
  ASSUME TreeOK, NEW n \in DOMAIN prog, prog[n].kind = "If"
  PROVE  GetThen(n) \in DOMAIN prog /\ (HasElse(n) => GetElse(n) \in DOMAIN prog)
<1>1. Kids(n) \in Seq(DOMAIN prog) /\ Len(Kids(n)) >= 2
  BY KidsTyped DEF TreeOK
<1> QED
  BY <1>1 DEF GetThen, GetElse, HasElse

LEMMA StmtsTyped ==
  ASSUME TreeOK, NEW n PROVE Stmts(n) \in Seq(Pieces)
<1>1. Kids(n) \in Seq(DOMAIN prog)
  <2>1. CASE n \in DOMAIN prog
    BY <2>1, KidsTyped
  <2>2. CASE n \notin DOMAIN prog
    BY <2>2 DEF Kids
  <2> QED
    BY <2>1, <2>2
<1>2. \A i \in DOMAIN Kids(n) : EmitStmt(Kids(n)[i]) \in Pieces
  BY <1>1, NodePieces
<1> QED
  BY <1>1, <1>2 DEF Stmts

-----------------------------------------------------------------------------
\* Every step of the code generator, one handler at a time.
LEMMA SimpleTypes ==
  ASSUME GenTypes, TreeOK, UNCHANGED prog,
         \/ DropStmt \/ VisitLabelStmt \/ VisitNullStmt \/ VisitExprStmt
         \/ VisitDeclaration \/ StoreInit \/ VisitGotoStmt
  PROVE  GenTypes'
<1> DEFINE n == Top.n
<1>1. <<>> \in Seq(Pieces)
  OBVIOUS
<1>2. CASE DropStmt
  BY <1>1, <1>2, RunningTyped, KeepTyped DEF DropStmt
<1>3. CASE VisitLabelStmt
  <2>1. /\ Visit("Label") /\ Keep
        /\ Go(EmitBlock(fn, Block(n, "label")), <<EmitStmt(GetBody(n))>>)
    BY <1>3 DEF VisitLabelStmt, GetBasicBlockForLabel
  <2>2. todo # <<>> /\ n \in DOMAIN prog /\ n \in Nat /\ prog[n].kind = "Label" /\ FnTyped(fn)
    BY <2>1, VisitTyped
  <2> HIDE DEF n
  <2>3. FnTyped(EmitBlock(fn, Block(n, "label")))
    BY <2>2, NodeBlocks, EmitTyped
  <2>4. <<EmitStmt(GetBody(n))>> \in Seq(Pieces)
    BY <2>2, Bodies, NodePieces
  <2> QED
    BY <2>1, <2>2, <2>3, <2>4, KeepTyped
<1>4. CASE VisitNullStmt
  BY <1>1, <1>4, VisitTyped, KeepTyped DEF VisitNullStmt
<1>5. CASE VisitExprStmt
  <2>1. Visit("Expr")
    BY <1>5 DEF VisitExprStmt
  <2>2. todo # <<>> /\ n \in DOMAIN prog /\ n \in Nat /\ FnTyped(Ensured)
    BY <2>1, VisitTyped
  <2>3. CASE Kids(n) = <<>>
    <3>1. Evaluate(AddEvent(Ensured, <<n, "eval">>), <<>>)
      BY <1>5, <2>3 DEF VisitExprStmt
    <3>2. FnTyped(AddEvent(Ensured, <<n, "eval">>))
      BY <2>2, NodeEvents, AddEventTyped
    <3> QED
      BY <1>1, <2>2, <3>1, <3>2, EvaluateTyped
  <2>4. CASE Kids(n) # <<>>
    <3>1. Go(Ensured, <<Accept(Kids(n)[1])>>) /\ Keep
      BY <1>5, <2>4 DEF VisitExprStmt
    <3>2. <<Accept(Kids(n)[1])>> \in Seq(Pieces)
      BY <2>2, <2>4, KidsTyped, NodePieces
    <3> QED
      BY <2>2, <3>1, <3>2, KeepTyped
  <2> QED
    BY <2>3, <2>4
<1>6. CASE VisitDeclaration
  <2>1. Visit("Decl")
    BY <1>6 DEF VisitDeclaration
  <2>2. todo # <<>> /\ n \in DOMAIN prog /\ n \in Nat /\ FnTyped(fn)
    BY <2>1, VisitTyped
  <2>3. CASE Kids(n) = <<>>
    <3>1. Evaluate(AddEvent(fn, <<n, "eval">>), <<>>)
      BY <1>6, <2>3 DEF VisitDeclaration
    <3>2. FnTyped(AddEvent(fn, <<n, "eval">>))
      BY <2>2, NodeEvents, AddEventTyped
    <3> QED
      BY <1>1, <2>2, <3>1, <3>2, EvaluateTyped
  <2>4. CASE Kids(n) # <<>>
    <3> DEFINE a == Accept(Kids(n)[1])
               b == Resume("store", n)
    <3>1. Go(fn, <<a, b>>) /\ Keep
      BY <1>6, <2>4 DEF VisitDeclaration
    <3>2. a \in Pieces /\ b \in Pieces
      BY <2>2, <2>4, KidsTyped, NodePieces, ResumePieces
    <3> HIDE DEF a, b
    <3>3. <<a, b>> \in Seq(Pieces)
      BY <3>2
    <3> QED
      BY <2>2, <3>1, <3>3, KeepTyped
  <2> QED
    BY <2>3, <2>4
<1>7. CASE VisitGotoStmt
  <2> DEFINE b == Block(prog[n].to, "label")
  <2>1. Visit("Goto") /\ Go(EmitBranchThroughCleanup(fn, b), <<>>) /\ Keep
    BY <1>7 DEF VisitGotoStmt, GetBasicBlockForLabel
  <2>2. todo # <<>> /\ n \in DOMAIN prog /\ prog[n].kind = "Goto" /\ FnTyped(fn)
    BY <2>1, VisitTyped
  <2>3. b \in Blocks \ {NoBlock}
    BY <2>2, NodeBlocks DEF TreeOK
  <2> QED
    BY <1>1, <2>1, <2>2, <2>3, EmitTyped, KeepTyped
<1>8. CASE StoreInit
  BY <1>1, <1>8, RunningTyped, InsertTyped, KeepTyped DEF StoreInit
<1> QED
  BY <1>2, <1>3, <1>4, <1>5, <1>6, <1>7, <1>8

LEMMA StmtListTypes ==
  ASSUME GenTypes, TreeOK, UNCHANGED prog, VisitCompoundStmt \/ FoldIfStmt \/ VisitStmtExpr
  PROVE  GenTypes'
<1>1. CASE VisitCompoundStmt
  BY <1>1, VisitTyped, StmtsTyped, KeepTyped DEF VisitCompoundStmt
<1>2. CASE VisitStmtExpr
  BY <1>2, ExpressionTyped, StmtsTyped, KeepTyped DEF VisitStmtExpr, Then
<1>3. CASE FoldIfStmt
  <2> DEFINE k == Executed(Top.n)
             q == [i \in DOMAIN k |-> EmitStmt(k[i])]
  <2>1. Visit("If") /\ Go(Ensured, q) /\ Keep
    BY <1>3 DEF FoldIfStmt
  <2>2. /\ todo # <<>> /\ Top.n \in DOMAIN prog /\ prog[Top.n].kind = "If"
        /\ FnTyped(Ensured)
    BY <2>1, VisitTyped
  <2>3. k \in Seq(DOMAIN prog)
    <3>1. GetThen(Top.n) \in DOMAIN prog /\ (HasElse(Top.n) => GetElse(Top.n) \in DOMAIN prog)
      BY <2>2, IfParts
    <3>2. k \in {<<GetThen(Top.n)>>, <<>>} \/ (HasElse(Top.n) /\ k = <<GetElse(Top.n)>>)
      BY DEF Executed
    <3>3. <<GetThen(Top.n)>> \in Seq(DOMAIN prog) /\ <<>> \in Seq(DOMAIN prog)
      BY <3>1
    <3>4. HasElse(Top.n) => <<GetElse(Top.n)>> \in Seq(DOMAIN prog)
      BY <3>1
    <3> QED
      BY <3>2, <3>3, <3>4, Zenon
  <2> HIDE DEF k
  <2>4. q \in Seq(Pieces)
    <3>1. \A i \in DOMAIN k : EmitStmt(k[i]) \in Pieces
      BY <2>3, NodePieces
    <3> QED
      BY <2>3, <3>1
  <2> HIDE DEF q
  <2> QED
    BY <2>1, <2>2, <2>4, KeepTyped
<1> QED
  BY <1>1, <1>2, <1>3

LEMMA PushTyped ==
  ASSUME GenTypes, NEW b \in Blocks, NEW c \in Blocks, PushBlock(b, c)
  PROVE  loops' \in Seq(LoopEntries)
<1>1. [break |-> b, continue |-> c] \in LoopEntries /\ loops \in Seq(LoopEntries)
  BY DEF LoopEntries, GenTypes
<1> QED
  BY <1>1 DEF PushBlock

LEMMA PopTyped ==
  ASSUME GenTypes, LoopInv, NEW op \in Pushed, Running(op)
  PROVE  Tail(loops) \in Seq(LoopEntries)
<1>1. Matches(todo, loops) /\ todo # <<>> /\ todo[1].op \in Pushed
  BY DEF LoopInv, Running, Top
<1>2. loops # <<>>
  BY <1>1, MatchPop
<1> QED
  BY <1>2 DEF GenTypes

LEMMA IfTypes ==
  ASSUME GenTypes, TreeOK, UNCHANGED prog, VisitIfStmt \/ IfElse \/ IfEnd
  PROVE  GenTypes'
<1> DEFINE n == Top.n
           then == Block(n, "then")
           else == Block(n, "else")
           end == Block(n, "end")
<1>1. CASE VisitIfStmt
  <2> DEFINE other == Block(n, IF HasElse(n) THEN "else" ELSE "end")
             a == BranchOn(GetCond(n), then, other)
             b == StartBlock(then)
             c == EmitStmt(GetThen(n))
             d == Resume("if.else", n)
  <2>1. Visit("If") /\ Go(Ensured, <<a, b, c, d>>) /\ Keep
    BY <1>1 DEF VisitIfStmt
  <2>2. todo # <<>> /\ n \in DOMAIN prog /\ n \in Nat /\ prog[n].kind = "If" /\ FnTyped(Ensured)
    BY <2>1, VisitTyped
  <2>3. then \in Blocks \ {NoBlock} /\ other \in Blocks \ {NoBlock}
    BY <2>2, NodeBlocks
  <2> HIDE DEF n, other, then
  <2>4. GetCond(n) \in DOMAIN prog /\ GetThen(n) \in DOMAIN prog
    BY <2>2, Conditions, IfParts
  <2>5. a \in Pieces /\ b \in Pieces
    BY <2>3, <2>4, BranchPieces
  <2>6. c \in Pieces /\ d \in Pieces
    BY <2>2, <2>4, NodePieces
  <2> HIDE DEF a, b, c, d
  <2>7. <<a, b, c, d>> \in Seq(Pieces)
    BY <2>5, <2>6
  <2> QED
    BY <2>1, <2>2, <2>7, KeepTyped
<1>2. CASE IfElse
  <2> DEFINE f == EmitBranch(fn, end)
  <2>1. Running("if.else") /\ Keep
    BY <1>2 DEF IfElse
  <2>2. todo # <<>> /\ n \in DOMAIN prog /\ n \in Nat /\ FnTyped(fn)
    BY <2>1, RunningTyped DEF PieceTyped
  <2>3. then \in Blocks \ {NoBlock} /\ else \in Blocks \ {NoBlock} /\ end \in Blocks \ {NoBlock}
    BY <2>2, NodeBlocks
  <2>4. FnTyped(f)
    BY <2>2, <2>3, EmitTyped
  <2>5. CASE HasElse(n)
    <3>1. Go(EmitBlock(f, else), <<EmitStmt(GetElse(n)), Resume("if.end", n)>>)
      BY <1>2, <2>5 DEF IfElse
    <3>2. FnTyped(EmitBlock(f, else))
      BY <2>3, <2>4, EmitTyped
    <3>3. GetElse(n) \in DOMAIN prog
      BY <2>2, <2>5, KidsTyped DEF HasElse, GetElse
    <3>4. <<EmitStmt(GetElse(n)), Resume("if.end", n)>> \in Seq(Pieces)
      <4>1. EmitStmt(GetElse(n)) \in Pieces /\ Resume("if.end", n) \in Pieces
        BY <2>2, <3>3, NodePieces, ResumePieces
      <4> QED
        BY <4>1
    <3> QED
      BY <2>1, <2>2, <3>1, <3>2, <3>4, KeepTyped
  <2>6. CASE ~HasElse(n)
    <3>1. Go(EmitFinished(f, end), <<>>)
      BY <1>2, <2>6 DEF IfElse
    <3>2. FnTyped(EmitFinished(f, end)) /\ <<>> \in Seq(Pieces)
      BY <2>3, <2>4, EmitTyped
    <3> QED
      BY <2>1, <2>2, <3>1, <3>2, KeepTyped
  <2> QED
    BY <2>5, <2>6
<1>3. CASE IfEnd
  <2> DEFINE f == EmitBranch(fn, end)
  <2>1. Running("if.end") /\ Keep /\ Go(EmitFinished(f, end), <<>>)
    BY <1>3 DEF IfEnd
  <2>2. todo # <<>> /\ n \in Nat /\ FnTyped(fn)
    BY <2>1, RunningTyped
  <2>3. end \in Blocks \ {NoBlock}
    BY <2>2, NodeBlocks
  <2>4. FnTyped(f)
    BY <2>2, <2>3, EmitTyped
  <2>5. FnTyped(EmitFinished(f, end)) /\ <<>> \in Seq(Pieces)
    BY <2>3, <2>4, EmitTyped
  <2> QED
    BY <2>1, <2>2, <2>5, KeepTyped
<1> QED
  BY <1>1, <1>2, <1>3

LEMMA SwitchTypes ==
  ASSUME GenTypes, LoopInv, TreeOK, UNCHANGED prog,
         VisitCaseStmt \/ VisitDefaultStmt \/ VisitSwitchStmt \/ SwitchEnd
  PROVE  GenTypes'
<1> DEFINE n == Top.n
           end == Block(n, "end")
<1>1. CASE VisitCaseStmt
  <2> DEFINE b == Block(n, "case")
             f == EmitBlock(fn, b)
             g == AddCase(f, switchInst, n, b)
  <2>1. Visit("Case")
    BY <1>1 DEF VisitCaseStmt
  <2>2. todo # <<>> /\ n \in DOMAIN prog /\ n \in Nat /\ prog[n].kind = "Case" /\ FnTyped(fn)
    BY <2>1, VisitTyped
  <2>3. b \in Blocks \ {NoBlock}
    BY <2>2, NodeBlocks
  <2>4. FnTyped(g)
    BY <2>2, <2>3, EmitTyped, AddCaseTyped
  <2>5. EmitStmt(GetBody(n)) \in Pieces
    BY <2>2, Bodies, NodePieces
  <2>6. CASE ~InSwitch
    BY <1>1, <2>6, StopTyped DEF VisitCaseStmt
  <2>7. CASE InSwitch
    <3>1. Go(g, <<EmitStmt(GetBody(n))>>) /\ Keep
      BY <1>1, <2>7 DEF VisitCaseStmt
    <3>2. <<EmitStmt(GetBody(n))>> \in Seq(Pieces)
      BY <2>5
    <3> QED
      BY <2>2, <2>4, <3>1, <3>2, KeepTyped
  <2> QED
    BY <2>6, <2>7
<1>2. CASE VisitDefaultStmt
  <2> DEFINE b == fn.blk[switchInst].term.to[0]
  <2>1. Visit("Default")
    BY <1>2 DEF VisitDefaultStmt
  <2>2. todo # <<>> /\ n \in DOMAIN prog /\ prog[n].kind = "Default" /\ FnTyped(fn)
    BY <2>1, VisitTyped
  <2>3. EmitStmt(GetBody(n)) \in Pieces
    BY <2>2, Bodies, NodePieces
  <2>4. CASE ~InSwitch \/ b \in DOMAIN fn.blk
    BY <1>2, <2>4, StopTyped DEF VisitDefaultStmt
  <2>5. CASE InSwitch /\ b \notin DOMAIN fn.blk
    <3>1. Go(EmitBlock(fn, b), <<EmitStmt(GetBody(n))>>) /\ Keep
      BY <1>2, <2>5 DEF VisitDefaultStmt
    <3>2. b \in Blocks \ {NoBlock}
      BY <2>2, <2>5 DEF InSwitch, FnTyped, BlkTyped, TermTyped
    <3>3. FnTyped(EmitBlock(fn, b))
      BY <2>2, <3>2, EmitTyped
    <3>4. <<EmitStmt(GetBody(n))>> \in Seq(Pieces)
      BY <2>3
    <3> QED
      BY <2>2, <3>1, <3>3, <3>4, KeepTyped
  <2> QED
    BY <2>4, <2>5
<1>3. CASE VisitSwitchStmt
  <2> DEFINE f == AddEvent(Ensured, <<n, "eval">>)
             t == Switch(Block(n, "default"))
             g == ClearInsertionPoint(CreateTerm(f, t))
             continue == IF loops = <<>> THEN NoBlock ELSE Head(loops).continue
  <2>1. /\ Visit("Switch") /\ Go(g, <<EmitStmt(GetBody(n)), RestoreSwitch(n)>>)
        /\ switchInst' = f.at /\ PushBlock(end, continue) /\ result' = Register
    BY <1>3 DEF VisitSwitchStmt
  <2>2. /\ todo # <<>> /\ n \in DOMAIN prog /\ n \in Nat /\ prog[n].kind = "Switch"
        /\ FnTyped(Ensured)
    BY <2>1, VisitTyped
  <2>3. end \in Blocks /\ Block(n, "default") \in Blocks \ {NoBlock}
    BY <2>2, NodeBlocks
  <2>4. FnTyped(f)
    BY <2>2, NodeEvents, AddEventTyped
  <2>5. TermTyped(t)
    BY <2>3, TermsTyped
  <2> HIDE DEF t, f
  <2>6. FnTyped(g)
    BY <2>4, <2>5, CreateTermTyped, ClearTyped
  <2>7. switchInst' \in Blocks /\ result' \in Results
    BY <2>1, <2>4, Values DEF FnTyped, Results
  <2>8. loops' \in Seq(LoopEntries)
    <3>1. continue \in Blocks
      <4>1. loops \in Seq(LoopEntries)
        BY DEF GenTypes
      <4>2. CASE loops # <<>>
        <5>1. Head(loops) \in LoopEntries
          BY <4>1, <4>2
        <5> QED
          BY <4>2, <5>1 DEF LoopEntries
      <4> QED
        BY <4>2, NamedBlocks
    <3> QED
      BY <2>1, <2>3, <3>1, PushTyped
  <2>9. <<EmitStmt(GetBody(n)), RestoreSwitch(n)>> \in Seq(Pieces)
    <3>1. EmitStmt(GetBody(n)) \in Pieces
      BY <2>2, Bodies, NodePieces
    <3>2. RestoreSwitch(n) \in Pieces
      BY <2>2, SwitchPieces DEF GenTypes
    <3> QED
      BY <3>1, <3>2
  <2> HIDE DEF g
  <2> QED
    BY <2>1, <2>2, <2>6, <2>7, <2>8, <2>9, GoTyped
<1>4. CASE SwitchEnd
  <2> DEFINE default == Block(n, "default")
             f == IF default \in DOMAIN fn.blk THEN fn ELSE ReplaceAllUses(fn, default, end)
  <2>1. /\ Running("switch.end") /\ Go(EmitFinished(f, end), <<>>)
        /\ loops' = Tail(loops) /\ switchInst' = Top.t /\ result' = result
    BY <1>4 DEF SwitchEnd
  <2>2. todo # <<>> /\ n \in Nat /\ FnTyped(fn) /\ Top.t \in Blocks
    BY <2>1, RunningTyped
  <2>3. end \in Blocks \ {NoBlock}
    BY <2>2, NodeBlocks
  <2>4. FnTyped(f)
    BY <2>2, <2>3, ReplaceTyped
  <2> HIDE DEF f
  <2>5. FnTyped(EmitFinished(f, end)) /\ <<>> \in Seq(Pieces)
    BY <2>3, <2>4, EmitTyped
  <2>6. loops' \in Seq(LoopEntries) /\ result' \in Results
    BY <2>1, PopTyped DEF GenTypes, Pushed
  <2> QED
    BY <2>1, <2>2, <2>5, <2>6, GoTyped
<1> QED
  BY <1>1, <1>2, <1>3, <1>4

LEMMA BoolTerms ==
  ASSUME GenTypes, NEW t \in Blocks \ {NoBlock}, NEW f \in Blocks \ {NoBlock}
  PROVE  FnTyped(CreateTerm(Use(fn, result), CondBr(result, t, f)))
<1>1. FnTyped(fn) /\ TermTyped(CondBr(result, t, f))
  BY TermsTyped DEF GenTypes, Results
<1> QED
  BY <1>1, UseTyped, CreateTermTyped

LEMMA LoopStartTypes ==
  ASSUME GenTypes, LoopInv, TreeOK, UNCHANGED prog,
         \/ VisitWhileStmt \/ WhileBody \/ VisitDoWhileStmt \/ DoWhileCond
         \/ VisitForStmt \/ ForBody
  PROVE  GenTypes'
<1> DEFINE n == Top.n
           cond == Block(n, "cond")
           body == Block(n, "body")
           end == Block(n, "end")
<1>1. ASSUME n \in Nat
      PROVE  /\ cond \in Blocks \ {NoBlock} /\ body \in Blocks \ {NoBlock}
             /\ end \in Blocks \ {NoBlock} /\ Block(n, "inc") \in Blocks \ {NoBlock}
  BY <1>1, NodeBlocks
<1>2. CASE VisitWhileStmt
  <2> DEFINE a == Accept(GetCond(n))
             b == Resume("while.body", n)
  <2>1. /\ Visit("While") /\ Go(EmitBlock(Ensured, cond), <<a, b>>)
        /\ PushBlock(end, cond) /\ UNCHANGED <<result, switchInst>>
    BY <1>2 DEF VisitWhileStmt
  <2>2. /\ todo # <<>> /\ n \in DOMAIN prog /\ n \in Nat /\ prog[n].kind = "While"
        /\ FnTyped(Ensured)
    BY <2>1, VisitTyped
  <2>3. a \in Pieces /\ b \in Pieces
    BY <2>2, Conditions, NodePieces, KindPieces
  <2>4. FnTyped(EmitBlock(Ensured, cond))
    BY <1>1, <2>2, EmitTyped
  <2>5. loops' \in Seq(LoopEntries)
    BY <1>1, <2>1, <2>2, PushTyped
  <2> HIDE DEF n, cond, a, b
  <2>6. <<a, b>> \in Seq(Pieces)
    BY <2>3
  <2> QED
    BY <2>1, <2>2, <2>4, <2>5, <2>6, GoTyped DEF GenTypes
<1>3. CASE WhileBody
  <2> DEFINE f == IF IsOne THEN fn
                  ELSE CreateTerm(Use(fn, result), CondBr(result, body, end))
             a == EmitStmt(GetBody(n))
             b == Resume(IF IsOne THEN "while.end.one" ELSE "while.end", n)
  <2>1. Running("while.body") /\ Go(EmitBlock(f, body), <<a, b>>) /\ Keep
    BY <1>3 DEF WhileBody
  <2>2. todo # <<>> /\ n \in DOMAIN prog /\ n \in Nat /\ prog[n].kind = "While" /\ FnTyped(fn)
    BY <2>1, RunningTyped DEF PieceTyped
  <2>3. a \in Pieces
    BY <2>2, Bodies, NodePieces
  <2>4. b \in Pieces
    BY <2>2, ResumePieces
  <2>5. FnTyped(f)
    BY <1>1, <2>2, BoolTerms
  <2> HIDE DEF f
  <2>6. FnTyped(EmitBlock(f, body))
    BY <1>1, <2>2, <2>5, EmitTyped
  <2> HIDE DEF n, body, a, b
  <2>7. <<a, b>> \in Seq(Pieces)
    BY <2>3, <2>4
  <2> QED
    BY <2>1, <2>2, <2>6, <2>7, KeepTyped
<1>4. CASE VisitDoWhileStmt
  <2> DEFINE a == EmitStmt(GetBody(n))
             b == Resume("do.cond", n)
  <2>1. /\ Visit("DoWhile") /\ Go(EmitBlock(Ensured, body), <<a, b>>)
        /\ PushBlock(end, cond) /\ UNCHANGED <<result, switchInst>>
    BY <1>4 DEF VisitDoWhileStmt
  <2>2. /\ todo # <<>> /\ n \in DOMAIN prog /\ n \in Nat /\ prog[n].kind = "DoWhile"
        /\ FnTyped(Ensured)
    BY <2>1, VisitTyped
  <2>3. a \in Pieces /\ b \in Pieces
    BY <2>2, Bodies, NodePieces, KindPieces
  <2>4. FnTyped(EmitBlock(Ensured, body))
    BY <1>1, <2>2, EmitTyped
  <2>5. loops' \in Seq(LoopEntries)
    BY <1>1, <2>1, <2>2, PushTyped
  <2> HIDE DEF n, body, a, b
  <2>6. <<a, b>> \in Seq(Pieces)
    BY <2>3
  <2> QED
    BY <2>1, <2>2, <2>4, <2>5, <2>6, GoTyped DEF GenTypes
<1>5. CASE DoWhileCond
  <2> DEFINE a == Accept(GetCond(n))
             b == Resume("do.end", n)
  <2>1. Running("do.cond") /\ Go(EmitBlock(fn, cond), <<a, b>>) /\ PopBlock
    BY <1>5 DEF DoWhileCond
  <2>2. todo # <<>> /\ n \in DOMAIN prog /\ n \in Nat /\ prog[n].kind = "DoWhile" /\ FnTyped(fn)
    BY <2>1, RunningTyped DEF PieceTyped
  <2>3. a \in Pieces /\ b \in Pieces
    BY <2>2, Conditions, NodePieces, ResumePieces
  <2>4. FnTyped(EmitBlock(fn, cond))
    BY <1>1, <2>2, EmitTyped
  <2>5. loops' \in Seq(LoopEntries) /\ UNCHANGED <<result, switchInst>>
    BY <2>1, PopTyped DEF PopBlock, Pushed
  <2> HIDE DEF n, cond, a, b
  <2>6. <<a, b>> \in Seq(Pieces)
    BY <2>3
  <2> QED
    BY <2>1, <2>2, <2>4, <2>5, <2>6, GoTyped DEF GenTypes
<1>6. CASE VisitForStmt
  <2> DEFINE init == IF Has(n, "init") THEN AddEvent(Ensured, <<n, "init">>) ELSE Ensured
             r == Resume("for.body", n)
             a == BranchOn(GetCond(n), body, end)
             b == StartBlock(body)
             next == IF ~Has(n, "cond") THEN <<r>> ELSE <<a, b, r>>
  <2>1. Visit("For") /\ Go(EmitBlock(init, cond), next) /\ Keep
    BY <1>6 DEF VisitForStmt
  <2>2. /\ todo # <<>> /\ n \in DOMAIN prog /\ n \in Nat /\ prog[n].kind = "For"
        /\ FnTyped(Ensured)
    BY <2>1, VisitTyped
  <2>3. r \in Pieces
    BY <2>2, KindPieces
  <2>4. a \in Pieces /\ b \in Pieces
    BY <1>1, <2>2, Conditions, BranchPieces
  <2>5. FnTyped(init)
    BY <2>2, NodeEvents, AddEventTyped
  <2> HIDE DEF init
  <2>6. FnTyped(EmitBlock(init, cond))
    BY <1>1, <2>2, <2>5, EmitTyped
  <2> HIDE DEF n, cond, a, b, r
  <2>7. next \in Seq(Pieces)
    BY <2>3, <2>4
  <2> HIDE DEF next
  <2> QED
    BY <2>1, <2>2, <2>6, <2>7, KeepTyped
<1>7. CASE ForBody
  <2> DEFINE a == EmitStmt(GetBody(n))
             b == Resume("for.end", n)
             continue == Block(n, IF Has(n, "inc") THEN "inc" ELSE "cond")
  <2>1. /\ Running("for.body") /\ Go(fn, <<a, b>>)
        /\ PushBlock(end, continue) /\ UNCHANGED <<result, switchInst>>
    BY <1>7 DEF ForBody
  <2>2. todo # <<>> /\ n \in DOMAIN prog /\ n \in Nat /\ prog[n].kind = "For" /\ FnTyped(fn)
    BY <2>1, RunningTyped DEF PieceTyped
  <2>3. a \in Pieces /\ b \in Pieces
    BY <2>2, Bodies, NodePieces, ResumePieces
  <2>4. end \in Blocks /\ continue \in Blocks
    BY <1>1, <2>2
  <2>5. loops' \in Seq(LoopEntries)
    BY <2>1, <2>4, PushTyped
  <2> HIDE DEF n, a, b
  <2>6. <<a, b>> \in Seq(Pieces)
    BY <2>3
  <2> QED
    BY <2>1, <2>2, <2>5, <2>6, GoTyped DEF GenTypes
<1> QED
  BY <1>2, <1>3, <1>4, <1>5, <1>6, <1>7

\* The loop is left, or its condition was a constant.
LEMMA LeaveTyped ==
  ASSUME GenTypes, LoopInv, NEW op \in Pushed, Running(op), NEW f, FnTyped(f), Go(f, <<>>),
         PopBlock, UNCHANGED prog
  PROVE  GenTypes'
<1>1. loops' \in Seq(LoopEntries) /\ UNCHANGED <<result, switchInst>>
  BY PopTyped DEF PopBlock
<1>2. todo # <<>> /\ <<>> \in Seq(Pieces)
  BY DEF Running
<1> QED
  BY <1>1, <1>2, GoTyped DEF GenTypes

LEMMA LoopEndTypes ==
  ASSUME GenTypes, LoopInv, TreeOK, UNCHANGED prog, WhileEnd \/ DoWhileEnd \/ ForEnd
  PROVE  GenTypes'
<1> DEFINE n == Top.n
           cond == Block(n, "cond")
           body == Block(n, "body")
           end == Block(n, "end")
<1>1. ASSUME n \in Nat
      PROVE  /\ cond \in Blocks \ {NoBlock} /\ body \in Blocks \ {NoBlock}
             /\ end \in Blocks \ {NoBlock} /\ Block(n, "inc") \in Blocks \ {NoBlock}
  BY <1>1, NodeBlocks
<1>2. CASE WhileEnd
  <2> DEFINE f == EmitFinished(EmitBranch(fn, cond), end)
  <2>1. PICK op \in {"while.end", "while.end.one"} : Running(op)
    BY <1>2 DEF WhileEnd
  <2>2. todo # <<>> /\ n \in Nat /\ FnTyped(fn) /\ Top.op = op /\ op \in Pushed
    BY <2>1, RunningTyped DEF Pushed
  <2>3. FnTyped(EmitBranch(fn, cond))
    BY <1>1, <2>2, EmitTyped
  <2>4. FnTyped(f)
    BY <1>1, <2>2, <2>3, EmitTyped
  <2>5. CASE Top.op = "while.end"
    <3>1. Go(f, <<>>) /\ PopBlock
      BY <1>2, <2>5 DEF WhileEnd
    <3> HIDE DEF f
    <3> QED
      BY <2>1, <2>2, <2>4, <3>1, LeaveTyped
  <2>6. CASE Top.op # "while.end" /\ ~Simplifies(f, cond)
    <3>1. Stop("crash")
      BY <1>2, <2>6 DEF WhileEnd
    <3> QED
      BY <3>1, StopTyped
  <2>7. CASE Top.op # "while.end" /\ Simplifies(f, cond)
    <3>1. Go(SimplifyForwardingBlocks(f, cond), <<>>) /\ PopBlock
      BY <1>2, <2>7 DEF WhileEnd
    <3> HIDE DEF f
    <3>2. FnTyped(SimplifyForwardingBlocks(f, cond))
      BY <2>4, <2>7, SimplifyTyped DEF Simplifies
    <3> QED
      BY <2>1, <2>2, <3>1, <3>2, LeaveTyped
  <2> QED
    BY <2>5, <2>6, <2>7
<1>3. CASE DoWhileEnd
  <2> DEFINE g == IF IsZero THEN fn
                  ELSE CreateTerm(Use(fn, result), CondBr(result, body, end))
             f == EmitBlock(g, end)
  <2>1. Running("do.end")
    BY <1>3 DEF DoWhileEnd
  <2>2. todo # <<>> /\ n \in Nat /\ FnTyped(fn) /\ <<>> \in Seq(Pieces)
    BY <2>1, RunningTyped
  <2>3. FnTyped(g)
    BY <1>1, <2>2, BoolTerms
  <2> HIDE DEF g
  <2>4. FnTyped(f)
    BY <1>1, <2>2, <2>3, EmitTyped
  <2>5. CASE ~IsZero
    <3>1. Go(f, <<>>) /\ Keep
      BY <1>3, <2>5 DEF DoWhileEnd, g
    <3> HIDE DEF f
    <3> QED
      BY <2>2, <2>4, <3>1, KeepTyped
  <2>6. CASE IsZero /\ ~Simplifies(f, cond)
    <3>1. Stop("crash")
      BY <1>3, <2>6 DEF DoWhileEnd, g
    <3> QED
      BY <3>1, StopTyped
  <2>7. CASE IsZero /\ Simplifies(f, cond)
    <3>1. Go(SimplifyForwardingBlocks(f, cond), <<>>) /\ Keep
      BY <1>3, <2>7 DEF DoWhileEnd, g
    <3> HIDE DEF f
    <3>2. FnTyped(SimplifyForwardingBlocks(f, cond))
      BY <2>4, <2>7, SimplifyTyped DEF Simplifies
    <3> QED
      BY <2>2, <3>1, <3>2, KeepTyped
  <2> QED
    BY <2>5, <2>6, <2>7
<1>4. CASE ForEnd
  <2> DEFINE inc == Block(n, "inc")
             f == IF Has(n, "inc") THEN AddEvent(EmitBlock(fn, inc), <<n, "inc">>) ELSE fn
             g == EmitBranch(f, cond)
  <2>1. Running("for.end") /\ Go(EmitFinished(g, end), <<>>) /\ PopBlock
    BY <1>4 DEF ForEnd
  <2>2. n \in Nat /\ FnTyped(fn)
    BY <2>1, RunningTyped
  <2>3. FnTyped(EmitBlock(fn, inc))
    BY <1>1, <2>2, EmitTyped
  <2>4. FnTyped(f)
    BY <2>2, <2>3, NodeEvents, AddEventTyped
  <2> HIDE DEF f
  <2>5. FnTyped(g)
    BY <1>1, <2>2, <2>4, EmitTyped
  <2> HIDE DEF g
  <2>6. FnTyped(EmitFinished(g, end))
    BY <1>1, <2>2, <2>5, EmitTyped
  <2> QED
    BY <2>1, <2>6, LeaveTyped DEF Pushed
<1> QED
  BY <1>2, <1>3, <1>4

LEMMA BranchToTyped ==
  ASSUME GenTypes, todo # <<>>, UNCHANGED prog, NEW b \in Blocks, BranchTo(b)
  PROVE  GenTypes'
<1>1. FnTyped(fn) /\ <<>> \in Seq(Pieces)
  BY DEF GenTypes
<1>2. CASE b = NoBlock /\ HaveInsertPoint(fn)
  BY <1>2, StopTyped DEF BranchTo
<1>3. CASE ~(b = NoBlock /\ HaveInsertPoint(fn))
  <2>1. Go(EmitBranchThroughCleanup(fn, b), <<>>) /\ Keep
    BY <1>3 DEF BranchTo
  <2>2. FnTyped(EmitBranchThroughCleanup(fn, b))
    <3>1. CASE b = NoBlock
      BY <1>1, <1>3, <3>1 DEF EmitBranchThroughCleanup
    <3>2. CASE b # NoBlock
      BY <1>1, <3>2, EmitTyped
    <3> QED
      BY <3>1, <3>2
  <2> QED
    BY <1>1, <2>1, <2>2, KeepTyped
<1> QED
  BY <1>2, <1>3

LEMMA JumpTypes ==
  ASSUME GenTypes, TreeOK, UNCHANGED prog,
         VisitContinueStmt \/ VisitBreakStmt \/ VisitReturnStmt
  PROVE  GenTypes'
<1>1. ASSUME loops # <<>> PROVE Head(loops).break \in Blocks /\ Head(loops).continue \in Blocks
  <2>1. Head(loops) \in LoopEntries
    BY <1>1 DEF GenTypes
  <2> QED
    BY <2>1 DEF LoopEntries
<1>2. CASE VisitContinueStmt
  <2>1. Visit("Continue")
    BY <1>2 DEF VisitContinueStmt
  <2>2. todo # <<>>
    BY <2>1, VisitTyped
  <2>3. CASE loops = <<>>
    BY <1>2, <2>3, StopTyped DEF VisitContinueStmt
  <2>4. CASE loops # <<>>
    BY <1>1, <1>2, <2>2, <2>4, BranchToTyped DEF VisitContinueStmt
  <2> QED
    BY <2>3, <2>4
<1>3. CASE VisitBreakStmt
  <2>1. Visit("Break")
    BY <1>3 DEF VisitBreakStmt
  <2>2. todo # <<>>
    BY <2>1, VisitTyped
  <2>3. CASE loops = <<>>
    BY <1>3, <2>3, StopTyped DEF VisitBreakStmt
  <2>4. CASE loops # <<>>
    BY <1>1, <1>3, <2>2, <2>4, BranchToTyped DEF VisitBreakStmt
  <2> QED
    BY <2>3, <2>4
<1>4. CASE VisitReturnStmt
  <2> DEFINE g == AddEvent(Ensured, <<Top.n, "eval">>)
  <2>1. Visit("Return")
    BY <1>4 DEF VisitReturnStmt
  <2>2. todo # <<>> /\ Top.n \in Nat /\ FnTyped(Ensured) /\ <<>> \in Seq(Pieces)
    BY <2>1, VisitTyped
  <2>3. CASE ~Has(Top.n, "value")
    <3>1. Go(EmitBranchThroughCleanup(Ensured, ReturnBlock), <<>>) /\ Keep
      BY <1>4, <2>3 DEF VisitReturnStmt
    <3>2. FnTyped(EmitBranchThroughCleanup(Ensured, ReturnBlock))
      BY <2>2, NamedBlocks, EmitTyped
    <3> QED
      BY <2>2, <3>1, <3>2, KeepTyped
  <2>4. CASE Has(Top.n, "value") /\ ReturnsValue
    <3>1. Evaluate(EmitBranchThroughCleanup(g, ReturnBlock), <<>>)
      BY <1>4, <2>4 DEF VisitReturnStmt
    <3>2. FnTyped(g)
      BY <2>2, NodeEvents, AddEventTyped
    <3> HIDE DEF g
    <3>3. FnTyped(EmitBranchThroughCleanup(g, ReturnBlock))
      BY <3>2, NamedBlocks, EmitTyped
    <3> QED
      BY <2>2, <3>1, <3>3, EvaluateTyped
  <2>5. CASE Has(Top.n, "value") /\ ~ReturnsValue
    <3>1. Stop("error")
      BY <1>4, <2>5 DEF VisitReturnStmt
    <3> QED
      BY <3>1, StopTyped
  <2> QED
    BY <2>3, <2>4, <2>5
<1> QED
  BY <1>2, <1>3, <1>4

\* A handler that has a value and calls nothing more.
LEMMA ValueTyped ==
  ASSUME GenTypes, todo # <<>>, UNCHANGED prog, NEW f, FnTyped(f), Go(f, <<>>),
         result' \in Results, UNCHANGED <<loops, switchInst>>
  PROVE  GenTypes'
<1>1. <<>> \in Seq(Pieces)
  OBVIOUS
<1> QED
  BY <1>1, GoTyped DEF GenTypes

LEMMA ValueTypes ==
  ASSUME GenTypes, TreeOK, UNCHANGED prog,
         \/ VisitConstantExpr \/ VisitFuncCallExpr \/ VisitCommaExpr
         \/ VisitUnaryOpExpr \/ LogicNotOp \/ SelectArm
  PROVE  GenTypes'
<1> DEFINE n == Top.n
<1>1. result \in Results /\ \A c : Constant(c) \in Results
  BY Values DEF GenTypes, Results
<1>2. ASSUME NEW of \in Truths PROVE [result EXCEPT !.of = of] \in Results
  BY <1>1 DEF Results
<1>3. CASE VisitConstantExpr
  <2>1. Expression("Const") /\ Value(Constant(prog[n].num))
    BY <1>3 DEF VisitConstantExpr
  <2> QED
    BY <1>1, <2>1, ExpressionTyped, ValueTyped DEF Value
<1>4. CASE VisitFuncCallExpr
  <2>1. Expression("Dyn") /\ Evaluate(AddEvent(fn, <<n, "eval">>), <<>>)
    BY <1>4 DEF VisitFuncCallExpr
  <2>2. todo # <<>> /\ n \in Nat /\ FnTyped(fn) /\ <<>> \in Seq(Pieces)
    BY <2>1, ExpressionTyped
  <2>3. FnTyped(AddEvent(fn, <<n, "eval">>))
    BY <2>2, NodeEvents, AddEventTyped
  <2> QED
    BY <2>1, <2>2, <2>3, EvaluateTyped
<1>5. CASE VisitCommaExpr
  <2>1. /\ Expression("Comma") /\ Go(AddEvent(fn, <<n, "eval">>), <<>>)
        /\ result' = Constant(prog[n].num) /\ UNCHANGED <<loops, switchInst>>
    BY <1>5 DEF VisitCommaExpr
  <2>2. todo # <<>> /\ n \in Nat /\ FnTyped(fn)
    BY <2>1, ExpressionTyped
  <2>3. FnTyped(AddEvent(fn, <<n, "eval">>))
    BY <2>2, NodeEvents, AddEventTyped
  <2> QED
    BY <1>1, <2>1, <2>2, <2>3, ValueTyped
<1>6. CASE VisitUnaryOpExpr
  <2> DEFINE a == Accept(Kids(n)[1])
             b == Resume("not", n)
  <2>1. Expression("Not") /\ Go(fn, <<a, b>>) /\ Keep
    BY <1>6 DEF VisitUnaryOpExpr, Then
  <2>2. todo # <<>> /\ n \in DOMAIN prog /\ n \in Nat /\ prog[n].kind = "Not" /\ FnTyped(fn)
    BY <2>1, ExpressionTyped
  <2>3. Kids(n)[1] \in DOMAIN prog
    <3>1. Kids(n) = prog[n].kids /\ Kids(n) \in Seq(DOMAIN prog)
      BY <2>2, KidsTyped
    <3>2. Len(Kids(n)) >= 1
      BY <2>2, <3>1 DEF TreeOK
    <3> QED
      BY <3>1, <3>2
  <2>4. a \in Pieces /\ b \in Pieces
    BY <2>2, <2>3, NodePieces, ResumePieces
  <2> HIDE DEF n, a, b
  <2>5. <<a, b>> \in Seq(Pieces)
    BY <2>4
  <2> QED
    BY <2>1, <2>2, <2>5, KeepTyped
<1>7. CASE LogicNotOp
  <2> DEFINE of == [r \in 0..1 |-> 1 - result.of[r]]
  <2>1. /\ Running("not") /\ Go(Use(fn, result), <<>>)
        /\ result' = [result EXCEPT !.of = of] /\ UNCHANGED <<loops, switchInst>>
    BY <1>7 DEF LogicNotOp
  <2>2. of \in Truths
    BY <1>1 DEF Results, Truths
  <2> HIDE DEF of
  <2> QED
    BY <1>2, <2>1, <2>2, RunningTyped, UseTyped, ValueTyped
<1>8. CASE SelectArm
  <2> DEFINE Arm(i) == Constant(prog[Kids(n)[i]].num).of[0]
             of == [r \in 0..1 |-> IF result.of[r] = 1 THEN Arm(2) ELSE Arm(3)]
  <2>1. /\ Running("select") /\ Go(Use(fn, result), <<>>)
        /\ result' = [result EXCEPT !.of = of] /\ UNCHANGED <<loops, switchInst>>
    BY <1>8 DEF SelectArm
  <2>2. of \in Truths
    <3>1. \A i : Arm(i) \in 0..1
      BY DEF Constant
    <3> HIDE DEF Arm
    <3> QED
      BY <3>1 DEF Truths
  <2> HIDE DEF of
  <2> QED
    BY <1>2, <2>1, <2>2, RunningTyped, UseTyped, ValueTyped
<1> QED
  BY <1>3, <1>4, <1>5, <1>6, <1>7, <1>8

LEMMA EndArmTyped ==
  ASSUME GenTypes, NEW n \in Nat PROVE FnTyped(EndArm(fn, n))
<1>1. FnTyped(fn) /\ fn.at \in Blocks /\ result \in [isConst : BOOLEAN, of : Truths]
  BY DEF GenTypes, FnTyped, Results
<1>2. Block(n, "end") \in Blocks \ {NoBlock}
  BY NodeBlocks
<1>3. FnTyped(AddIncoming(fn, Block(n, "end"), fn.at, result))
  BY <1>1, <1>2, AddIncomingTyped
<1> QED
  BY <1>2, <1>3, EmitTyped DEF EndArm

LEMMA ConditionTypes ==
  ASSUME GenTypes, TreeOK, UNCHANGED prog, VisitConditionOpExpr \/ CondLhsEnd \/ CondRhsEnd
  PROVE  GenTypes'
<1> DEFINE n == Top.n
<1>1. CASE VisitConditionOpExpr
  <2> DEFINE cond == Kids(n)[1]
             lhs == Kids(n)[2]
             rhs == Kids(n)[3]
             then == Block(n, "lhs")
             else == Block(n, "rhs")
  <2>1. Expression("Cond")
    BY <1>1 DEF VisitConditionOpExpr
  <2>2. todo # <<>> /\ n \in DOMAIN prog /\ n \in Nat /\ prog[n].kind = "Cond" /\ FnTyped(fn)
    BY <2>1, ExpressionTyped
  <2>3. cond \in DOMAIN prog /\ lhs \in DOMAIN prog /\ rhs \in DOMAIN prog
    <3>1. Kids(n) = prog[n].kids /\ Kids(n) \in Seq(DOMAIN prog)
      BY <2>2, KidsTyped
    <3>2. Len(Kids(n)) >= 3
      BY <2>2, <3>1 DEF TreeOK
    <3> QED
      BY <3>1, <3>2
  <2>4. then \in Blocks \ {NoBlock} /\ else \in Blocks \ {NoBlock}
    BY <2>2, NodeBlocks
  <2>5. CASE Calc(cond) # NotConst
    <3> DEFINE a == Accept(IF Calc(cond) = 0 THEN rhs ELSE lhs)
    <3>1. Go(fn, <<a>>) /\ Keep
      BY <1>1, <2>5 DEF VisitConditionOpExpr, Then
    <3>2. a \in Pieces
      BY <2>3, NodePieces
    <3> HIDE DEF a
    <3>3. <<a>> \in Seq(Pieces)
      BY <3>2
    <3> QED
      BY <2>2, <3>1, <3>3, KeepTyped
  <2>6. CASE Calc(cond) = NotConst /\ Kind(lhs) = "Const" /\ Kind(rhs) = "Const"
    <3> DEFINE a == Accept(cond)
               b == Resume("select", n)
    <3>1. Go(fn, <<a, b>>) /\ Keep
      BY <1>1, <2>6 DEF VisitConditionOpExpr, Then
    <3>2. a \in Pieces /\ b \in Pieces
      BY <2>2, <2>3, NodePieces, ResumePieces
    <3> HIDE DEF a, b
    <3>3. <<a, b>> \in Seq(Pieces)
      BY <3>2
    <3> QED
      BY <2>2, <3>1, <3>3, KeepTyped
  <2>7. CASE Calc(cond) = NotConst /\ ~(Kind(lhs) = "Const" /\ Kind(rhs) = "Const")
    <3> DEFINE a == BranchOn(cond, then, else)
               b == StartBlock(then)
               c == Accept(lhs)
               d == Resume("cond.lhs", n)
               e == StartBlock(else)
               f == Accept(rhs)
               g == Resume("cond.rhs", n)
    <3>1. Go(fn, <<a, b, c, d, e, f, g>>) /\ Keep
      BY <1>1, <2>7 DEF VisitConditionOpExpr, Then
    <3>2. a \in Pieces /\ b \in Pieces /\ e \in Pieces
      BY <2>3, <2>4, BranchPieces
    <3>3. c \in Pieces /\ d \in Pieces /\ f \in Pieces /\ g \in Pieces
      BY <2>2, <2>3, NodePieces, ResumePieces
    <3> HIDE DEF a, b, c, d, e, f, g
    <3>4. <<a, b, c, d, e, f, g>> \in Seq(Pieces)
      BY <3>2, <3>3
    <3> QED
      BY <2>2, <3>1, <3>4, KeepTyped
  <2> QED
    BY <2>5, <2>6, <2>7
<1>2. CASE CondLhsEnd
  <2>1. Running("cond.lhs") /\ Go(EndArm(fn, n), <<>>) /\ Keep
    BY <1>2 DEF CondLhsEnd
  <2>2. todo # <<>> /\ n \in Nat /\ <<>> \in Seq(Pieces)
    BY <2>1, RunningTyped
  <2> QED
    BY <2>1, <2>2, EndArmTyped, KeepTyped
<1>3. CASE CondRhsEnd
  <2>1. Running("cond.rhs") /\ Evaluate(EmitBlock(EndArm(fn, n), Block(n, "end")), <<>>)
    BY <1>3 DEF CondRhsEnd
  <2>2. todo # <<>> /\ n \in Nat /\ <<>> \in Seq(Pieces)
    BY <2>1, RunningTyped
  <2>3. FnTyped(EndArm(fn, n)) /\ Block(n, "end") \in Blocks \ {NoBlock}
    BY <2>2, EndArmTyped, NodeBlocks
  <2>4. FnTyped(EmitBlock(EndArm(fn, n), Block(n, "end")))
    BY <2>3, EmitTyped
  <2> QED
    BY <2>1, <2>2, <2>4, EvaluateTyped
<1> QED
  BY <1>1, <1>2, <1>3

LEMMA Operands ==
  ASSUME TreeOK, NEW n \in DOMAIN prog
  PROVE  /\ prog[n].kind \in {"And", "Or"} => Kids(n)[1] \in DOMAIN prog /\ Kids(n)[2] \in DOMAIN prog
         /\ prog[n].kind = "Not" => Kids(n)[1] \in DOMAIN prog
         /\ prog[n].kind = "Cond" => /\ Kids(n)[1] \in DOMAIN prog /\ Kids(n)[2] \in DOMAIN prog
                                     /\ Kids(n)[3] \in DOMAIN prog
<1>1. Kids(n) = prog[n].kids /\ Kids(n) \in Seq(DOMAIN prog)
  BY KidsTyped
<1>2. /\ prog[n].kind \in {"And", "Or"} => Len(Kids(n)) >= 2
      /\ prog[n].kind = "Not" => Len(Kids(n)) >= 1
      /\ prog[n].kind = "Cond" => Len(Kids(n)) >= 3
  BY <1>1 DEF TreeOK
<1> QED
  BY <1>1, <1>2

LEMMA LogicTypes ==
  ASSUME GenTypes, TreeOK, UNCHANGED prog, VisitLogicOp \/ LogicRhs \/ LogicEnd
  PROVE  GenTypes'
<1> DEFINE n == Top.n
           rhs == Block(n, "rhs")
           end == Block(n, "end")
<1>1. CASE VisitLogicOp
  <2> DEFINE a == IF Kind(n) = "And" THEN BranchOn(Kids(n)[1], rhs, end)
                  ELSE BranchOn(Kids(n)[1], end, rhs)
             b == Resume("logic.rhs", n)
             c == Accept(Kids(n)[2])
  <2>1. Expression("And") \/ Expression("Or")
    BY <1>1 DEF VisitLogicOp
  <2>2. /\ todo # <<>> /\ n \in DOMAIN prog /\ n \in Nat /\ prog[n].kind \in {"And", "Or"}
        /\ FnTyped(fn)
    BY <2>1, ExpressionTyped
  <2>3. rhs \in Blocks \ {NoBlock} /\ end \in Blocks \ {NoBlock}
    BY <2>2, NodeBlocks
  <2>4. Kids(n)[1] \in DOMAIN prog /\ Kids(n)[2] \in DOMAIN prog
    BY <2>2, Operands
  <2>5. a \in Pieces /\ b \in Pieces /\ c \in Pieces
    BY <2>2, <2>3, <2>4, BranchPieces, KindPieces, NodePieces
  <2>6. CASE Calc(Kids(n)[1]) = NotConst
    <3>1. Go(fn, <<a, b>>) /\ Keep
      BY <1>1, <2>6 DEF VisitLogicOp, Then
    <3> HIDE DEF a, b
    <3>2. <<a, b>> \in Seq(Pieces)
      BY <2>5
    <3> QED
      BY <2>2, <3>1, <3>2, KeepTyped
  <2>7. CASE Calc(Kids(n)[1]) # NotConst /\ Decides(n)
    <3>1. Value(ShortValue(n))
      BY <1>1, <2>7 DEF VisitLogicOp
    <3>2. ShortValue(n) \in Results
      BY Values DEF ShortValue, Results
    <3> QED
      BY <2>2, <3>1, <3>2, ValueTyped DEF Value
  <2>8. CASE Calc(Kids(n)[1]) # NotConst /\ ~Decides(n)
    <3>1. Go(fn, <<c>>) /\ Keep
      BY <1>1, <2>8 DEF VisitLogicOp, Then
    <3> HIDE DEF c
    <3>2. <<c>> \in Seq(Pieces)
      BY <2>5
    <3> QED
      BY <2>2, <3>1, <3>2, KeepTyped
  <2> QED
    BY <2>6, <2>7, <2>8
<1>2. CASE LogicRhs
  <2> DEFINE phi == fn.phi \cup {[at |-> end, from |-> p, of |-> ShortValue(n).of] :
                                   p \in Predecessors(fn, end)}
             short == [fn EXCEPT !.phi = phi]
             a == Accept(Kids(n)[2])
             b == Resume("logic.end", n)
  <2>1. Running("logic.rhs") /\ Go(EmitBlock(short, rhs), <<a, b>>) /\ Keep
    BY <1>2 DEF LogicRhs
  <2>2. /\ todo # <<>> /\ n \in DOMAIN prog /\ n \in Nat /\ prog[n].kind \in {"And", "Or"}
        /\ FnTyped(fn)
    BY <2>1, RunningTyped DEF PieceTyped
  <2>3. rhs \in Blocks \ {NoBlock} /\ end \in Blocks \ {NoBlock}
    BY <2>2, NodeBlocks
  <2>4. phi \subseteq [at : Blocks, from : Blocks, of : Truths]
    <3>1. Predecessors(fn, end) \subseteq Blocks
      BY <2>2, NamedBlocks DEF Predecessors, FnTyped
    <3>2. ShortValue(n).of \in Truths
      BY Values DEF ShortValue
    <3>3. fn.phi \subseteq [at : Blocks, from : Blocks, of : Truths]
      BY <2>2 DEF FnTyped
    <3> QED
      BY <2>3, <3>1, <3>2, <3>3
  <2> HIDE DEF phi
  <2>5. FnTyped(short)
    BY <2>2, <2>4, PhiTyped
  <2> HIDE DEF short
  <2>6. FnTyped(EmitBlock(short, rhs))
    BY <2>3, <2>5, EmitTyped
  <2>7. a \in Pieces /\ b \in Pieces
    BY <2>2, Operands, NodePieces, ResumePieces
  <2> HIDE DEF a, b
  <2>8. <<a, b>> \in Seq(Pieces)
    BY <2>7
  <2> QED
    BY <2>1, <2>2, <2>6, <2>8, KeepTyped
<1>3. CASE LogicEnd
  <2> DEFINE f == EmitBlock(fn, end)
  <2>1. Running("logic.end") /\ Evaluate(AddIncoming(f, end, fn.at, result), <<>>)
    BY <1>3 DEF LogicEnd
  <2>2. todo # <<>> /\ n \in Nat /\ FnTyped(fn) /\ <<>> \in Seq(Pieces)
    BY <2>1, RunningTyped
  <2>3. end \in Blocks \ {NoBlock}
    BY <2>2, NodeBlocks
  <2>4. fn.at \in Blocks /\ result \in [isConst : BOOLEAN, of : Truths]
    BY DEF GenTypes, FnTyped, Results
  <2>5. FnTyped(f)
    BY <2>2, <2>3, EmitTyped
  <2> HIDE DEF f
  <2>6. FnTyped(AddIncoming(f, end, fn.at, result))
    BY <2>3, <2>4, <2>5, AddIncomingTyped
  <2> QED
    BY <2>1, <2>2, <2>6, EvaluateTyped
<1> QED
  BY <1>1, <1>2, <1>3

LEMMA BranchTypes ==
  ASSUME GenTypes, TreeOK, UNCHANGED prog,
         EmitBranchOnBoolExpr \/ BranchOnValue \/ EmitNextBlock
  PROVE  GenTypes'
<1> DEFINE n == Top.n
           t == Top.t
           f == Top.f
<1>1. CASE EmitBranchOnBoolExpr
  <2> DEFINE k == Kids(n)
             lhs == Block(n, "lhs")
             rhs == Block(n, "rhs")
             l == StartBlock(lhs)
             r == StartBlock(rhs)
             two == BranchOn(k[2], t, f)
  <2>1. Running("branch")
    BY <1>1 DEF EmitBranchOnBoolExpr
  <2>2. /\ todo # <<>> /\ n \in DOMAIN prog /\ n \in Nat /\ FnTyped(fn)
        /\ t \in Blocks \ {NoBlock} /\ f \in Blocks \ {NoBlock}
    BY <2>1, RunningTyped DEF PieceTyped
  <2>3. lhs \in Blocks \ {NoBlock} /\ rhs \in Blocks \ {NoBlock} /\ l \in Pieces /\ r \in Pieces
    BY <2>2, NodeBlocks, BranchPieces
  <2>4. CASE Kind(n) = "And"
    <3> DEFINE one == BranchOn(k[1], lhs, f)
    <3>1. Go(fn, <<one, l, two>>) /\ Keep
      BY <1>1, <2>4 DEF EmitBranchOnBoolExpr, Then
    <3>2. one \in Pieces /\ two \in Pieces
      BY <2>2, <2>3, <2>4, Operands, BranchPieces DEF Kind
    <3> HIDE DEF one, l, two
    <3>3. <<one, l, two>> \in Seq(Pieces)
      BY <2>3, <3>2
    <3> QED
      BY <2>2, <3>1, <3>3, KeepTyped
  <2>5. CASE Kind(n) = "Or"
    <3> DEFINE one == BranchOn(k[1], t, lhs)
    <3>1. Go(fn, <<one, l, two>>) /\ Keep
      BY <1>1, <2>5 DEF EmitBranchOnBoolExpr, Then
    <3>2. one \in Pieces /\ two \in Pieces
      BY <2>2, <2>3, <2>5, Operands, BranchPieces DEF Kind
    <3> HIDE DEF one, l, two
    <3>3. <<one, l, two>> \in Seq(Pieces)
      BY <2>3, <3>2
    <3> QED
      BY <2>2, <3>1, <3>3, KeepTyped
  <2>6. CASE Kind(n) = "Not"
    <3> DEFINE one == BranchOn(k[1], f, t)
    <3>1. Go(fn, <<one>>) /\ Keep
      BY <1>1, <2>6 DEF EmitBranchOnBoolExpr, Then
    <3>2. one \in Pieces
      BY <2>2, <2>6, Operands, BranchPieces DEF Kind
    <3> HIDE DEF one
    <3>3. <<one>> \in Seq(Pieces)
      BY <3>2
    <3> QED
      BY <2>2, <3>1, <3>3, KeepTyped
  <2>7. CASE Kind(n) = "Cond"
    <3> DEFINE one == BranchOn(k[1], lhs, rhs)
               three == BranchOn(k[3], t, f)
    <3>1. Go(fn, <<one, l, two, r, three>>) /\ Keep
      BY <1>1, <2>7 DEF EmitBranchOnBoolExpr, Then
    <3>2. one \in Pieces /\ two \in Pieces /\ three \in Pieces
      BY <2>2, <2>3, <2>7, Operands, BranchPieces DEF Kind
    <3> HIDE DEF one, two, three, l, r
    <3>3. <<one, l, two, r, three>> \in Seq(Pieces)
      BY <2>3, <3>2
    <3> QED
      BY <2>2, <3>1, <3>3, KeepTyped
  <2>8. CASE Kind(n) \notin {"And", "Or", "Not", "Cond"}
    <3> DEFINE a == Accept(n)
               b == CreateCondBr(t, f)
    <3>1. Go(fn, <<a, b>>) /\ Keep
      BY <1>1, <2>8 DEF EmitBranchOnBoolExpr, Then
    <3>2. a \in Pieces /\ b \in Pieces
      BY <2>2, NodePieces, BranchPieces
    <3> HIDE DEF a, b
    <3>3. <<a, b>> \in Seq(Pieces)
      BY <3>2
    <3> QED
      BY <2>2, <3>1, <3>3, KeepTyped
  <2> QED
    BY <2>4, <2>5, <2>6, <2>7, <2>8
<1>2. CASE BranchOnValue
  <2>1. /\ Running("condbr") /\ Keep
        /\ Go(CreateTerm(Use(fn, result), CondBr(result, t, f)), <<>>)
    BY <1>2 DEF BranchOnValue
  <2>2. /\ todo # <<>> /\ t \in Blocks \ {NoBlock} /\ f \in Blocks \ {NoBlock}
        /\ <<>> \in Seq(Pieces)
    BY <2>1, RunningTyped DEF PieceTyped
  <2> QED
    BY <2>1, <2>2, BoolTerms, KeepTyped
<1>3. CASE EmitNextBlock
  <2>1. Running("block") /\ Go(EmitBlock(fn, t), <<>>) /\ Keep
    BY <1>3 DEF EmitNextBlock
  <2>2. todo # <<>> /\ t \in Blocks \ {NoBlock} /\ FnTyped(fn) /\ <<>> \in Seq(Pieces)
    BY <2>1, RunningTyped DEF PieceTyped
  <2> QED
    BY <2>1, <2>2, EmitTyped, KeepTyped
<1> QED
  BY <1>1, <1>2, <1>3

LEMMA StartTypes ==
  ASSUME GenTypes, TreeOK, UNCHANGED prog, StartFunction PROVE GenTypes'
<1> DEFINE a == EmitStmt(1)
           b == Resume("finish", 1)
<1>1. /\ fn' = StartedFunction /\ todo' = <<a, b>> /\ status' = "emit"
      /\ result' = Constant(1) /\ UNCHANGED <<loops, switchInst>>
  BY DEF StartFunction
<1>2. a \in Pieces /\ b \in Pieces
  BY NodePieces, ResumePieces DEF TreeOK
<1> HIDE DEF a, b
<1>3. todo' \in Seq(Pieces)
  BY <1>1, <1>2
<1>4. Pieces' = Pieces
  BY DEF Pieces, PieceTyped
<1>5. result' \in Results /\ FnTyped(fn')
  BY <1>1, Values, StartedTyped DEF Results
<1> QED
  BY <1>1, <1>3, <1>4, <1>5 DEF GenTypes

LEMMA FinishTypes ==
  ASSUME GenTypes, UNCHANGED prog, FinishFunction PROVE GenTypes'
<1> DEFINE g == EmitReturnBlock(fn)
           f == EmitFunctionEpilog(g)
<1>1. FnTyped(fn)
  BY DEF GenTypes
<1>2. FnTyped(g)
  <2>1. HaveInsertPoint(fn) => fn.at \in Blocks \ {NoBlock}
    BY <1>1 DEF FnTyped, HaveInsertPoint
  <2> QED
    BY <1>1, <2>1, NamedBlocks, ReplaceTyped, EmitTyped DEF EmitReturnBlock
<1> HIDE DEF g
<1>3. FnTyped(f)
  BY <1>2, TermsTyped, CreateTermTyped DEF EmitFunctionEpilog
<1>4. CASE HaveInsertPoint(fn) /\ Terminated(fn, fn.at)
  BY <1>4, StopTyped DEF FinishFunction
<1>5. CASE ~(HaveInsertPoint(fn) /\ Terminated(fn, fn.at))
  <2>1. /\ fn' = f /\ todo' = <<>> /\ status' \in {"done", "broken"} /\ Keep
    BY <1>5 DEF FinishFunction, g
  <2> HIDE DEF f
  <2>2. todo' \in Seq(Pieces')
    BY <2>1
  <2> QED
    BY <1>3, <2>1, <2>2 DEF GenTypes, Keep
<1> QED
  BY <1>4, <1>5

LEMMA GenStepTypes ==
  GenTypes /\ LoopInv /\ TreeOK /\ GenStep /\ UNCHANGED prog => GenTypes'
BY StartTypes, SimpleTypes, StmtListTypes, IfTypes, SwitchTypes, LoopStartTypes, LoopEndTypes,
   JumpTypes, ValueTypes, ConditionTypes, LogicTypes, BranchTypes, FinishTypes DEF GenStep
=============================================================================
