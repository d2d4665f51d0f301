---------------------------- MODULE DriverProofs ----------------------------
(***************************************************************************)
(* The theorems about the processes of kcc: for any number of invocations, *)
(* sources and files, any command lines and any failures.                  *)
(***************************************************************************)
EXTENDS Driver, SequenceTheorems, TLAPS

\* DriverTypeOK is not inductive: CommandLineCheck replaces the job, which only
\* fits the children because there are none yet.
NoEarlyChildren == \A p \in Procs : pc[p] = "check" => DOMAIN child[p] = {}

TypeInv == DriverTypeOK /\ NoEarlyChildren

LEMMA InitTypeInv == Init => TypeInv
<1> SUFFICES ASSUME Init PROVE TypeInv
  OBVIOUS
<1>0. DOMAIN <<>> = {}
  OBVIOUS
<1>1. \A p \in Procs : DOMAIN child[p] = {}
  BY <1>0 DEF Init
<1>2. DOMAIN cmd = Procs
  BY DEF Init
<1> QED
  BY <1>1, <1>2 DEF Init, TypeInv, DriverTypeOK, NoEarlyChildren

\* A file that is unlinked or replaced is not open any more under its name.
ChildrenFit(F, G) ==
  /\ DOMAIN child' = Procs
  /\ \A p \in Procs : DOMAIN child'[p] = DOMAIN child[p]
  /\ \A p \in Procs : \A s \in DOMAIN child[p] :
       /\ child'[p][s] \in [st : ChildState, file : G \cup {NoPath}]
       /\ child'[p][s].st = child[p][s].st
       /\ child[p][s].st # "write" => child'[p][s].file = NoPath
       /\ child[p][s].file \notin F => child'[p][s] = child[p][s]

LEMMA DetachedType ==
  ASSUME TypeInv, NEW F, NEW G, DOMAIN fs \ F \subseteq G, child' = Detached(F)
  PROVE  ChildrenFit(F, G)
<1>1. DOMAIN child' = Procs
  BY DEF Detached
<1>2. ASSUME NEW p \in Procs PROVE DOMAIN child'[p] = DOMAIN child[p]
  BY DEF Detached
<1>3. ASSUME NEW p \in Procs, NEW s \in DOMAIN child[p]
      PROVE  /\ child'[p][s] \in [st : ChildState, file : G \cup {NoPath}]
             /\ child'[p][s].st = child[p][s].st
             /\ child[p][s].st # "write" => child'[p][s].file = NoPath
             /\ child[p][s].file \notin F => child'[p][s] = child[p][s]
  <2>1. child'[p][s] = IF child[p][s].file \in F
                       THEN [child[p][s] EXCEPT !.file = NoPath] ELSE child[p][s]
    BY DEF Detached
  <2>2. /\ child[p][s] \in [st : ChildState, file : DOMAIN fs \cup {NoPath}]
        /\ child[p][s].st # "write" => child[p][s].file = NoPath
    BY DEF TypeInv, DriverTypeOK
  <2> QED
    BY <2>1, <2>2
<1> QED
  BY <1>1, <1>2, <1>3 DEF ChildrenFit

\* main() only touches the state of its own process, its job and the files.
LEMMA MainTypeInv == ASSUME TypeInv, NEW p \in Procs, Main(p) PROVE TypeInv'
<1> USE DEF TypeInv, NoEarlyChildren, DriverTypeOK
<1>1. CASE CommandLineCheck(p)
  BY <1>1 DEF CommandLineCheck
<1>2. CASE Fork(p)
  <2>1. PICK s \in Unforked(p) :
          child' = [child EXCEPT ![p] = [t \in DOMAIN child[p] \cup {s} |->
            IF t = s THEN [st |-> "run", file |-> NoPath] ELSE child[p][t]]]
    BY <1>2 DEF Fork
  <2>2. s \in job[p].sources
    BY <2>1 DEF Unforked
  <2> QED
    BY <1>2, <2>1, <2>2 DEF Fork, ChildState
<1>3. CASE ForkFails(p)
  BY <1>3 DEF ForkFails
<1>4. CASE AllForked(p)
  BY <1>4 DEF AllForked
<1>5. CASE Reap(p)
  BY <1>5 DEF Reap, ChildState
<1>6. CASE NoChildren(p)
  BY <1>6 DEF NoChildren
<1>7. CASE Link(p)
  <2>1. DOMAIN fs' = DOMAIN fs \cup {Exe(p)}
    BY <1>7 DEF Link, Put
  <2>2. \A f \in DOMAIN fs' : DOMAIN fs'[f] = {"by", "whole"} /\ fs'[f].whole \in BOOLEAN
    BY <1>7 DEF Link, Put
  <2>3. child' = Detached({Exe(p)}) /\ DOMAIN fs \ {Exe(p)} \subseteq DOMAIN fs'
    BY <1>7, <2>1 DEF Link
  <2> HIDE DEF TypeInv
  <2>4. ChildrenFit({Exe(p)}, DOMAIN fs')
    BY <2>3, DetachedType
  <2>5. pc[p] = "link" /\ pc' = [pc EXCEPT ![p] = "remove"] /\ UNCHANGED <<cmd, job>>
    BY <1>7 DEF Link
  <2> QED
    BY <2>2, <2>4, <2>5 DEF TypeInv, ChildrenFit
<1>8. CASE LinkFails(p)
  <2>1. CASE UNCHANGED <<fs, child>>
    BY <1>8, <2>1 DEF LinkFails
  <2>2. CASE fs' = Without({Exe(p)}) /\ child' = Detached({Exe(p)})
    <3>1. DOMAIN fs' = DOMAIN fs \ {Exe(p)} /\ \A f \in DOMAIN fs' : fs'[f] = fs[f]
      BY <2>2 DEF Without
    <3> HIDE DEF TypeInv
    <3>4. ChildrenFit({Exe(p)}, DOMAIN fs')
      BY <2>2, <3>1, DetachedType
    <3> QED
      BY <1>8, <3>1, <3>4 DEF LinkFails, TypeInv, ChildrenFit
  <2> QED
    BY <1>8, <2>1, <2>2 DEF LinkFails
<1>9. CASE RemoveFiles(p)
  <2>1. DOMAIN fs' = DOMAIN fs \ Targets(p) /\ \A f \in DOMAIN fs' : fs'[f] = fs[f]
    BY <1>9 DEF RemoveFiles, Without
  <2>2. child' = Detached(Targets(p))
    BY <1>9 DEF RemoveFiles
  <2> HIDE DEF TypeInv
  <2>4. ChildrenFit(Targets(p), DOMAIN fs')
    BY <2>1, <2>2, DetachedType
  <2> QED
    BY <1>9, <2>1, <2>4 DEF RemoveFiles, TypeInv, ChildrenFit
<1> QED
  BY <1>1, <1>2, <1>3, <1>4, <1>5, <1>6, <1>7, <1>8, <1>9 DEF Main

\* A child touches its own state and the file it writes.
LEMMA ChildTypeInv ==
  ASSUME TypeInv, NEW p \in Procs, NEW s \in DOMAIN child[p], RunKcc(p, s)
  PROVE  TypeInv'
<1> USE DEF TypeInv, NoEarlyChildren, DriverTypeOK
<1>1. UNCHANGED <<pc, cmd, job>>
  BY DEF RunKcc
<1>2. ASSUME NEW st \in ChildState, NEW file \in DOMAIN fs' \cup {NoPath},
             st # "write" => file = NoPath, Becomes(p, s, st, file),
             DOMAIN fs \subseteq DOMAIN fs',
             \A f \in DOMAIN fs' : DOMAIN fs'[f] = {"by", "whole"} /\ fs'[f].whole \in BOOLEAN
      PROVE  TypeInv'
  BY <1>1, <1>2 DEF Becomes
<1> HIDE DEF TypeInv
<1>3. CASE \/ ChildFails(p, s) \/ ToTerminal(p, s) \/ OpenFails(p, s) \/ Killed(p, s)
  <2>1. UNCHANGED fs /\ \E st \in {"ok", "bad"} : Becomes(p, s, st, NoPath)
    BY <1>3 DEF ChildFails, ToTerminal, OpenFails, Killed
  <2> QED
    BY <1>2, <2>1 DEF TypeInv, ChildState
<1>4. CASE Open(p, s)
  <2>1. DOMAIN fs' = DOMAIN fs \cup {Target(p, s)}
    BY <1>4 DEF Open, Put
  <2>2. \A f \in DOMAIN fs' : DOMAIN fs'[f] = {"by", "whole"} /\ fs'[f].whole \in BOOLEAN
    BY <1>4 DEF Open, Put, TypeInv
  <2>3. Becomes(p, s, "write", Target(p, s))
    BY <1>4 DEF Open
  <2> QED
    BY <1>2, <2>1, <2>2, <2>3 DEF ChildState
<1>5. CASE Close(p, s)
  <2>1. child[p][s].file \in DOMAIN fs \cup {NoPath}
    BY DEF TypeInv
  <2>2. DOMAIN fs' = DOMAIN fs
    BY <1>5 DEF Close
  <2>3. \A f \in DOMAIN fs' : DOMAIN fs'[f] = {"by", "whole"} /\ fs'[f].whole \in BOOLEAN
    BY <1>5, <2>1 DEF Close, TypeInv
  <2>4. Becomes(p, s, "ok", NoPath)
    BY <1>5 DEF Close
  <2> QED
    BY <1>2, <2>2, <2>3, <2>4 DEF ChildState
<1> QED
  BY <1>3, <1>4, <1>5 DEF RunKcc

LEMMA NextTypeInv == TypeInv /\ [Next]_vars => TypeInv'
<1> SUFFICES ASSUME TypeInv, [Next]_vars PROVE TypeInv'
  OBVIOUS
<1>1. ASSUME NEW p \in Procs, Main(p) PROVE TypeInv'
  BY <1>1, MainTypeInv
<1>2. ASSUME NEW p \in Procs, Children(p) PROVE TypeInv'
  BY <1>2, ChildTypeInv DEF Children
<1>3. CASE UNCHANGED vars
  BY <1>3 DEF vars, TypeInv, NoEarlyChildren, DriverTypeOK
<1> QED
  BY <1>1, <1>2, <1>3 DEF Next, Finished

\* Every variable of every invocation has its type, however many there are, and
\* a child never has a file open that is not there.
THEOREM DriverTypes == Spec => []DriverTypeOK
<1>1. TypeInv => DriverTypeOK
  BY DEF TypeInv
<1> QED
  BY <1>1, InitTypeInv, NextTypeInv, PTL DEF Spec

-----------------------------------------------------------------------------
\* LinkReady is about one moment of main(); it rests on what holds of each child
\* from the moment it opens its product until main() is done with it.
Mine(p, s, whole) ==
  /\ Target(p, s) # NoPath /\ Target(p, s) \in DOMAIN fs
  /\ fs[Target(p, s)] = [by |-> {<<p, s>>}, whole |-> whole]

\* A product that main() still needs, for the link or as what was asked for.
Kept(p, s) ==
  /\ Target(p, s) # NoPath
  /\ IF DoNotLink(cmd[p]) THEN Unchecked(p) => Target(p, s).dir \in Writable ELSE ~Ended(p)

ChildInv ==
  \A p \in Procs : \A s \in DOMAIN child[p] :
    /\ child[p][s].st = "write" => child[p][s].file = Target(p, s) /\ Mine(p, s, FALSE)
    /\ child[p][s].st \in {"ok", "reaped"} /\ Kept(p, s) => Mine(p, s, TRUE)

MainInv ==
  \A p \in Procs :
    /\ pc[p] \in {"wait", "link", "remove", "unlink"} => DOMAIN child[p] = job[p].sources
    /\ pc[p] \in {"link", "remove", "unlink"} =>
         ~DoNotLink(cmd[p]) /\ \A s \in DOMAIN child[p] : child[p][s].st = "reaped"

LinkInv == TypeInv /\ ChildInv /\ MainInv

LEMMA InitLinkInv == Init => LinkInv
<1> SUFFICES ASSUME Init PROVE LinkInv
  OBVIOUS
<1>1. TypeInv
  BY InitTypeInv
<1>2. \A p \in Procs : pc[p] = "check" /\ DOMAIN child[p] = {}
  BY <1>1 DEF Init, TypeInv, NoEarlyChildren
<1> QED
  BY <1>1, <1>2 DEF LinkInv, ChildInv, MainInv

\* Where a child writes is fixed by its command line.
LEMMA TargetStays ==
  UNCHANGED cmd => \A p \in Procs : \A s : Target(p, s)' = Target(p, s)
BY DEF Target

\* What main() needs, it needed before.
LEMMA KeptBefore ==
  ASSUME UNCHANGED cmd, \A p \in Procs : Ended(p) => Ended(p)'
  PROVE  \A p \in Procs : \A s : Kept(p, s)' => Kept(p, s)
BY TargetStays DEF Kept, Unchecked

\* Compiling for the link, no child writes to the terminal.
LEMMA ObjectNamed ==
  ASSUME NEW p \in Procs, NEW s, ~DoNotLink(cmd[p]) PROVE Target(p, s) # NoPath
<1>1. Product(cmd[p], s) = GetObjFile(s)
  BY DEF Product, Stage
<1>2. Product(cmd[p], s).root = TRUE
  BY <1>1 DEF GetObjFile
<1>3. \A cwd, f : Resolve(cwd, f).root = TRUE
  BY DEF Resolve
<1> QED
  BY <1>2, <1>3 DEF Target, NoPath

\* While nothing is shared, a product is open in the child it belongs to only.
LEMMA OwnWriter ==
  ASSUME TypeInv, ChildInv, ObjectsApart,
         NEW p \in Procs, NEW s \in DOMAIN child[p], Target(p, s) # NoPath
  PROVE  Writers(Target(p, s)) = IF child[p][s].st = "write" THEN {<<p, s>>} ELSE {}
<1>1. ASSUME NEW q \in Procs, NEW t \in DOMAIN child[q], child[q][t].file = Target(p, s)
      PROVE  q = p /\ t = s /\ child[q][t].st = "write"
  <2>1. child[q][t].st = "write"
    BY <1>1 DEF TypeInv, DriverTypeOK
  <2>2. Target(q, t) = Target(p, s)
    BY <1>1, <2>1 DEF ChildInv
  <2>3. t \in job[q].sources /\ s \in job[p].sources
    BY DEF TypeInv, DriverTypeOK
  <2> QED
    BY <2>1, <2>2, <2>3 DEF ObjectsApart
<1>2. child[p][s].st = "write" => child[p][s].file = Target(p, s)
  BY DEF ChildInv
<1>3. ASSUME NEW w \in Writers(Target(p, s))
      PROVE  child[p][s].st = "write" /\ w = <<p, s>>
  <2>1. PICK q \in Procs : \E t \in DOMAIN child[q] :
          child[q][t].file = Target(p, s) /\ w = <<q, t>>
    BY <1>3 DEF Writers
  <2>2. PICK t \in DOMAIN child[q] : child[q][t].file = Target(p, s) /\ w = <<q, t>>
    BY <2>1
  <2> QED
    BY <2>2, <1>1
<1>4. child[p][s].st = "write" => <<p, s>> \in Writers(Target(p, s))
  BY <1>2 DEF Writers
<1> QED
  BY <1>3, <1>4

\* Two children write two files, and none the executable of a link.
LEMMA Apart ==
  ASSUME TypeInv, ObjectsApart, NEW p \in Procs, NEW s \in DOMAIN child[p],
         Target(p, s) # NoPath, NEW q \in Procs
  PROVE  /\ \A t \in DOMAIN child[q] : Target(q, t) = Target(p, s) => q = p /\ t = s
         /\ Target(p, s) \in Targets(q) => q = p
         /\ ~DoNotLink(cmd[q]) => Exe(q) # Target(p, s)
<1>1. /\ s \in job[p].sources
      /\ DOMAIN child[q] \subseteq job[q].sources
  BY DEF TypeInv, DriverTypeOK
<1>2. Target(p, s) \in Targets(p)
  BY <1>1 DEF Targets
<1>3. \A t \in job[q].sources : Target(q, t) = Target(p, s) => q = p /\ t = s
  BY <1>1 DEF ObjectsApart
<1>4. ~DoNotLink(cmd[q]) => Exe(q) # Target(p, s)
  BY <1>2 DEF ObjectsApart
<1>5. Target(p, s) \in Targets(q) => \E t \in job[q].sources : Target(q, t) = Target(p, s)
  BY DEF Targets
<1> QED
  BY <1>1, <1>3, <1>4, <1>5

\* A step of main() that leaves the files and the children alone.
LEMMA QuietMain ==
  ASSUME TypeInv, ChildInv, UNCHANGED <<cmd, child, fs>>,
         \A p \in Procs : Ended(p) => Ended(p)'
  PROVE  ChildInv'
<1>1. \A p \in Procs : \A s : Target(p, s)' = Target(p, s)
  BY TargetStays
<1>2. \A p \in Procs : \A s : Kept(p, s)' => Kept(p, s)
  BY KeptBefore
<1> QED
  BY <1>1, <1>2 DEF ChildInv, Mine

\* The files F are replaced or removed, and none is a product main() still needs.
LEMMA FilesGo ==
  ASSUME LinkInv, UNCHANGED cmd, NEW F, child' = Detached(F),
         \A f \in DOMAIN fs \ F : f \in DOMAIN fs' /\ fs'[f] = fs[f],
         \A p \in Procs : Ended(p) => Ended(p)',
         \A p \in Procs : \A s \in DOMAIN child[p] :
           /\ child[p][s].st = "write" /\ Target(p, s) # NoPath => Target(p, s) \notin F
           /\ Kept(p, s)' => Target(p, s) \notin F
  PROVE  ChildInv'
<1>1. \A p \in Procs : \A s : Target(p, s)' = Target(p, s)
  BY TargetStays
<1>2. ChildrenFit(F, DOMAIN fs \cup {NoPath})
  BY DetachedType DEF LinkInv
<1>3. ASSUME NEW p \in Procs, NEW s \in DOMAIN child'[p], child'[p][s].st = "write"
      PROVE  child'[p][s].file = Target(p, s)' /\ Mine(p, s, FALSE)'
  <2>1. s \in DOMAIN child[p] /\ child[p][s].st = "write"
    BY <1>2, <1>3 DEF ChildrenFit
  <2>2. child[p][s].file = Target(p, s) /\ Mine(p, s, FALSE)
    BY <2>1 DEF LinkInv, ChildInv
  <2>3. Target(p, s) \notin F
    BY <2>1, <2>2 DEF Mine
  <2>4. child'[p][s] = child[p][s]
    BY <1>2, <2>1, <2>2, <2>3 DEF ChildrenFit
  <2> QED
    BY <1>1, <2>2, <2>3, <2>4 DEF Mine
<1>4. ASSUME NEW p \in Procs, NEW s \in DOMAIN child'[p],
             child'[p][s].st \in {"ok", "reaped"}, Kept(p, s)'
      PROVE  Mine(p, s, TRUE)'
  <2>1. s \in DOMAIN child[p] /\ child[p][s].st \in {"ok", "reaped"}
    BY <1>2, <1>4 DEF ChildrenFit
  <2>2. Mine(p, s, TRUE)
    BY <1>4, <2>1, KeptBefore DEF LinkInv, ChildInv
  <2>3. Target(p, s) \notin F
    BY <1>4, <2>1
  <2> QED
    BY <1>1, <2>2, <2>3 DEF Mine
<1> QED
  BY <1>3, <1>4 DEF ChildInv

LEMMA MainChildInv ==
  ASSUME LinkInv, ObjectsApart, NEW p \in Procs, Main(p) PROVE ChildInv'
<1>1. TypeInv /\ ChildInv /\ MainInv
  BY DEF LinkInv
<1>2. UNCHANGED cmd
  BY DEF Main, CommandLineCheck, Fork, ForkFails, AllForked, Reap, NoChildren, Link,
         LinkFails, RemoveFiles
<1>3. \A q \in Procs : Ended(q) => Ended(q)'
  BY <1>1 DEF Ended, Main, CommandLineCheck, Fork, ForkFails, AllForked, Reap, NoChildren,
              Link, LinkFails, RemoveFiles, TypeInv, DriverTypeOK
<1>4. \A q \in Procs : \A s : Target(q, s)' = Target(q, s)
  BY <1>2, TargetStays
<1>5. \A q \in Procs : \A s : Kept(q, s)' => Kept(q, s)
  BY <1>2, <1>3, KeptBefore
<1>6. CASE \/ CommandLineCheck(p) \/ ForkFails(p) \/ AllForked(p) \/ NoChildren(p)
  <2>1. UNCHANGED <<child, fs>>
    BY <1>6 DEF CommandLineCheck, ForkFails, AllForked, NoChildren
  <2> QED
    BY <1>1, <1>2, <1>3, <2>1, QuietMain
<1>7. CASE Fork(p)
  <2>1. PICK s \in Unforked(p) :
          child' = [child EXCEPT ![p] = [t \in DOMAIN child[p] \cup {s} |->
            IF t = s THEN [st |-> "run", file |-> NoPath] ELSE child[p][t]]]
    BY <1>7 DEF Fork
  <2>2. UNCHANGED <<pc, fs>>
    BY <1>7 DEF Fork
  <2>3. ASSUME NEW q \in Procs, NEW t \in DOMAIN child'[q]
        PROVE  \/ child'[q][t].st = "run"
               \/ t \in DOMAIN child[q] /\ child'[q][t] = child[q][t]
    BY <1>1, <2>1 DEF TypeInv, DriverTypeOK
  <2>4. \A q \in Procs : \A t : \A w \in BOOLEAN : Mine(q, t, w) => Mine(q, t, w)'
    BY <1>4, <2>2 DEF Mine
  <2>6. ASSUME NEW q \in Procs, NEW t \in DOMAIN child'[q]
        PROVE  /\ child'[q][t].st = "write" =>
                    child'[q][t].file = Target(q, t)' /\ Mine(q, t, FALSE)'
               /\ child'[q][t].st \in {"ok", "reaped"} /\ Kept(q, t)' =>
                    Mine(q, t, TRUE)'
    <3>1. CASE child'[q][t].st = "run"
      BY <3>1
    <3>2. CASE t \in DOMAIN child[q] /\ child'[q][t] = child[q][t]
      BY <1>1, <1>2, <1>4, <1>5, <2>4, <3>2 DEF ChildInv
    <3> QED
      BY <2>3, <3>1, <3>2
  <2> QED
    BY <2>6 DEF ChildInv
<1>8. CASE Reap(p)
  <2>1. UNCHANGED fs
    BY <1>8 DEF Reap
  <2>2. \A q \in Procs : DOMAIN child'[q] = DOMAIN child[q]
    BY <1>1, <1>8 DEF Reap, TypeInv, DriverTypeOK
  <2>3. ASSUME NEW q \in Procs, NEW t \in DOMAIN child[q]
        PROVE  \/ child'[q][t] = child[q][t]
               \/ child[q][t].st = "ok" /\ child'[q][t].st = "reaped"
    BY <1>1, <1>8 DEF Reap, TypeInv, DriverTypeOK
  <2>4. \A q \in Procs : \A t : \A w \in BOOLEAN : Mine(q, t, w) => Mine(q, t, w)'
    BY <1>4, <2>1 DEF Mine
  <2>5. ASSUME NEW q \in Procs, NEW t \in DOMAIN child[q]
        PROVE  /\ child'[q][t].st = "write" =>
                    child'[q][t].file = Target(q, t)' /\ Mine(q, t, FALSE)'
               /\ child'[q][t].st \in {"ok", "reaped"} /\ Kept(q, t)' =>
                    Mine(q, t, TRUE)'
    <3>1. CASE child'[q][t] = child[q][t]
      BY <1>1, <1>2, <1>4, <1>5, <2>4, <3>1 DEF ChildInv
    <3>2. CASE child[q][t].st = "ok" /\ child'[q][t].st = "reaped"
      BY <1>1, <1>2, <1>4, <1>5, <2>4, <3>2 DEF ChildInv
    <3> QED
      BY <2>3, <3>1, <3>2
  <2> QED
    BY <2>2, <2>5 DEF ChildInv
<1>9. CASE Link(p) \/ LinkFails(p)
  <2>1. CASE UNCHANGED <<fs, child>>
    BY <1>1, <1>2, <1>3, <2>1, QuietMain
  <2>2. CASE child' = Detached({Exe(p)}) /\
             (Link(p) \/ fs' = Without({Exe(p)}))
    <3>1. \A f \in DOMAIN fs \ {Exe(p)} : f \in DOMAIN fs' /\ fs'[f] = fs[f]
      BY <2>2 DEF Link, Put, Without
    <3>2. ~DoNotLink(cmd[p])
      BY <1>1, <1>9 DEF MainInv, Link, LinkFails
    <3>3. \A q \in Procs : \A s \in DOMAIN child[q] :
            Target(q, s) # NoPath => Target(q, s) # Exe(p)
      BY <1>1, <3>2, Apart
    <3>4. \A q \in Procs : \A s \in DOMAIN child[q] : Kept(q, s)' => Target(q, s) # Exe(p)
      BY <1>5, <3>3 DEF Kept
    <3> QED
      BY <1>2, <1>3, <2>2, <3>1, <3>3, <3>4, FilesGo
  <2> QED
    BY <1>9, <2>1, <2>2 DEF Link, LinkFails
<1>10. CASE RemoveFiles(p)
  <2>1. child' = Detached(Targets(p)) /\ fs' = Without(Targets(p))
    BY <1>10 DEF RemoveFiles
  <2>2. \A f \in DOMAIN fs \ Targets(p) : f \in DOMAIN fs' /\ fs'[f] = fs[f]
    BY <2>1 DEF Without
  <2>3. Ended(p)' /\ ~DoNotLink(cmd[p]) /\ \A s \in DOMAIN child[p] : child[p][s].st = "reaped"
    BY <1>1, <1>10 DEF RemoveFiles, Ended, MainInv, TypeInv, DriverTypeOK
  <2>4. \A q \in Procs : \A s \in DOMAIN child[q] :
          Target(q, s) # NoPath /\ Target(q, s) \in Targets(p) => q = p
    BY <1>1, Apart
  <2>5. \A q \in Procs : \A s \in DOMAIN child[q] :
          /\ child[q][s].st = "write" /\ Target(q, s) # NoPath => Target(q, s) \notin Targets(p)
          /\ Kept(q, s)' => Target(q, s) \notin Targets(p)
    <3>1. \A s : ~Kept(p, s)'
      BY <1>2, <2>3 DEF Kept
    <3>2. \A q \in Procs : \A s : Kept(q, s)' => Target(q, s) # NoPath
      BY <1>5 DEF Kept
    <3> QED
      BY <2>3, <2>4, <3>1, <3>2
  <2> QED
    BY <1>2, <1>3, <2>1, <2>2, <2>5, FilesGo
<1> QED
  BY <1>6, <1>7, <1>8, <1>9, <1>10 DEF Main

LEMMA MainMainInv ==
  ASSUME LinkInv, NEW p \in Procs, Main(p) PROVE MainInv'
<1>1. TypeInv /\ MainInv
  BY DEF LinkInv
<1>2. CASE CommandLineCheck(p)
  BY <1>1, <1>2 DEF CommandLineCheck, TypeInv, DriverTypeOK, MainInv
<1>3. CASE Fork(p)
  BY <1>1, <1>3 DEF Fork, TypeInv, DriverTypeOK, MainInv
<1>4. CASE ForkFails(p)
  BY <1>1, <1>4 DEF ForkFails, TypeInv, DriverTypeOK, MainInv
<1>5. CASE AllForked(p)
  BY <1>1, <1>5 DEF AllForked, Unforked, TypeInv, DriverTypeOK, MainInv
<1>6. CASE Reap(p)
  BY <1>1, <1>6 DEF Reap, TypeInv, DriverTypeOK, MainInv
<1>7. CASE NoChildren(p)
  BY <1>1, <1>7 DEF NoChildren, TypeInv, DriverTypeOK, MainInv
<1>8. CASE Link(p) \/ LinkFails(p) \/ RemoveFiles(p)
  <2>1. \E F : ChildrenFit(F, DOMAIN fs)
    <3>1. CASE UNCHANGED child
      <4>1. ChildrenFit({}, DOMAIN fs)
        BY <1>1, <3>1 DEF ChildrenFit, TypeInv, DriverTypeOK
      <4> QED
        BY <4>1
    <3>2. ASSUME NEW F, child' = Detached(F) PROVE ChildrenFit(F, DOMAIN fs)
      BY <1>1, <3>2, DetachedType
    <3> QED
      BY <1>8, <3>1, <3>2 DEF Link, LinkFails, RemoveFiles
  <2>2. \A q \in Procs :
          /\ DOMAIN child'[q] = DOMAIN child[q]
          /\ \A s \in DOMAIN child[q] : child'[q][s].st = child[q][s].st
    BY <2>1 DEF ChildrenFit
  <2>3. UNCHANGED <<cmd, job>>
    BY <1>8 DEF Link, LinkFails, RemoveFiles
  <2>4. /\ pc[p] \in {"link", "remove", "unlink"}
        /\ \A q \in Procs \ {p} : pc'[q] = pc[q]
    BY <1>1, <1>8 DEF Link, LinkFails, RemoveFiles, TypeInv, DriverTypeOK
  <2> QED
    BY <1>1, <2>2, <2>3, <2>4 DEF MainInv
<1> QED
  BY <1>2, <1>3, <1>4, <1>5, <1>6, <1>7, <1>8 DEF Main

\* A step of the child for s disturbs nobody else's product.
LEMMA ChildLinkInv ==
  ASSUME LinkInv, ObjectsApart, NEW p \in Procs, NEW s \in DOMAIN child[p], RunKcc(p, s)
  PROVE  ChildInv' /\ MainInv'
<1>1. TypeInv /\ ChildInv /\ MainInv
  BY DEF LinkInv
<1>2. UNCHANGED <<pc, cmd, job>> /\ child[p][s].st \in {"run", "write"}
  BY DEF RunKcc
<1>3. \A q \in Procs : \A t : Target(q, t)' = Target(q, t)
  BY <1>2, TargetStays
<1>4. \A q \in Procs : \A t : Kept(q, t)' => Kept(q, t)
  BY <1>2, KeptBefore DEF Ended
<1>5. \E st, file : Becomes(p, s, st, file)
  BY DEF RunKcc, ChildFails, ToTerminal, Open, OpenFails, Close, Killed
<1>6. /\ \A q \in Procs : DOMAIN child'[q] = DOMAIN child[q]
      /\ \A q \in Procs : \A t \in DOMAIN child[q] :
           q # p \/ t # s => child'[q][t] = child[q][t]
  BY <1>1, <1>5 DEF Becomes, TypeInv, DriverTypeOK
<1>7. MainInv'
  <2>1. child[p][s].st # "reaped"
    BY <1>2
  <2> QED
    BY <1>1, <1>2, <1>6, <2>1 DEF MainInv
<1>8. ASSUME NEW q \in Procs, NEW t \in DOMAIN child[q], q # p \/ t # s,
             NEW w \in BOOLEAN, Mine(q, t, w)
      PROVE  Mine(q, t, w)'
  <2>1. Target(q, t) # NoPath /\ Target(q, t) \in DOMAIN fs
    BY <1>8 DEF Mine
  <2>2. Target(q, t) # Target(p, s)
    BY <1>1, <1>8, <2>1, Apart
  <2>3. child[p][s].st = "write" => child[p][s].file = Target(p, s)
    BY <1>1 DEF ChildInv
  <2>4. Target(q, t) \in DOMAIN fs' /\ fs'[Target(q, t)] = fs[Target(q, t)]
    <3>1. CASE UNCHANGED fs
      BY <2>1, <3>1
    <3>2. CASE Open(p, s)
      BY <2>1, <2>2, <3>2 DEF Open, Put
    <3>3. CASE child[p][s].st = "write" /\ Close(p, s)
      BY <2>1, <2>2, <2>3, <3>3 DEF Close
    <3> QED
      BY <3>1, <3>2, <3>3 DEF RunKcc, ChildFails, ToTerminal, OpenFails, Killed
  <2> QED
    BY <1>3, <1>8, <2>4 DEF Mine
<1>9. /\ child'[p][s].st = "write" => child'[p][s].file = Target(p, s)' /\ Mine(p, s, FALSE)'
      /\ child'[p][s].st \in {"ok", "reaped"} /\ Kept(p, s)' =>
           Mine(p, s, TRUE)'
  <2>1. \A st, file : Becomes(p, s, st, file) =>
          child'[p][s].st = st /\ child'[p][s].file = file
    BY <1>1 DEF Becomes, TypeInv, DriverTypeOK
  <2>2. CASE ChildFails(p, s) \/ Killed(p, s)
    <3>1. child'[p][s].st = "bad"
      BY <2>1, <2>2 DEF ChildFails, Killed
    <3> QED
      BY <3>1
  <2>3. CASE ToTerminal(p, s)
    <3>1. child'[p][s].st = "ok" /\ Target(p, s) = NoPath
      BY <2>1, <2>3 DEF ToTerminal
    <3> QED
      BY <1>4, <3>1 DEF Kept
  <2>4. CASE OpenFails(p, s)
    <3>1. /\ child'[p][s].st = IF Unchecked(p) THEN "ok" ELSE "bad"
          /\ Target(p, s).dir \notin Writable
      BY <2>1, <2>4 DEF OpenFails
    <3>2. Unchecked(p) => DoNotLink(cmd[p])
      BY DEF Unchecked, Stage
    <3> QED
      BY <1>4, <3>1, <3>2 DEF Kept
  <2>5. CASE child[p][s].st = "run" /\ Open(p, s)
    <3>1. child'[p][s].st = "write" /\ child'[p][s].file = Target(p, s)
      BY <2>1, <2>5 DEF Open
    <3>2. Target(p, s) # NoPath
      BY <2>5 DEF Open
    <3>3. Writers(Target(p, s)) = {}
      BY <1>1, <2>5, <3>2, OwnWriter
    <3>4. fs' = Put(Target(p, s), [by |-> {<<p, s>>}, whole |-> FALSE])
      BY <2>5, <3>3 DEF Open
    <3>5. /\ Target(p, s) \in DOMAIN fs'
          /\ fs'[Target(p, s)] = [by |-> {<<p, s>>}, whole |-> FALSE]
      BY <3>4 DEF Put
    <3> QED
      BY <1>3, <3>1, <3>2, <3>5 DEF Mine
  <2>6. CASE child[p][s].st = "write" /\ Close(p, s)
    <3>1. child'[p][s].st = "ok"
      BY <2>1, <2>6 DEF Close
    <3>2. child[p][s].file = Target(p, s) /\ Mine(p, s, FALSE)
      BY <1>1, <2>6 DEF ChildInv
    <3>3. Target(p, s) # NoPath
      BY <3>2 DEF Mine
    <3>4. Writers(Target(p, s)) = {<<p, s>>}
      BY <1>1, <2>6, <3>3, OwnWriter
    <3>5. fs' = [fs EXCEPT ![Target(p, s)].whole = TRUE]
      BY <2>6, <3>2, <3>3, <3>4 DEF Close
    <3>6. fs[Target(p, s)] = [by |-> {<<p, s>>}, whole |-> FALSE] /\ Target(p, s) \in DOMAIN fs
      BY <3>2 DEF Mine
    <3>7. /\ Target(p, s) \in DOMAIN fs'
          /\ fs'[Target(p, s)] = [by |-> {<<p, s>>}, whole |-> TRUE]
      <4>1. \A B : \A r \in [by : B, whole : BOOLEAN] : \A w \in BOOLEAN :
              [r EXCEPT !.whole = w] = [by |-> r.by, whole |-> w]
        OBVIOUS
      <4>2. fs[Target(p, s)] \in [by : {{<<p, s>>}}, whole : BOOLEAN]
        BY <3>6
      <4>3. fs[Target(p, s)].by = {<<p, s>>}
        BY <3>6
      <4>4. /\ Target(p, s) \in DOMAIN fs'
            /\ fs'[Target(p, s)] = [fs[Target(p, s)] EXCEPT !.whole = TRUE]
        BY <3>5, <3>6
      <4> QED
        BY <4>1, <4>2, <4>3, <4>4
    <3>8. Mine(p, s, TRUE)'
      BY <1>3, <3>3, <3>7 DEF Mine
    <3> QED
      BY <3>1, <3>8
  <2> QED
    BY <2>2, <2>3, <2>4, <2>5, <2>6 DEF RunKcc
<1>10. ChildInv'
  <2>1. ASSUME NEW q \in Procs, NEW t \in DOMAIN child[q]
        PROVE  /\ child'[q][t].st = "write" =>
                    child'[q][t].file = Target(q, t)' /\ Mine(q, t, FALSE)'
               /\ child'[q][t].st \in {"ok", "reaped"} /\ Kept(q, t)' =>
                    Mine(q, t, TRUE)'
    <3>1. CASE q = p /\ t = s
      BY <1>9, <3>1
    <3>2. CASE q # p \/ t # s
      <4>1. child'[q][t] = child[q][t]
        BY <1>6, <3>2
      <4> QED
        BY <1>1, <1>2, <1>3, <1>4, <1>8, <3>2, <4>1 DEF ChildInv
    <3> QED
      BY <3>1, <3>2
  <2> QED
    BY <1>6, <2>1 DEF ChildInv
<1> QED
  BY <1>7, <1>10

LEMMA NextLinkInv == LinkInv /\ ObjectsApart /\ [Next]_vars => LinkInv'
<1> SUFFICES ASSUME LinkInv, ObjectsApart, [Next]_vars PROVE LinkInv'
  OBVIOUS
<1>1. TypeInv'
  BY NextTypeInv DEF LinkInv
<1>2. ASSUME NEW p \in Procs, Main(p) PROVE ChildInv' /\ MainInv'
  BY <1>2, MainChildInv, MainMainInv
<1>3. ASSUME NEW p \in Procs, Children(p) PROVE ChildInv' /\ MainInv'
  BY <1>3, ChildLinkInv DEF Children
<1>4. CASE UNCHANGED vars
  <2>1. UNCHANGED <<pc, cmd, job, child, fs>>
    BY <1>4 DEF vars
  <2>2. ChildInv'
    BY <2>1, QuietMain DEF LinkInv, Ended
  <2>3. MainInv'
    BY <2>1 DEF LinkInv, MainInv
  <2> QED
    BY <1>1, <2>2, <2>3 DEF LinkInv
<1>5. CASE \E p \in Procs : Main(p) \/ Children(p)
  <2>1. ChildInv' /\ MainInv'
    BY <1>2, <1>3, <1>5
  <2> QED
    BY <1>1, <2>1 DEF LinkInv
<1> QED
  BY <1>4, <1>5 DEF Next, Finished

\* As long as no two compilations share a file, what any invocation hands to
\* lld is whole and its own: whichever children fail, are killed or outlive the
\* invocation that started them, and in whatever order they run.
THEOREM LinksOwnObjects == Spec /\ []ObjectsApart => []LinkReady
<1>1. LinkInv => LinkReady
  <2> SUFFICES ASSUME LinkInv, NEW p \in Procs, pc[p] = "link", NEW s \in job[p].sources
               PROVE  Mine(p, s, TRUE)
    BY DEF LinkReady, Mine
  <2> QED
    BY ObjectNamed DEF LinkInv, MainInv, ChildInv, Kept, Ended
<1> QED
  BY <1>1, InitLinkInv, NextLinkInv, PTL DEF Spec

-----------------------------------------------------------------------------
\* Files only appear as an executable or as what a child opens.
LEMMA MainFiles ==
  ASSUME LinkInv, NEW p \in Procs, Main(p)
  PROVE  /\ DOMAIN fs' \subseteq DOMAIN fs \cup {Exe(p)}
         /\ DOMAIN fs' \subseteq DOMAIN fs \/ ~DoNotLink(cmd[p])
<1>1. CASE Link(p)
  <2>1. DOMAIN fs' = DOMAIN fs \cup {Exe(p)}
    BY <1>1 DEF Link, Put
  <2>2. ~DoNotLink(cmd[p])
    BY <1>1 DEF Link, LinkInv, MainInv
  <2> QED
    BY <2>1, <2>2
<1>2. ASSUME NEW F, fs' = Without(F) PROVE DOMAIN fs' \subseteq DOMAIN fs
  BY <1>2 DEF Without
<1>3. CASE LinkFails(p) \/ RemoveFiles(p)
  BY <1>2, <1>3 DEF LinkFails, RemoveFiles
<1>4. CASE ~(Link(p) \/ LinkFails(p) \/ RemoveFiles(p))
  <2>1. UNCHANGED fs
    BY <1>4 DEF Main, CommandLineCheck, Fork, ForkFails, AllForked, Reap, NoChildren
  <2> QED
    BY <2>1
<1> QED
  BY <1>1, <1>3, <1>4

LEMMA ChildFiles ==
  ASSUME LinkInv, NEW p \in Procs, NEW s \in DOMAIN child[p], RunKcc(p, s)
  PROVE  /\ DOMAIN fs' \subseteq DOMAIN fs \cup {Target(p, s)}
         /\ DOMAIN fs' \subseteq DOMAIN fs \/ Target(p, s) # NoPath
<1>1. CASE Open(p, s)
  BY <1>1 DEF Open, Put
<1>2. CASE Close(p, s)
  BY <1>2 DEF Close
<1>3. CASE ~(Open(p, s) \/ Close(p, s))
  <2>1. UNCHANGED fs
    BY <1>3 DEF RunKcc, ChildFails, ToTerminal, OpenFails, Killed
  <2> QED
    BY <2>1
<1> QED
  BY <1>1, <1>2, <1>3

\* What the children of an invocation are to the others: neither its main() nor
\* its children touch theirs, beyond the files they have open.
Others(p) ==
  \A q \in Procs \ {p} :
    /\ pc'[q] = pc[q] /\ job'[q] = job[q] /\ DOMAIN child'[q] = DOMAIN child[q]
    /\ \A t \in DOMAIN child[q] : child'[q][t].st = child[q][t].st

LEMMA MainOthers ==
  ASSUME LinkInv, NEW p \in Procs, Main(p) PROVE UNCHANGED cmd /\ Others(p)
<1>1. TypeInv
  BY DEF LinkInv
<1>2. UNCHANGED cmd
  BY DEF Main, CommandLineCheck, Fork, ForkFails, AllForked, Reap, NoChildren, Link,
         LinkFails, RemoveFiles
<1>3. \A q \in Procs \ {p} : pc'[q] = pc[q] /\ job'[q] = job[q]
  BY <1>1 DEF Main, CommandLineCheck, Fork, ForkFails, AllForked, Reap, NoChildren, Link,
              LinkFails, RemoveFiles, TypeInv, DriverTypeOK
<1>4. ASSUME NEW q \in Procs \ {p}
      PROVE  /\ DOMAIN child'[q] = DOMAIN child[q]
             /\ \A t \in DOMAIN child[q] : child'[q][t].st = child[q][t].st
  <2>1. ASSUME NEW F, child' = Detached(F)
        PROVE  /\ DOMAIN child'[q] = DOMAIN child[q]
               /\ \A t \in DOMAIN child[q] : child'[q][t].st = child[q][t].st
    <3>1. ChildrenFit(F, DOMAIN fs)
      BY <1>1, <2>1, DetachedType
    <3> QED
      BY <3>1 DEF ChildrenFit
  <2>2. CASE child'[q] = child[q]
    BY <2>2
  <2>3. CASE \/ CommandLineCheck(p) \/ Fork(p) \/ ForkFails(p) \/ AllForked(p)
             \/ Reap(p) \/ NoChildren(p)
    <3>1. child'[q] = child[q]
      BY <1>1, <2>3 DEF CommandLineCheck, Fork, ForkFails, AllForked, Reap, NoChildren,
                        TypeInv, DriverTypeOK
    <3> QED
      BY <2>2, <3>1
  <2>4. CASE Link(p) \/ LinkFails(p) \/ RemoveFiles(p)
    BY <2>1, <2>2, <2>4 DEF Link, LinkFails, RemoveFiles
  <2> QED
    BY <2>3, <2>4 DEF Main
<1> QED
  BY <1>2, <1>3, <1>4 DEF Others

LEMMA ChildOthers ==
  ASSUME LinkInv, NEW p \in Procs, NEW s \in DOMAIN child[p], RunKcc(p, s)
  PROVE  /\ UNCHANGED <<pc, cmd, job>> /\ Others(p)
         /\ DOMAIN child'[p] = DOMAIN child[p]
         /\ child'[p][s].st # "reaped" /\ child[p][s].st # "reaped"
         /\ \A t \in DOMAIN child[p] \ {s} : child'[p][t] = child[p][t]
<1>1. TypeInv
  BY DEF LinkInv
<1>2. UNCHANGED <<pc, cmd, job>> /\ child[p][s].st # "reaped"
  BY DEF RunKcc
<1>3. PICK st, file : Becomes(p, s, st, file) /\ st # "reaped"
  BY DEF RunKcc, ChildFails, ToTerminal, Open, OpenFails, Close, Killed
<1>4. /\ DOMAIN child'[p] = DOMAIN child[p]
      /\ child'[p][s].st = st
      /\ \A t \in DOMAIN child[p] \ {s} : child'[p][t] = child[p][t]
      /\ \A q \in Procs \ {p} : child'[q] = child[q]
  BY <1>1, <1>3 DEF Becomes, TypeInv, DriverTypeOK
<1> QED
  BY <1>2, <1>3, <1>4 DEF Others

-----------------------------------------------------------------------------
\* An invocation that is refused has no sources yet.
TempsInv == TempsRemoved /\ \A p \in Procs : pc[p] = "check" => job[p] = NoJob

LEMMA InitTempsInv == Init => TempsInv
BY DEF Init, TempsInv, TempsRemoved, Ended

\* The files of an invocation that has ended stay removed: nobody else has them.
LEMMA OthersTemps ==
  ASSUME LinkInv, TempsInv, ObjectsApart, UNCHANGED cmd, NEW p \in Procs, Others(p),
         NEW f, DOMAIN fs' \subseteq DOMAIN fs \cup {f},
         DOMAIN fs' \subseteq DOMAIN fs \/ \A q \in Procs \ {p} : f \notin Targets(q),
         NEW q \in Procs \ {p}, Ended(q)', Waited(q)', ~DoNotLink(cmd'[q])
  PROVE  Targets(q)' \cap DOMAIN fs' = {}
<1>1. Ended(q) /\ Waited(q)
  BY DEF Ended, Waited, Others
<1>2. Targets(q) \cap DOMAIN fs = {}
  BY <1>1 DEF TempsInv, TempsRemoved
<1>3. Targets(q)' = Targets(q)
  BY TargetStays DEF Targets, Others
<1> QED
  BY <1>2, <1>3

LEMMA MainTempsInv ==
  ASSUME LinkInv, TempsInv, ObjectsApart, NEW p \in Procs, Main(p) PROVE TempsInv'
<1>1. TypeInv /\ MainInv /\ UNCHANGED cmd /\ Others(p)
  BY MainOthers DEF LinkInv
<1>2. \A q \in Procs \ {p} : Ended(q)' /\ Waited(q)' /\ ~DoNotLink(cmd'[q]) =>
        Targets(q)' \cap DOMAIN fs' = {}
  BY <1>1, MainFiles, OthersTemps DEF ObjectsApart
<1>3. Ended(p)' /\ Waited(p)' /\ ~DoNotLink(cmd'[p]) => Targets(p)' \cap DOMAIN fs' = {}
  <2> SUFFICES ASSUME Ended(p)', Waited(p)', ~DoNotLink(cmd[p])
               PROVE  Targets(p)' \cap DOMAIN fs' = {}
    BY <1>1
  <2>1. CASE CommandLineCheck(p)
    <3>1. job'[p] = NoJob
      BY <1>1, <2>1 DEF CommandLineCheck, Ended, TempsInv, TypeInv, DriverTypeOK
    <3> QED
      BY <3>1 DEF Targets, NoJob
  <2>2. CASE Fork(p) \/ AllForked(p) \/ NoChildren(p) \/ Link(p) \/ LinkFails(p)
    BY <1>1, <2>2 DEF Fork, AllForked, NoChildren, Link, LinkFails, Ended, TypeInv, DriverTypeOK
  <2>3. CASE ForkFails(p)
    BY <2>3 DEF ForkFails, Unforked, Waited
  <2>4. CASE Reap(p)
    BY <1>1, <2>4 DEF Reap, Waited, Ended, TypeInv, DriverTypeOK
  <2>5. CASE RemoveFiles(p)
    <3>1. DOMAIN fs' = DOMAIN fs \ Targets(p)
      BY <2>5 DEF RemoveFiles, Without
    <3>2. Targets(p)' = Targets(p)
      BY <1>1, <2>5, TargetStays DEF RemoveFiles, Targets
    <3> QED
      BY <3>1, <3>2
  <2> QED
    BY <2>1, <2>2, <2>3, <2>4, <2>5 DEF Main
<1>4. \A q \in Procs : pc'[q] = "check" => job'[q] = NoJob
  <2>1. pc'[p] # "check"
    BY <1>1 DEF Main, CommandLineCheck, Fork, ForkFails, AllForked, Reap, NoChildren, Link,
                LinkFails, RemoveFiles, TypeInv, DriverTypeOK
  <2> QED
    BY <1>1, <2>1 DEF Others, TempsInv
<1> QED
  BY <1>2, <1>3, <1>4 DEF TempsInv, TempsRemoved

LEMMA ChildTempsInv ==
  ASSUME LinkInv, TempsInv, ObjectsApart,
         NEW p \in Procs, NEW s \in DOMAIN child[p], RunKcc(p, s)
  PROVE  TempsInv'
<1>1. /\ UNCHANGED <<pc, cmd, job>> /\ Others(p)
      /\ DOMAIN child'[p] = DOMAIN child[p] /\ child'[p][s].st # "reaped"
  BY ChildOthers
<1>2. \A q \in Procs \ {p} : Target(p, s) # NoPath => Target(p, s) \notin Targets(q)
  BY Apart DEF LinkInv
<1>3. \A q \in Procs \ {p} : Ended(q)' /\ Waited(q)' /\ ~DoNotLink(cmd'[q]) =>
        Targets(q)' \cap DOMAIN fs' = {}
  BY <1>1, <1>2, ChildFiles, OthersTemps
<1>4. ~Waited(p)'
  BY <1>1 DEF Waited
<1> QED
  BY <1>1, <1>3, <1>4 DEF TempsInv, TempsRemoved

LEMMA NextTempsInv == LinkInv /\ TempsInv /\ ObjectsApart /\ [Next]_vars => TempsInv'
<1> SUFFICES ASSUME LinkInv, TempsInv, ObjectsApart, [Next]_vars PROVE TempsInv'
  OBVIOUS
<1>1. ASSUME NEW p \in Procs, Main(p) PROVE TempsInv'
  BY <1>1, MainTempsInv
<1>2. ASSUME NEW p \in Procs, Children(p) PROVE TempsInv'
  BY <1>2, ChildTempsInv DEF Children
<1>3. CASE UNCHANGED vars
  BY <1>3, TargetStays DEF vars, TempsInv, TempsRemoved, Ended, Waited, Targets
<1> QED
  BY <1>1, <1>2, <1>3 DEF Next, Finished

\* Once main() has had all its children and returns, none of its temporary
\* objects is left, after a link that failed no less than after one that worked,
\* and no child or other invocation makes one again.
THEOREM RemovesTemps == Spec /\ []ObjectsApart => []TempsRemoved
<1>1. TempsInv => TempsRemoved
  BY DEF TempsInv
<1> QED
  BY <1>1, InitLinkInv, NextLinkInv, InitTempsInv, NextTempsInv, PTL DEF Spec

-----------------------------------------------------------------------------
\* The refinement of Toolchain needs, beside the above, to know where a file
\* comes from: what is not of the disk as it was at first is an output.
Output(q, f) == f \in Targets(q) \/ (~DoNotLink(cmd[q]) /\ f = Exe(q))

OriginInv == \A f \in DOMAIN fs : fs[f].by = {} \/ \E q \in Procs : Output(q, f)

PathInv ==
  /\ \A p \in Procs : cmd[p] \in CommandLine /\ job[p].sources \subseteq Path
  /\ \A f \in DOMAIN fs : f.name \in Seq(Word)

DoneInv == \A p \in Procs : pc[p] = "ok" => Waited(p)

RefInv == LinkInv /\ TempsInv /\ OriginInv /\ PathInv /\ DoneInv

LEMMA InitRefInv == Init => RefInv
<1> SUFFICES ASSUME Init PROVE RefInv
  OBVIOUS
<1>1. LinkInv /\ TempsInv
  BY InitLinkInv, InitTempsInv
<1>2. OriginInv /\ DoneInv
  BY DEF Init, OriginInv, DoneInv
<1>3. PathInv
  BY DriverAssumption DEF Init, PathInv, DriverAssumption, Path, NoJob
<1> QED
  BY <1>1, <1>2, <1>3 DEF RefInv

\* A stage is one of those RunKcc knows.
LEMMA StageKnown ==
  \A c : Stage(c) \in {"E", "emit-token", "emit-ast", "emit-llvm", "S", "c", "object"}
<1> SUFFICES ASSUME NEW c, DoNotLink(c)
             PROVE  Stage(c) \in {"E", "emit-token", "emit-ast", "emit-llvm", "S", "c"}
  BY DEF Stage
<1> DEFINE First(i) == Stages[i] \in c.flags /\ \A j \in 1 .. i - 1 : Stages[j] \notin c.flags
<1>1. DOMAIN Stages = 1 .. 6
  BY DEF Stages
<1>2. \E i \in 1 .. 6 : Stages[i] \in c.flags
  BY <1>1 DEF DoNotLink
<1>3. \E i \in 1 .. 6 : First(i)
  <2>1. CASE Stages[1] \in c.flags
    BY <2>1
  <2>2. CASE Stages[1] \notin c.flags /\ Stages[2] \in c.flags
    BY <2>2
  <2>3. CASE Stages[1] \notin c.flags /\ Stages[2] \notin c.flags /\ Stages[3] \in c.flags
    BY <2>3
  <2>4. CASE /\ Stages[1] \notin c.flags /\ Stages[2] \notin c.flags /\ Stages[3] \notin c.flags
             /\ Stages[4] \in c.flags
    BY <2>4
  <2>5. CASE /\ Stages[1] \notin c.flags /\ Stages[2] \notin c.flags /\ Stages[3] \notin c.flags
             /\ Stages[4] \notin c.flags /\ Stages[5] \in c.flags
    BY <2>5
  <2>6. CASE /\ Stages[1] \notin c.flags /\ Stages[2] \notin c.flags /\ Stages[3] \notin c.flags
             /\ Stages[4] \notin c.flags /\ Stages[5] \notin c.flags
    BY <1>2, <2>6
  <2> QED
    BY <2>1, <2>2, <2>3, <2>4, <2>5, <2>6
<1>4. (CHOOSE i \in DOMAIN Stages : First(i)) \in 1 .. 6
  BY <1>1, <1>3
<1>5. Stage(c) = Stages[CHOOSE i \in DOMAIN Stages : First(i)]
  BY DEF Stage
<1>6. \A i \in 1 .. 6 : Stages[i] \in {"E", "emit-token", "emit-ast", "emit-llvm", "S", "c"}
  BY DEF Stages
<1> HIDE DEF First
<1> QED
  BY <1>4, <1>5, <1>6

\* What a child writes, and what is linked, has the name of a path.
LEMMA ProductName ==
  ASSUME NEW c \in CommandLine, NEW s \in Path PROVE Product(c, s).name \in Seq(Word)
<1>1. /\ s.name \in Seq(Word) /\ c.out.name \in Seq(Word)
      /\ NoPath.name \in Seq(Word)
  BY DEF CommandLine, Path, NoPath
<1>2. GetObjFile(s).name \in Seq(Word)
  <2>1. GetObjFile(s).name = Append(s.name, "o")
    BY DEF GetObjFile
  <2> QED
    BY <1>1, <2>1, AppendProperties, DriverAssumption DEF DriverAssumption
<1>3. \A ext \in Word : GetFileName(s, ext).name \in Seq(Word)
  <2> SUFFICES ASSUME NEW ext \in Word PROVE GetFileName(s, ext).name \in Seq(Word)
    OBVIOUS
  <2> DEFINE stem == IF Len(s.name) > 1 THEN SubSeq(s.name, 1, Len(s.name) - 1) ELSE s.name
  <2>1. stem \in Seq(Word)
    <3>1. CASE Len(s.name) > 1
      <4>1. \A i \in 1 .. Len(s.name) - 1 : s.name[i] \in Word
        BY <1>1, <3>1, LenProperties, ElementOfSeq
      <4>2. Len(s.name) - 1 \in Int
        BY <1>1, LenProperties
      <4> QED
        BY <3>1, <4>1, <4>2, SubSeqProperties
    <3> QED
      BY <1>1, <3>1
  <2>2. GetFileName(s, ext).name = Append(stem, ext)
    BY DEF GetFileName, Path
  <2> HIDE DEF stem
  <2> QED
    BY <2>1, <2>2, AppendProperties
<1>4. Product(c, s) \in {GetObjFile(s), c.out, NoPath, GetFileName(s, "html"),
                        GetFileName(s, "ll"), GetFileName(s, "s"), GetFileName(s, "o")}
  BY StageKnown DEF Product
<1>5. {"html", "ll", "s", "o"} \subseteq Word
  BY DriverAssumption DEF DriverAssumption
<1> QED
  BY <1>1, <1>2, <1>3, <1>4, <1>5

LEMMA TargetName ==
  ASSUME NEW p \in Procs, cmd[p] \in CommandLine, NEW s \in Path
  PROVE  Target(p, s).name \in Seq(Word)
<1>1. Product(cmd[p], s).name \in Seq(Word)
  BY ProductName
<1>2. \A cwd, f : Resolve(cwd, f).name = f.name
  BY DEF Resolve
<1> QED
  BY <1>1, <1>2 DEF Target

LEMMA ExeName ==
  ASSUME NEW p \in Procs, cmd[p] \in CommandLine PROVE Exe(p).name \in Seq(Word)
<1>1. OutputFilePath(cmd[p]).name \in Seq(Word)
  <2>1. cmd[p].out.name \in Seq(Word)
    BY DEF CommandLine, Path
  <2>2. <<"a", "out">> \in Seq(Word)
    BY DriverAssumption DEF DriverAssumption
  <2> QED
    BY <2>1, <2>2 DEF OutputFilePath
<1>2. \A cwd, f : Resolve(cwd, f).name = f.name
  BY DEF Resolve
<1> QED
  BY <1>1, <1>2 DEF Exe

\* The sources of a job, named or found in a directory, are paths.
LEMMA SourcesPaths ==
  ASSUME PathInv, NEW c \in CommandLine PROVE Sources(c) \subseteq Path
<1>1. ASSUME NEW a \in c.args PROVE Entries(c, a) \subseteq Path
  <2>1. Folder(c, a) \in Path
    BY DEF Folder, CommandLine, Path
  <2>2. \A f \in DOMAIN fs : [Folder(c, a) EXCEPT !.name = f.name] \in Path
    BY <2>1 DEF PathInv, Path
  <2> QED
    BY <2>2 DEF Entries
<1>2. c.args \subseteq Path
  BY DEF CommandLine
<1> QED
  BY <1>1, <1>2 DEF Sources, Named

\* A file that a step leaves as it is.
Same(f) == (f \in DOMAIN fs' <=> f \in DOMAIN fs) /\ (f \in DOMAIN fs => fs'[f] = fs[f])

\* main() replaces its executable and removes its objects, and nothing else.
LEMMA MainTouches ==
  ASSUME LinkInv, NEW p \in Procs, Main(p)
  PROVE  \A f :
           \/ Same(f)
           \/ f = Exe(p) /\ ~DoNotLink(cmd[p]) /\ pc[p] = "link"
           \/ f \in Targets(p) /\ ~DoNotLink(cmd[p]) /\ f \notin DOMAIN fs'
<1>1. CASE Link(p)
  <2>1. \A f : f # Exe(p) => Same(f)
    BY <1>1 DEF Link, Put, Same
  <2> QED
    BY <1>1, <2>1 DEF Link, LinkInv, MainInv
<1>2. CASE LinkFails(p)
  <2>1. \A f : f # Exe(p) => Same(f)
    BY <1>2 DEF LinkFails, Without, Same
  <2> QED
    BY <1>2, <2>1 DEF LinkFails, LinkInv, MainInv
<1>3. CASE RemoveFiles(p)
  <2>1. \A f : f \notin Targets(p) => Same(f)
    BY <1>3 DEF RemoveFiles, Without, Same
  <2>2. \A f \in Targets(p) : f \notin DOMAIN fs'
    BY <1>3 DEF RemoveFiles, Without
  <2>3. ~DoNotLink(cmd[p])
    BY <1>3 DEF RemoveFiles, LinkInv, MainInv
  <2> QED
    BY <2>1, <2>2, <2>3
<1>4. CASE ~(Link(p) \/ LinkFails(p) \/ RemoveFiles(p))
  <2>1. UNCHANGED fs
    BY <1>4 DEF Main, CommandLineCheck, Fork, ForkFails, AllForked, Reap, NoChildren
  <2> QED
    BY <2>1 DEF Same
<1> QED
  BY <1>1, <1>2, <1>3, <1>4

LEMMA ChildTouches ==
  ASSUME LinkInv, NEW p \in Procs, NEW s \in DOMAIN child[p], RunKcc(p, s)
  PROVE  \A f : Same(f) \/ (f = Target(p, s) /\ f # NoPath)
<1>1. CASE Open(p, s)
  BY <1>1 DEF Open, Put, Same
<1>2. CASE Close(p, s) /\ child[p][s].st = "write"
  <2>1. child[p][s].file = Target(p, s) /\ Target(p, s) # NoPath /\ Target(p, s) \in DOMAIN fs
    BY <1>2 DEF LinkInv, ChildInv, Mine
  <2> QED
    BY <1>2, <2>1 DEF Close, Same
<1>3. CASE ~(Open(p, s) \/ (Close(p, s) /\ child[p][s].st = "write"))
  <2>1. UNCHANGED fs
    BY <1>3 DEF RunKcc, ChildFails, ToTerminal, OpenFails, Killed
  <2> QED
    BY <2>1 DEF Same
<1> QED
  BY <1>1, <1>2, <1>3

\* What is an output stays one: the job of an invocation is set once.
LEMMA OutputStays ==
  ASSUME UNCHANGED cmd, NEW q \in Procs, job'[q] = job[q] \/ job[q] = NoJob
  PROVE  \A f : Output(q, f) => Output(q, f)'
<1>1. Targets(q) \subseteq Targets(q)'
  BY TargetStays DEF Targets, NoJob
<1>2. Exe(q)' = Exe(q)
  BY DEF Exe
<1> QED
  BY <1>1, <1>2 DEF Output

LEMMA MainRefInv ==
  ASSUME RefInv, NEW p \in Procs, Main(p) PROVE OriginInv' /\ PathInv' /\ DoneInv'
<1>1. LinkInv /\ TempsInv /\ TypeInv /\ MainInv /\ UNCHANGED cmd /\ Others(p)
  BY MainOthers DEF RefInv, LinkInv
<1>2. \/ UNCHANGED job
      \/ /\ pc[p] = "check" /\ job[p] = NoJob
         /\ job' = [job EXCEPT ![p] =
              [sources |-> Sources(cmd[p]), libraries |-> Libraries(cmd[p])]]
  BY <1>1 DEF Main, CommandLineCheck, Fork, ForkFails, AllForked, Reap, NoChildren, Link,
              LinkFails, RemoveFiles, TempsInv
<1>3. OriginInv'
  <2>1. \A q \in Procs : \A f : Output(q, f) => Output(q, f)'
    BY <1>1, <1>2, OutputStays DEF TypeInv, DriverTypeOK
  <2>2. ASSUME NEW f \in DOMAIN fs' PROVE fs'[f].by = {} \/ \E q \in Procs : Output(q, f)'
    <3>1. CASE Same(f)
      BY <2>1, <2>2, <3>1 DEF Same, RefInv, OriginInv
    <3>2. CASE f = Exe(p) /\ ~DoNotLink(cmd[p])
      BY <2>1, <3>2 DEF Output
    <3> QED
      BY <1>1, <2>2, <3>1, <3>2, MainTouches
  <2> QED
    BY <2>2 DEF OriginInv
<1>4. PathInv'
  <2>1. job'[p].sources \subseteq Path
    BY <1>1, <1>2, SourcesPaths DEF RefInv, PathInv, TypeInv, DriverTypeOK
  <2>2. \A q \in Procs : cmd'[q] \in CommandLine /\ job'[q].sources \subseteq Path
    BY <1>1, <2>1 DEF RefInv, PathInv, Others
  <2>3. \A f \in DOMAIN fs' : f.name \in Seq(Word)
    BY <1>1, MainFiles, ExeName DEF RefInv, PathInv
  <2> QED
    BY <2>2, <2>3 DEF PathInv
<1>5. DoneInv'
  <2>1. \A q \in Procs \ {p} : pc'[q] = "ok" => Waited(q)'
    BY <1>1 DEF RefInv, DoneInv, Waited, Others
  <2>2. pc'[p] = "ok" => Waited(p)'
    <3>1. CASE NoChildren(p)
      BY <1>1, <3>1 DEF NoChildren, Waited, MainInv
    <3>2. CASE RemoveFiles(p)
      <4>1. /\ DOMAIN child'[p] = DOMAIN child[p]
            /\ \A s \in DOMAIN child[p] : child'[p][s].st = child[p][s].st
        <5>1. ChildrenFit(Targets(p), DOMAIN fs)
          BY <1>1, <3>2, DetachedType DEF RemoveFiles
        <5> QED
          BY <5>1 DEF ChildrenFit
      <4>2. Waited(p)
        BY <1>1, <3>2 DEF RemoveFiles, Waited, MainInv
      <4>3. UNCHANGED job
        BY <3>2 DEF RemoveFiles
      <4> QED
        BY <4>1, <4>2, <4>3 DEF Waited
    <3>3. CASE ~(NoChildren(p) \/ RemoveFiles(p))
      BY <1>1, <3>3 DEF Main, CommandLineCheck, Fork, ForkFails, AllForked, Reap, Link,
                        LinkFails, TypeInv, DriverTypeOK
    <3> QED
      BY <3>1, <3>2, <3>3
  <2> QED
    BY <2>1, <2>2 DEF DoneInv
<1> QED
  BY <1>3, <1>4, <1>5

LEMMA ChildRefInv ==
  ASSUME RefInv, NEW p \in Procs, NEW s \in DOMAIN child[p], RunKcc(p, s)
  PROVE  OriginInv' /\ PathInv' /\ DoneInv'
<1>1. /\ LinkInv /\ TypeInv /\ UNCHANGED <<pc, cmd, job>> /\ Others(p)
      /\ child[p][s].st # "reaped"
  BY ChildOthers DEF RefInv, LinkInv
<1>2. s \in job[p].sources
  BY <1>1 DEF TypeInv, DriverTypeOK
<1>3. OriginInv'
  <2>1. \A q \in Procs : \A f : Output(q, f) => Output(q, f)'
    BY <1>1, OutputStays
  <2>2. ASSUME NEW f \in DOMAIN fs' PROVE fs'[f].by = {} \/ \E q \in Procs : Output(q, f)'
    <3>1. CASE Same(f)
      BY <2>1, <2>2, <3>1 DEF Same, RefInv, OriginInv
    <3>2. CASE f = Target(p, s) /\ f # NoPath
      <4>1. Output(p, f)
        BY <1>2, <3>2 DEF Output, Targets
      <4> QED
        BY <2>1, <4>1
    <3> QED
      BY <1>1, <3>1, <3>2, ChildTouches
  <2> QED
    BY <2>2 DEF OriginInv
<1>4. PathInv'
  <2>1. \A f \in DOMAIN fs' : f.name \in Seq(Word)
    BY <1>1, <1>2, ChildFiles, TargetName DEF RefInv, PathInv
  <2> QED
    BY <1>1, <2>1 DEF RefInv, PathInv
<1>5. DoneInv'
  <2>1. \A q \in Procs \ {p} : pc'[q] = "ok" => Waited(q)'
    BY <1>1 DEF RefInv, DoneInv, Waited, Others
  <2>2. pc'[p] # "ok"
    BY <1>1 DEF RefInv, DoneInv, Waited
  <2> QED
    BY <2>1, <2>2 DEF DoneInv
<1> QED
  BY <1>3, <1>4, <1>5

LEMMA NextRefInv == RefInv /\ NoSharing /\ [Next]_vars => RefInv'
<1> SUFFICES ASSUME RefInv, NoSharing, [Next]_vars PROVE RefInv'
  OBVIOUS
<1>1. LinkInv' /\ TempsInv'
  BY NextLinkInv, NextTempsInv DEF RefInv, NoSharing
<1>2. ASSUME NEW p \in Procs, Main(p) PROVE OriginInv' /\ PathInv' /\ DoneInv'
  BY <1>2, MainRefInv
<1>3. ASSUME NEW p \in Procs, Children(p) PROVE OriginInv' /\ PathInv' /\ DoneInv'
  BY <1>3, ChildRefInv DEF Children
<1>4. CASE UNCHANGED vars
  <2>1. UNCHANGED <<pc, cmd, job, child, fs>>
    BY <1>4 DEF vars
  <2>2. OriginInv'
    BY <2>1, OutputStays DEF RefInv, OriginInv
  <2>3. PathInv' /\ DoneInv'
    BY <2>1 DEF RefInv, PathInv, DoneInv, Waited
  <2> QED
    BY <1>1, <2>2, <2>3 DEF RefInv
<1> QED
  BY <1>1, <1>2, <1>3, <1>4 DEF Next, Finished, RefInv

-----------------------------------------------------------------------------
\* A step changes what the contract knows of p, and of no other invocation.
Concerns(p) ==
  \A q \in Procs \ {p} :
    Verdict(q)' = Verdict(q) /\ Parts(q)' = Parts(q) /\ Result(q)' = Result(q)

LEMMA Accepting ==
  ASSUME NEW p \in Procs, Concerns(p), Verdict(p) = "asked", Verdict(p)' = "working",
         Parts(p)' \subseteq Procs \X Path, Result(p)' = Result(p)
  PROVE  Contract!Accept(p)
BY DEF Contract!Accept, Concerns

LEMMA Delivering ==
  ASSUME NEW p \in Procs, Concerns(p), Verdict(p) = "working", Verdict(p)' = "ok",
         Parts(p)' = Parts(p), Result(p)' = [by |-> Parts(p), whole |-> TRUE]
  PROVE  Contract!Deliver(p)
BY DEF Contract!Deliver, Concerns

LEMMA GivingUp ==
  ASSUME NEW p \in Procs, Concerns(p), Verdict(p) \in {"asked", "working"},
         Verdict(p)' = "failed", Parts(p)' = Parts(p), Result(p)' \in {Result(p), Absent}
  PROVE  Contract!GiveUp(p)
BY DEF Contract!GiveUp, Concerns

LEMMA Stuttering ==
  ASSUME NEW p \in Procs, Concerns(p), Verdict(p)' = Verdict(p), Parts(p)' = Parts(p),
         Result(p)' = Result(p)
  PROVE  UNCHANGED Contract!vars
BY DEF Contract!vars, Concerns

\* The result of q is as before when its files are.
LEMMA ResultStays ==
  ASSUME UNCHANGED cmd, NEW q \in Procs,
         ~DoNotLink(cmd[q]) => Same(Exe(q)),
         DoNotLink(cmd[q]) =>
           \/ pc[q] # "ok" /\ pc'[q] # "ok"
           \/ /\ pc'[q] = pc[q] /\ job'[q] = job[q]
              /\ \A f \in Targets(q) : Same(f)
  PROVE  Result(q)' = Result(q)
<1>1. CASE ~DoNotLink(cmd[q])
  <2>1. Exe(q)' = Exe(q)
    BY DEF Exe
  <2>2. Result(q) = IF Exe(q) \in DOMAIN fs THEN fs[Exe(q)] ELSE Absent
    BY <1>1 DEF Result
  <2>3. Result(q)' = IF Exe(q)' \in DOMAIN fs' THEN fs'[Exe(q)'] ELSE Absent
    BY <1>1 DEF Result, Absent
  <2> QED
    BY <1>1, <2>1, <2>2, <2>3 DEF Same
<1>2. CASE DoNotLink(cmd[q]) /\ pc[q] # "ok" /\ pc'[q] # "ok"
  BY <1>2 DEF Result, Absent
<1>3. CASE /\ DoNotLink(cmd[q]) /\ pc[q] = "ok" /\ pc'[q] = "ok" /\ job'[q] = job[q]
           /\ \A f \in Targets(q) : Same(f)
  <2>1. Targets(q)' = Targets(q)
    BY <1>3, TargetStays DEF Targets
  <2>2. Result(q) = [by    |-> UNION {fs[f].by : f \in Targets(q) \cap DOMAIN fs},
                     whole |-> \A f \in Targets(q) : f \in DOMAIN fs /\ fs[f].whole]
    BY <1>3 DEF Result
  <2>3. Result(q)' = [by    |-> UNION {fs'[f].by : f \in Targets(q)' \cap DOMAIN fs'},
                      whole |-> \A f \in Targets(q)' : f \in DOMAIN fs' /\ fs'[f].whole]
    BY <1>3 DEF Result
  <2>4. {fs'[f].by : f \in Targets(q) \cap DOMAIN fs'} =
        {fs[f].by : f \in Targets(q) \cap DOMAIN fs}
    BY <1>3 DEF Same
  <2>5. (\A f \in Targets(q) : f \in DOMAIN fs' /\ fs'[f].whole) <=>
        (\A f \in Targets(q) : f \in DOMAIN fs /\ fs[f].whole)
    BY <1>3 DEF Same
  <2> QED
    BY <2>1, <2>2, <2>3, <2>4, <2>5
<1> QED
  BY <1>1, <1>2, <1>3

LEMMA ViewStays ==
  ASSUME UNCHANGED cmd, NEW q \in Procs
  PROVE  /\ pc'[q] = pc[q] => Verdict(q)' = Verdict(q)
         /\ job'[q] = job[q] => Parts(q)' = Parts(q) /\ Targets(q)' = Targets(q)
         /\ Exe(q)' = Exe(q)
BY TargetStays DEF Verdict, Parts, Targets, Exe

\* While nothing is shared, what one invocation does is nothing to the others.
LEMMA MainConcerns ==
  ASSUME RefInv, NoSharing, NEW p \in Procs, Main(p) PROVE Concerns(p)
<1>1. LinkInv /\ UNCHANGED cmd /\ Others(p)
  BY MainOthers DEF RefInv
<1> SUFFICES ASSUME NEW q \in Procs \ {p} PROVE Result(q)' = Result(q)
  BY <1>1, ViewStays DEF Concerns, Others
<1>2. pc'[q] = pc[q] /\ job'[q] = job[q]
  BY <1>1 DEF Others
<1>3. ~DoNotLink(cmd[q]) => Same(Exe(q))
  BY <1>1, MainTouches DEF NoSharing, ObjectsApart, OutputsApart
<1>4. ASSUME DoNotLink(cmd[q]), NEW f \in Targets(q) PROVE Same(f)
  <2>1. f \notin Targets(p)
    BY DEF Targets, NoSharing, ObjectsApart
  <2>2. ~DoNotLink(cmd[p]) => f # Exe(p)
    BY DEF NoSharing, ObjectsApart
  <2> QED
    BY <1>1, <2>1, <2>2, MainTouches
<1> QED
  BY <1>1, <1>2, <1>3, <1>4, ResultStays

LEMMA ChildStutters ==
  ASSUME RefInv, NoSharing, NEW p \in Procs, NEW s \in DOMAIN child[p], RunKcc(p, s)
  PROVE  UNCHANGED Contract!vars
<1>1. /\ LinkInv /\ TypeInv /\ UNCHANGED <<pc, cmd, job>> /\ child[p][s].st # "reaped"
  BY ChildOthers DEF RefInv, LinkInv
<1>2. s \in job[p].sources /\ pc[p] # "ok"
  BY <1>1 DEF TypeInv, DriverTypeOK, RefInv, DoneInv, Waited
<1>3. ASSUME NEW q \in Procs PROVE Result(q)' = Result(q)
  <2>1. ~DoNotLink(cmd[q]) => Same(Exe(q))
    <3>1. Target(p, s) # NoPath => Target(p, s) \in Targets(p)
      BY <1>2 DEF Targets
    <3> QED
      BY <1>1, <3>1, ChildTouches DEF NoSharing, ObjectsApart
  <2>2. ASSUME q # p, NEW f \in Targets(q) PROVE Same(f)
    BY <1>1, <1>2, <2>2, ChildTouches DEF NoSharing, ObjectsApart, Targets
  <2> QED
    BY <1>1, <1>2, <2>1, <2>2, ResultStays
<1>4. Concerns(p) /\ Verdict(p)' = Verdict(p) /\ Parts(p)' = Parts(p)
  BY <1>1, <1>3, ViewStays DEF Concerns
<1> QED
  BY <1>3, <1>4, Stuttering

\* What the children leave is what the command line asked for.
LEMMA ProductsMine ==
  ASSUME LinkInv, OutputsApart, NEW p \in Procs, job[p].sources = DOMAIN child[p],
         \A s \in DOMAIN child[p] : child[p][s].st = "reaped", ~Ended(p)
  PROVE  /\ \A f \in Targets(p) : f \in DOMAIN fs /\ fs[f].whole = TRUE
         /\ UNION {fs[f].by : f \in Targets(p)} = Parts(p)
<1>1. ASSUME NEW s \in job[p].sources, Target(p, s) # NoPath
      PROVE  /\ Target(p, s) \in DOMAIN fs
             /\ fs[Target(p, s)].by = {<<p, s>>} /\ fs[Target(p, s)].whole = TRUE
  <2>1. Mine(p, s, TRUE)
    BY <1>1 DEF LinkInv, ChildInv, Kept, OutputsApart
  <2> QED
    BY <2>1 DEF Mine
<1>2. \A f \in Targets(p) : \E s \in job[p].sources : f = Target(p, s) /\ Target(p, s) # NoPath
  BY DEF Targets
<1>3. \A s \in job[p].sources : Target(p, s) # NoPath => Target(p, s) \in Targets(p)
  BY DEF Targets
<1>4. \A f \in Targets(p) : f \in DOMAIN fs /\ fs[f].whole = TRUE
  BY <1>1, <1>2
<1>5. ASSUME NEW f \in Targets(p) PROVE fs[f].by \subseteq Parts(p)
  BY <1>1, <1>2 DEF Parts
<1>6. ASSUME NEW x \in Parts(p) PROVE \E f \in Targets(p) : x \in fs[f].by
  <2>1. PICK s \in job[p].sources : Target(p, s) # NoPath /\ x = <<p, s>>
    BY DEF Parts
  <2> QED
    BY <1>1, <1>3, <2>1
<1> QED
  BY <1>4, <1>5, <1>6

LEMMA LinkDelivers ==
  ASSUME RefInv, NoSharing, NEW p \in Procs, Link(p) PROVE Contract!Deliver(p)
<1>1. LinkInv /\ TypeInv /\ UNCHANGED <<cmd, job>> /\ Main(p)
  BY DEF RefInv, LinkInv, Link, Main
<1>2. pc[p] = "link" /\ pc'[p] = "remove" /\ ~DoNotLink(cmd[p])
  BY <1>1 DEF Link, TypeInv, DriverTypeOK, LinkInv, MainInv
<1>3. job[p].sources = DOMAIN child[p] /\ \A s \in DOMAIN child[p] : child[p][s].st = "reaped"
  BY <1>1, <1>2 DEF LinkInv, MainInv
<1>4. UNION {fs[f].by : f \in Targets(p)} = Parts(p)
  BY <1>1, <1>2, <1>3, ProductsMine DEF NoSharing, Ended
<1>5. ASSUME NEW l \in job[p].libraries PROVE fs[Resolve(cmd[p].cwd, l)].by = {}
  <2>1. Resolve(cmd[p].cwd, l) \in DOMAIN fs
    BY DEF Link, Linked
  <2>2. \A q \in Procs : ~Output(q, Resolve(cmd[p].cwd, l))
    BY DEF NoSharing, OutputsApart, Output
  <2> QED
    BY <2>1, <2>2 DEF RefInv, OriginInv
<1>6. UNION {fs[f].by : f \in Linked(p)} = Parts(p)
  <2>1. \A f \in Linked(p) :
          f \in Targets(p) \/ \E l \in job[p].libraries : f = Resolve(cmd[p].cwd, l)
    BY DEF Linked
  <2>2. \A f \in Linked(p) : f \in Targets(p) \/ fs[f].by = {}
    BY <1>5, <2>1
  <2>3. Targets(p) \subseteq Linked(p)
    BY DEF Linked
  <2>4. UNION {fs[f].by : f \in Linked(p)} = UNION {fs[f].by : f \in Targets(p)}
    BY <2>2, <2>3
  <2> QED
    BY <1>4, <2>4
<1>7. Result(p)' = [by |-> Parts(p), whole |-> TRUE]
  <2>1. Exe(p)' = Exe(p)
    BY <1>1, ViewStays
  <2>2. Result(p)' = IF Exe(p)' \in DOMAIN fs' THEN fs'[Exe(p)'] ELSE Absent
    BY <1>1, <1>2 DEF Result, Absent
  <2>3. Exe(p) \in DOMAIN fs' /\ fs'[Exe(p)] = [by |-> Parts(p), whole |-> TRUE]
    BY <1>6 DEF Link, Put
  <2> QED
    BY <2>1, <2>2, <2>3
<1>8. Verdict(p) = "working" /\ Verdict(p)' = "ok" /\ Parts(p)' = Parts(p)
  BY <1>1, <1>2, ViewStays DEF Verdict
<1>9. Concerns(p)
  BY <1>1, MainConcerns
<1> QED
  BY <1>7, <1>8, <1>9, Delivering

LEMMA ChildrenDeliver ==
  ASSUME RefInv, NoSharing, NEW p \in Procs, NoChildren(p), DoNotLink(cmd[p])
  PROVE  Contract!Deliver(p)
<1>1. LinkInv /\ TypeInv /\ UNCHANGED <<cmd, job, child, fs>> /\ Main(p)
  BY DEF RefInv, LinkInv, NoChildren, Main
<1>2. pc[p] = "wait" /\ pc'[p] = "ok"
  BY <1>1 DEF NoChildren, TypeInv, DriverTypeOK
<1>3. job[p].sources = DOMAIN child[p] /\ \A s \in DOMAIN child[p] : child[p][s].st = "reaped"
  BY <1>1, <1>2 DEF LinkInv, MainInv, NoChildren
<1>4. /\ \A f \in Targets(p) : f \in DOMAIN fs /\ fs[f].whole = TRUE
      /\ UNION {fs[f].by : f \in Targets(p)} = Parts(p)
  BY <1>1, <1>2, <1>3, ProductsMine DEF NoSharing, Ended
<1>5. Result(p)' = [by |-> Parts(p), whole |-> TRUE]
  <2>1. Targets(p)' = Targets(p)
    BY <1>1, ViewStays
  <2>2. Result(p)' = [by    |-> UNION {fs'[f].by : f \in Targets(p)' \cap DOMAIN fs'},
                      whole |-> \A f \in Targets(p)' : f \in DOMAIN fs' /\ fs'[f].whole]
    BY <1>1, <1>2 DEF Result
  <2>3. Targets(p) \cap DOMAIN fs = Targets(p)
    BY <1>4
  <2>4. (\A f \in Targets(p) : f \in DOMAIN fs /\ fs[f].whole) = TRUE
    BY <1>4
  <2> QED
    BY <1>1, <1>4, <2>1, <2>2, <2>3, <2>4
<1>6. Verdict(p) = "working" /\ Verdict(p)' = "ok" /\ Parts(p)' = Parts(p)
  BY <1>1, <1>2, ViewStays DEF Verdict
<1>7. Concerns(p)
  BY <1>1, MainConcerns
<1> QED
  BY <1>5, <1>6, <1>7, Delivering

\* Every step of main() is one of the contract, or none.
LEMMA MainContract ==
  ASSUME RefInv, NoSharing, NEW p \in Procs, Main(p)
  PROVE  Contract!Next \/ UNCHANGED Contract!vars
<1>1. LinkInv /\ TypeInv /\ MainInv /\ UNCHANGED cmd /\ Concerns(p)
  BY MainOthers, MainConcerns DEF RefInv, LinkInv
<1>2. ASSUME UNCHANGED fs, pc[p] # "ok", pc'[p] # "ok" PROVE Result(p)' = Result(p)
  BY <1>1, <1>2, ResultStays DEF Same
<1>3. CASE CommandLineCheck(p) /\ Accepts(cmd[p])
  <2>1. /\ pc[p] = "check" /\ pc'[p] = "fork" /\ UNCHANGED fs
        /\ job'[p].sources = Sources(cmd[p])
    BY <1>1, <1>3 DEF CommandLineCheck, TypeInv, DriverTypeOK
  <2>2. Verdict(p) = "asked" /\ Verdict(p)' = "working"
    BY <2>1 DEF Verdict
  <2>3. job'[p].sources \subseteq Path
    BY <2>1, SourcesPaths DEF RefInv, PathInv
  <2>4. Parts(p)' \subseteq Procs \X Path
    BY <2>3 DEF Parts
  <2> QED
    BY <1>1, <1>2, <2>1, <2>2, <2>4, Accepting DEF Contract!Next
<1>4. CASE \/ CommandLineCheck(p) /\ ~Accepts(cmd[p])
           \/ ForkFails(p)
           \/ Reap(p) /\ child' = child
  <2>1. /\ pc[p] \in {"check", "fork", "wait"} /\ pc'[p] = "failed"
        /\ UNCHANGED <<job, fs>>
    BY <1>1, <1>4 DEF CommandLineCheck, ForkFails, Reap, TypeInv, DriverTypeOK
  <2>2. Verdict(p) \in {"asked", "working"} /\ Verdict(p)' = "failed"
    BY <2>1 DEF Verdict
  <2>3. Parts(p)' = Parts(p)
    BY <1>1, <2>1, ViewStays
  <2> QED
    BY <1>1, <1>2, <2>1, <2>2, <2>3, GivingUp DEF Contract!Next
<1>5. CASE \/ Fork(p)
           \/ AllForked(p)
           \/ Reap(p) /\ child' # child
           \/ NoChildren(p) /\ ~DoNotLink(cmd[p])
  <2>1. /\ pc[p] \in {"fork", "wait"} /\ pc'[p] \in {"fork", "wait", "link"}
        /\ UNCHANGED <<job, fs>>
    BY <1>1, <1>5 DEF Fork, AllForked, Reap, NoChildren, TypeInv, DriverTypeOK
  <2>2. Verdict(p)' = Verdict(p)
    BY <2>1 DEF Verdict
  <2>3. Parts(p)' = Parts(p)
    BY <1>1, <2>1, ViewStays
  <2> QED
    BY <1>1, <1>2, <2>1, <2>2, <2>3, Stuttering
<1>6. CASE NoChildren(p) /\ DoNotLink(cmd[p])
  BY <1>6, ChildrenDeliver DEF Contract!Next
<1>7. CASE Link(p)
  BY <1>7, LinkDelivers DEF Contract!Next
<1>8. CASE LinkFails(p)
  <2>1. pc[p] = "link" /\ pc'[p] = "unlink" /\ UNCHANGED job /\ ~DoNotLink(cmd[p])
    BY <1>1, <1>8 DEF LinkFails, TypeInv, DriverTypeOK, MainInv
  <2>2. Verdict(p) = "working" /\ Verdict(p)' = "failed" /\ Parts(p)' = Parts(p)
    BY <1>1, <2>1, ViewStays DEF Verdict
  <2>3. Result(p)' \in {Result(p), Absent}
    <3>1. CASE UNCHANGED fs
      BY <1>2, <2>1, <3>1
    <3>2. CASE fs' = Without({Exe(p)})
      <4>1. Exe(p) \notin DOMAIN fs' /\ Exe(p)' = Exe(p)
        BY <1>1, <3>2, ViewStays DEF Without
      <4> QED
        BY <1>1, <2>1, <4>1 DEF Result, Absent
    <3> QED
      BY <1>8, <3>1, <3>2 DEF LinkFails
  <2> QED
    BY <1>1, <2>2, <2>3, GivingUp DEF Contract!Next
<1>9. CASE RemoveFiles(p)
  <2>1. /\ UNCHANGED job /\ ~DoNotLink(cmd[p])
        /\ \/ pc[p] = "remove" /\ pc'[p] = "ok"
           \/ pc[p] = "unlink" /\ pc'[p] = "failed"
    BY <1>1, <1>9 DEF RemoveFiles, TypeInv, DriverTypeOK, MainInv
  <2>2. Same(Exe(p))
    <3>1. Exe(p) \notin Targets(p)
      BY <2>1 DEF NoSharing, ObjectsApart
    <3> QED
      BY <1>9, <3>1 DEF RemoveFiles, Without, Same
  <2>3. Result(p)' = Result(p)
    BY <1>1, <2>1, <2>2, ResultStays
  <2>4. Verdict(p)' = Verdict(p) /\ Parts(p)' = Parts(p)
    BY <1>1, <2>1, ViewStays DEF Verdict
  <2> QED
    BY <1>1, <2>3, <2>4, Stuttering
<1> QED
  BY <1>3, <1>4, <1>5, <1>6, <1>7, <1>8, <1>9 DEF Main

LEMMA InitContract == Init => Contract!Init
BY DEF Init, Contract!Init, Verdict, Parts, NoJob

LEMMA NextContract ==
  RefInv /\ NoSharing /\ [Next]_vars => [Contract!Next]_(Contract!vars)
<1> SUFFICES ASSUME RefInv, NoSharing, [Next]_vars
             PROVE  Contract!Next \/ UNCHANGED Contract!vars
  OBVIOUS
<1>1. ASSUME NEW p \in Procs, Main(p) PROVE Contract!Next \/ UNCHANGED Contract!vars
  BY <1>1, MainContract
<1>2. ASSUME NEW p \in Procs, Children(p) PROVE UNCHANGED Contract!vars
  BY <1>2, ChildStutters DEF Children
<1>3. CASE UNCHANGED vars
  <2>1. UNCHANGED <<pc, cmd, job, child, fs>>
    BY <1>3 DEF vars
  <2>2. \A q \in Procs : /\ Verdict(q)' = Verdict(q) /\ Parts(q)' = Parts(q)
                         /\ Result(q)' = Result(q)
    BY <2>1, ViewStays, ResultStays DEF Same
  <2> QED
    BY <2>2 DEF Contract!vars
<1> QED
  BY <1>1, <1>2, <1>3 DEF Next, Finished

\* Where the invocations have no file in common, main(), its children and lld
\* keep the contract of a compiler, whatever fails or is killed: exit status 0
\* comes with a whole result of exactly the sources of this command line, any
\* other with none or the one there was.
THEOREM KeepsContract == Spec /\ []NoSharing => Delivers
<1>1. NoSharing => ObjectsApart
  BY DEF NoSharing
<1> QED
  BY <1>1, InitRefInv, NextRefInv, InitContract, NextContract, PTL
     DEF Spec, Delivers, Contract!Spec
=============================================================================
