------------------------------ MODULE Toolchain ------------------------------
(***************************************************************************)
(* What a compiler that links promises to those who invoke it, without its *)
(* processes and its temporary objects: a command line asks for parts, and *)
(* in the end there is either a result made of exactly these parts, or a   *)
(* failure that has not left a half-made one.  No invocation touches what  *)
(* belongs to another.                                                     *)
(***************************************************************************)
CONSTANTS
  Procs,    \* the invocations
  Part,     \* what a result can be made of
  Absent    \* the content of a file that is not there

VARIABLES
  verdict,  \* of each invocation: "asked", "working", then "ok" or "failed"
  parts,    \* the parts its command line asks for
  result    \* the content of its output

vars == <<verdict, parts, result>>

Init ==
  /\ verdict = [p \in Procs |-> "asked"]
  /\ parts = [p \in Procs |-> {}]
  /\ DOMAIN result = Procs

Accept(p) ==
  /\ verdict[p] = "asked"
  /\ verdict' = [verdict EXCEPT ![p] = "working"]
  /\ parts' = [parts EXCEPT ![p] = parts'[p]] /\ parts'[p] \subseteq Part
  /\ UNCHANGED result

Deliver(p) ==
  /\ verdict[p] = "working"
  /\ verdict' = [verdict EXCEPT ![p] = "ok"]
  /\ result' = [result EXCEPT ![p] = [by |-> parts[p], whole |-> TRUE]]
  /\ UNCHANGED parts

GiveUp(p) ==
  /\ verdict[p] \in {"asked", "working"}
  /\ verdict' = [verdict EXCEPT ![p] = "failed"]
  /\ result' \in {result, [result EXCEPT ![p] = Absent]}
  /\ UNCHANGED parts

Next == \E p \in Procs : Accept(p) \/ Deliver(p) \/ GiveUp(p)

Spec == Init /\ [][Next]_vars
=============================================================================
