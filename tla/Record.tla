------------------------------- MODULE Record -------------------------------
(***************************************************************************)
(* What a variable of struct or union type is in C (n1570 6.2.5, 6.5.16,   *)
(* 6.7.2.1), without bytes: a value for each member.  To assign to a       *)
(* member gives it the value, converted to the width of the member, and    *)
(* leaves every member alone that no union joins with it, and whatever is  *)
(* around the variable.                                                    *)
(***************************************************************************)
EXTENDS Integers

VARIABLES
  there,   \* the variable has been defined
  val,     \* the value of each member, as the set of its one bits
  kind,    \* the width of each member and whether it is a signed bit-field
  joint,   \* the pairs of members that overlap by a union
  around,  \* what is stored next to the variable
  asked    \* the member that was assigned to, and the value before conversion

vars == <<there, val, kind, joint, around, asked>>

Word == 0..31

Convert(bits, k) ==
  (bits \cap 0..(k.width - 1))
    \cup (IF k.signed /\ k.width - 1 \in bits THEN {b \in Word : b >= k.width} ELSE {})

Init == there = FALSE

Define ==
  /\ ~there /\ there'
  /\ DOMAIN val' = DOMAIN kind'

Assign ==
  /\ there /\ there'
  /\ UNCHANGED <<kind, joint, around>>
  /\ asked'.of \in DOMAIN val /\ DOMAIN val' = DOMAIN val
  /\ val'[asked'.of] = Convert(asked'.value, kind[asked'.of])
  /\ \A m \in DOMAIN val :
       m = asked'.of \/ <<asked'.of, m>> \in joint \/ val'[m] = val[m]

Spec == Init /\ [][Define \/ Assign]_vars
=============================================================================
