---------------------------- MODULE BundleSource -----------------------------
(***************************************************************************)
(* The promise of the trait BundleSource: a caller reads or skips through  *)
(* the bundle from its start to its end.  A read delivers at least one and *)
(* at most as many bytes as were asked for, and they are the next ones.    *)
(***************************************************************************)
EXTENDS Integers

VARIABLES
    length,    \* of the bundle
    position,  \* the byte of the bundle that comes next
    slice,     \* how many bytes the read in progress asks for, 0 if there is none
    result     \* of the read before: [kind, from, n]

vars == <<length, position, slice, result>>

NoResult == [kind |-> "none", from |-> 0, n |-> 0]
Data(from, n) == [kind |-> "data", from |-> from, n |-> n]
End == [kind |-> "end", from |-> 0, n |-> 0]
Failed == [kind |-> "failed", from |-> 0, n |-> 0]

Init == length \in Nat /\ position = 0 /\ slice = 0 /\ result = NoResult

Call ==
    /\ slice = 0 /\ slice' \in Nat \ {0}
    /\ result' = NoResult
    /\ UNCHANGED <<length, position>>

Deliver ==
    /\ \E n \in 1 .. slice :
        /\ position' = position + n
        /\ result' = Data(position, n)
    /\ slice' = 0
    /\ UNCHANGED length

\* "A return value of `0` indicates the end of the bundle."
ReachEnd ==
    /\ slice > 0 /\ position = length
    /\ slice' = 0 /\ result' = End
    /\ UNCHANGED <<length, position>>

\* A caller that goes on after a failure is promised nothing.
Fail ==
    /\ slice > 0
    /\ slice' = 0 /\ result' = Failed
    /\ position' \in Nat
    /\ UNCHANGED length

Skip ==
    /\ slice = 0
    /\ position' - position \in Nat
    /\ UNCHANGED <<length, slice, result>>

\* The caller has taken note of the result.
Take == result # NoResult /\ result' = NoResult /\ UNCHANGED <<length, position, slice>>

Next == Call \/ Deliver \/ ReachEnd \/ Fail \/ Skip \/ Take

Spec == Init /\ [][Next]_vars
=============================================================================
