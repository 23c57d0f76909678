------------------------------ MODULE Terminal ------------------------------
(***************************************************************************)
(* What the console promises to its readers: a line that is edited, and    *)
(* input that is read in the order of typing.  Only what is in the line    *)
(* can be erased, and what a reader is given was the oldest of the input.  *)
(***************************************************************************)
EXTENDS Naturals, Sequences

CONSTANTS Char, NL, EOF, Capacity

VARIABLES line, input, given

vars == <<line, input, given>>

Init == line = <<>> /\ input = <<>> /\ given \in Char

\* A character enters the line; an end of line or of file, or a full buffer,
\* hands the line over.
Type(c) ==
    /\ Len(line) + Len(input) < Capacity
    /\ IF c \in {NL, EOF} \/ Len(line) + Len(input) = Capacity - 1
       THEN line' = <<>> /\ input' = input \o Append(line, c)
       ELSE line' = Append(line, c) /\ UNCHANGED input
    /\ UNCHANGED given

Erase ==
    /\ line # <<>>
    /\ line' = SubSeq(line, 1, Len(line) - 1)
    /\ UNCHANGED <<input, given>>

Kill == line' = <<>> /\ UNCHANGED <<input, given>>

Read ==
    /\ input # <<>>
    /\ given' = Head(input)
    /\ input' = Tail(input)
    /\ UNCHANGED line

Next == Erase \/ Kill \/ Read \/ \E c \in Char : Type(c)

Spec == Init /\ [][Next]_vars
=============================================================================
