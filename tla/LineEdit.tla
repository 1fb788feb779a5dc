------------------------------ MODULE LineEdit ------------------------------
(***************************************************************************)
(* What the console promises of its input: the characters of the line that *)
(* is being edited can be taken back, those of finished lines are read in  *)
(* the order in which they were typed, and together they fit the buffer.   *)
(***************************************************************************)
EXTENDS Naturals, Sequences

CONSTANTS Char,         \* what can be typed and read
          Final,        \* the characters that finish a line
          Capacity      \* how many characters there is room for

VARIABLES ready,        \* finished, and not read yet
          edit          \* the line being edited

vars == <<ready, edit>>

Init == ready = <<>> /\ edit = <<>>

\* A character is typed: a line is finished by one of Final, or when there is no
\* more room.
Type(c) ==
    /\ Len(ready) + Len(edit) < Capacity
    /\ LET line == Append(edit, c) IN
       IF c \in Final \/ Len(ready) + Len(line) = Capacity
       THEN ready' = ready \o line /\ edit' = <<>>
       ELSE edit' = line /\ UNCHANGED ready

\* The last character, or the whole line, is taken back.
Erase == edit # <<>> /\ edit' = SubSeq(edit, 1, Len(edit) - 1) /\ UNCHANGED ready
Kill == edit' = <<>> /\ UNCHANGED ready

\* A reader takes some of what is ready.
Read == \E n \in 1 .. Len(ready) : ready' = SubSeq(ready, n + 1, Len(ready)) /\ UNCHANGED edit

Next == Erase \/ Kill \/ Read \/ \E c \in Char : Type(c)

Spec == Init /\ [][Next]_vars
=============================================================================
