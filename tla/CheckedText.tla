----------------------------- MODULE CheckedText -----------------------------
(***************************************************************************)
(* What the module promises a monitored process: an instruction of its     *)
(* text runs only as the process wrote it and only after every byte of it  *)
(* was checked, and a change of a page takes the check of the whole page   *)
(* back.  How pages are closed, trapped and restored does not appear.      *)
(***************************************************************************)
EXTENDS InstrStream, Integers

CONSTANTS
    Addresses,     \* the monitored addresses
    PageCells(_),  \* the addresses of the page of an address
    Outside        \* the process runs code that is not monitored

VARIABLES
    text,     \* what the process stored
    checked,  \* the addresses checked since their page last changed
    at        \* the address of the next instruction, or Outside

vars == <<text, checked, at>>

Init == checked = {} /\ at = Outside /\ text \in [Addresses -> Cell]

Check ==
    /\ checked \subseteq checked' /\ checked' \subseteq Addresses
    /\ UNCHANGED <<text, at>>

Enter ==
    /\ at = Outside
    /\ at' \in Addresses
    /\ UNCHANGED <<text, checked>>

\* The instruction at "at" runs: all of it is checked; what is not a control
\* instruction is followed by the next one.
Run ==
    /\ at # Outside
    /\ \A a \in Addresses :
         at <= a /\ a < at + InstrLen(text[at]) => a \in checked
    /\ text[at] \notin Illegal
    /\ IF text[at] \in Control THEN at' \in Addresses \cup {Outside}
       ELSE at' \in {at + InstrLen(text[at]), Outside}
    /\ UNCHANGED <<text, checked>>

Signal ==
    /\ at' = Outside
    /\ UNCHANGED <<text, checked>>

Change ==
    /\ at = Outside
    /\ \E a \in Addresses :
         /\ text' \in [Addresses -> Cell]
         /\ \A b \in Addresses \ PageCells(a) : text'[b] = text[b]
         /\ checked' = checked \ PageCells(a)
    /\ UNCHANGED at

Next == Check \/ Enter \/ Run \/ Signal \/ Change

Spec == Init /\ [][Next]_vars

=============================================================================
