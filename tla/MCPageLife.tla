----------------------------- MODULE MCPageLife -----------------------------
(***************************************************************************)
(* Pages of four bytes for TLC.  "mov" takes an operand; the one at 3      *)
(* crosses from page 0 into page 1.                                        *)
(***************************************************************************)
EXTENDS PageLife, TLC

MCCell    == {"inv", "op", "mov", "jmp", "new"}
MCLong    == {"mov"}
MCControl == {"jmp"}
MCIllegal == {"inv"}

CrossingText == 0 :> "op" @@ 1 :> "jmp" @@ 2 :> "op" @@ 3 :> "mov"
             @@ 4 :> "op" @@ 5 :> "jmp" @@ 6 :> "op" @@ 7 :> "jmp"

StraightText == 0 :> "op" @@ 1 :> "op" @@ 2 :> "op" @@ 3 :> "mov"
             @@ 4 :> "op" @@ 5 :> "op" @@ 6 :> "jmp" @@ 7 :> "jmp"

\* A page 1 none of whose zones begins at its base and ends at its border,
\* even after one store.
LoopText     == 0 :> "op" @@ 1 :> "jmp" @@ 2 :> "op" @@ 3 :> "mov"
             @@ 4 :> "op" @@ 5 :> "jmp" @@ 6 :> "jmp" @@ 7 :> "op"

MCFresh == [a \in Addr |-> CASE a % 4 = 3 -> "jmp" [] OTHER -> "new"]

WriteOnly == [p \in Pages |-> "w"]
TextThenJit == 0 :> "x" @@ 1 :> "wx"

\* mprotect of pages that were not executed before, and of a WX page that
\* is sealed.
Sealing == UNION {{<<p, "w", "x">>, <<p, "w", "wx">>, <<p, "wx", "x">>} : p \in Pages}
=============================================================================
