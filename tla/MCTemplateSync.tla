--------------------------- MODULE MCTemplateSync ---------------------------
(* TemplateSync on three versions of two files. *)
EXTENDS TemplateSync, TLC

CONSTANTS hook, rules, a, b, mine, mark

\* rules loses a line, which returns, and gains one; hook is dropped and comes back as
\* another.
MCTemplate == <<
    hook :> {a}    @@ rules :> {a},
    hook :> Absent @@ rules :> {b},
    hook :> {b}    @@ rules :> {a, b} >>
=============================================================================
