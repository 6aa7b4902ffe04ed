----------------------------- MODULE MCScheduler -----------------------------
(***************************************************************************)
(* NewScheduler called with the game's systems in two orders, with three   *)
(* systems of any phases and any After lists of up to two entries, and     *)
(* with up to two systems whose ids are repeated or empty.                 *)
(***************************************************************************)
EXTENDS Scheduler

SystemId == {"a", "b", "c"}
AfterLists == UNION {[1 .. n -> SystemId] : n \in 0 .. 2}
Shape == [phase : {1, 2}, after : AfterLists]
Named(id, shape) == [id |-> id, phase |-> shape.phase, after |-> shape.after]
MCInputs ==
    {GameSystems, Reverse(GameSystems), <<>>}
    \union {<<Named("a", x), Named("b", y), Named("c", z)>> :
                x \in [phase : {1}, after : AfterLists], y \in Shape, z \in Shape}
    \union {<<Named(i, x), Named(j, y)>> :
                i \in {"a", "none"}, j \in {"a", "b", "none"},
                x \in Shape, y \in [phase : {1}, after : {<<>>, <<"a">>}]}
MCPhases == <<1, 2>>
=============================================================================
