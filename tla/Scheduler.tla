------------------------------ MODULE Scheduler ------------------------------
(***************************************************************************)
(* The order in which the systems of a tick run (server/application/       *)
(* schedular.go): Kahn's algorithm over the After lists of the systems of  *)
(* each phase.                                                             *)
(*                                                                         *)
(* A system is [id, phase, after]: after is the list that After() returns. *)
(* The algorithm is a state machine so that its invariant can be stated;   *)
(* what it returns is compared with the definition of a valid order.       *)
(***************************************************************************)
EXTENDS Integers, Sequences, FiniteSets, Functions, SequencesExt

CONSTANTS
    NoId,          \* the empty system id
    Phases,        \* the phases that the scheduler is asked to order, a sequence
    Inputs         \* the lists of systems that NewScheduler is called with

\* What After() and the arguments of NewScheduler are: lists.
IsList(x) == x \in Seq(Range(x))

ASSUME ListAssumption ==
    /\ IsList(Phases)
    /\ \A list \in Inputs :
           IsList(list) /\ \A i \in DOMAIN list : IsList(list[i].after)

\* The systems of the game, as NewWitheredApplication passes them: in each phase a chain, so that
\* the only valid order is the one that World has.
GameSystems == <<
    [id |-> "respawn",          phase |-> 1, after |-> <<>>],
    [id |-> "input_move",       phase |-> 1, after |-> <<"respawn">>],
    [id |-> "auto_shoot",       phase |-> 1, after |-> <<"input_move">>],
    [id |-> "bullet_move",      phase |-> 1, after |-> <<"auto_shoot">>],
    [id |-> "collision_damage", phase |-> 1, after |-> <<"bullet_move">>],
    [id |-> "bullet_cleanup",   phase |-> 1, after |-> <<"collision_damage">>],
    [id |-> "encode_broadcast", phase |-> 2, after |-> <<>>] >>

VARIABLES
    systems,       \* the argument
    pc,            \* "validate", "count", "sort", or the result: "ok" or an error code
    phase,         \* the index in Phases of the phase being sorted
    inDegree,
    queue,
    sorted,
    ordered        \* the results of the phases that are done

vars == <<systems, pc, phase, inDegree, queue, sorted, ordered>>

\* The k-th smallest of a set of positions.
Nth(where, k) == CHOOSE i \in where : Cardinality({j \in where : j <= i}) = k

\* The elements of a list at these positions, in its order.
Sublist(list, where) == [k \in 1 .. Cardinality(where) |-> list[Nth(where, k)]]

InPhase(p) == Sublist(systems, {i \in DOMAIN systems : systems[i].phase = p})
Ids(list) == [i \in DOMAIN list |-> list[i].id]
Current == InPhase(Phases[phase])

\* The system of this phase with the given id.
Lookup(id) == Current[CHOOSE i \in DOMAIN Current : Current[i].id = id]

Occurrences(list, x) == Cardinality({i \in DOMAIN list : list[i] = x})

Init ==
    /\ systems \in Inputs
    /\ pc = "validate" /\ phase = 1
    /\ inDegree = [id \in {} |-> 0] /\ queue = <<>> /\ sorted = <<>> /\ ordered = <<>>

\* NewScheduler's first loop stops at the first empty or repeated id.
Validate ==
    LET empty == {i \in DOMAIN systems : systems[i].id = NoId}
        repeated == {i \in DOMAIN systems : \E j \in 1 .. i - 1 : systems[j].id = systems[i].id}
        bad == empty \union repeated
    IN  /\ pc = "validate"
        /\ pc' = CASE bad = {} -> "count"
                   [] bad # {} /\ (CHOOSE i \in bad : \A j \in bad : i <= j) \in empty
                        -> "empty_system_id"
                   [] OTHER -> "duplicate_system_id"
        /\ UNCHANGED <<systems, phase, inDegree, queue, sorted, ordered>>

(***************************************************************************)
(* topologicalSort: how many dependencies each system waits for, and the   *)
(* ones that wait for none, in the order given.  A dependency outside the  *)
(* phase is not found.                                                     *)
(***************************************************************************)
Count ==
    LET ids == Ids(Current)
        known == \A i \in DOMAIN Current : Range(Current[i].after) \subseteq Range(ids)
        degree == [id \in Range(ids) |-> Len(Lookup(id).after)]
    IN  /\ pc = "count" /\ phase <= Len(Phases)
        /\ pc' = IF known THEN "sort" ELSE "missing_dependency"
        /\ inDegree' = degree
        /\ queue' = Sublist(ids, {i \in DOMAIN ids : degree[ids[i]] = 0})
        /\ sorted' = <<>>
        /\ UNCHANGED <<systems, phase, ordered>>

Released_Once(id, from) == IF from \in Range(Lookup(id).after) THEN 1 ELSE 0      \* mutant

\* dependents[from] holds id once for each time that from is in its After list.
Released(id, from) == Occurrences(Lookup(id).after, from)

\* The first of the queue is next; those that waited for nothing else follow it.
TakeNext ==
    LET ids == Ids(Current)
        current == Head(queue)
        left == [id \in DOMAIN inDegree |-> inDegree[id] - Released(id, current)]
    IN  /\ pc = "sort" /\ queue # <<>>
        /\ sorted' = Append(sorted, current)
        /\ inDegree' = left
        /\ queue' = Tail(queue) \o Sublist(ids,
                        {i \in DOMAIN ids : left[ids[i]] = 0 /\ inDegree[ids[i]] > 0})
        /\ UNCHANGED <<systems, pc, phase, ordered>>

SortEnds_Unchecked ==                                              \* mutant
    /\ pc = "sort" /\ queue = <<>>
    /\ pc' = "count"
    /\ ordered' = Append(ordered, sorted)
    /\ phase' = phase + 1
    /\ UNCHANGED <<systems, inDegree, queue, sorted>>

\* Fewer systems than were given: there is a cycle.
SortEnds ==
    /\ pc = "sort" /\ queue = <<>>
    /\ IF Len(sorted) = Len(Current)
       THEN pc' = "count" /\ ordered' = Append(ordered, sorted) /\ phase' = phase + 1
       ELSE pc' = "cyclic_dependency" /\ UNCHANGED <<ordered, phase>>
    /\ UNCHANGED <<systems, inDegree, queue, sorted>>

\* Every phase is sorted: NewScheduler returns.
Return ==
    /\ pc = "count" /\ phase > Len(Phases)
    /\ pc' = "ok"
    /\ UNCHANGED <<systems, phase, inDegree, queue, sorted, ordered>>

Next == Validate \/ Count \/ TakeNext \/ SortEnds \/ Return

Spec == Init /\ [][Next]_vars

-----------------------------------------------------------------------------
\* list is an order of the systems of phase p in which each follows its After list.
ValidOrder(list, p) ==
    /\ Len(list) = Len(InPhase(p)) /\ Range(list) = Range(Ids(InPhase(p)))
    /\ \A i \in DOMAIN InPhase(p) : \A dep \in Range(InPhase(p)[i].after) :
           \E j, k \in DOMAIN list :
               list[j] = dep /\ list[k] = InPhase(p)[i].id /\ j < k

(***************************************************************************)
(* For every list of systems, NewScheduler succeeds exactly when the ids   *)
(* are not empty and distinct and every phase has a valid order at all,    *)
(* and what it returns then is one: a tick runs every system once, after   *)
(* everything its After list names, whether or not the list names a system *)
(* twice.                                                                  *)
(***************************************************************************)
SchedulerCorrect ==
    LET distinct == /\ NoId \notin Range(Ids(systems))
                    /\ Cardinality(Range(Ids(systems))) = Len(systems)
        sortable == \A p \in Range(Phases) :
                       \E list \in SetToSeqs(Range(Ids(InPhase(p)))) : ValidOrder(list, p)
    IN  /\ pc = "ok" => /\ distinct
                        /\ \A k \in DOMAIN Phases : ValidOrder(ordered[k], Phases[k])
        /\ pc \in {"empty_system_id", "duplicate_system_id"} => ~distinct
        /\ pc \in {"missing_dependency", "cyclic_dependency"} => ~sortable

(***************************************************************************)
(* While it sorts, a system's degree is the number of entries of its After *)
(* list not sorted yet, so that it is queued exactly once, as soon as all  *)
(* of them are out.                                                        *)
(***************************************************************************)
DegreeIsWaiting ==
    pc = "sort" =>
        /\ \A id \in DOMAIN inDegree : inDegree[id] =
               Cardinality({i \in DOMAIN Lookup(id).after :
                                Lookup(id).after[i] \notin Range(sorted)})
        /\ \A id \in DOMAIN inDegree :
               Occurrences(sorted \o queue, id) = IF inDegree[id] = 0 THEN 1 ELSE 0

=============================================================================
