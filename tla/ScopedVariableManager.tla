----------------------- MODULE ScopedVariableManager -----------------------
(***************************************************************************)
(* Destructor bookkeeping of the code generators                           *)
(* (pochivm/scoped_variable_manager.h, .._fastinterp.cpp), together with   *)
(* the snippets it produces (fastinterp/fastinterp_snippet.h) and the      *)
(* continuation placeholders of the boilerplate instances they consist of. *)
(*                                                                         *)
(* A generation state g is a record                                        *)
(*   code        the instances made so far, numbered 1, 2, ...             *)
(*   scopes      m_scopeStack: [id, objs], innermost last                  *)
(*   tree        m_fiExceptionDtorTree: [boundary, target] per level       *)
(*   catch       m_fiCurrentEHCatchBlock, 0 while there is none            *)
(*   targets     break and continue targets, innermost last                *)
(*   nontrivial  m_numNontrivialDestructorObjects                          *)
(*   placed      the variables that have been given a stack frame offset   *)
(*   noexcept    whether the function being generated is noexcept          *)
(*   failed      the assertions of the generator that did not hold         *)
(* 0 stands for a null instance pointer and for an empty placeholder.      *)
(***************************************************************************)
EXTENDS Integers, Sequences, SequencesExt

NullScope == <<0>>      \* the scope identity nullptr

NewGeneration(noexcept) ==
    [code |-> <<>>, scopes |-> <<>>, tree |-> <<>>, catch |-> 0, targets |-> <<>>,
     nontrivial |-> 0, placed |-> {}, noexcept |-> noexcept, failed |-> {}]

AssertThat(g, what, holds) == IF holds THEN g ELSE [g EXCEPT !.failed = @ \cup {what}]

-----------------------------------------------------------------------------
(* Instances and snippets.  Every generating operator returns [g, s], the  *)
(* new generation state and the snippet it made.                           *)

Instantiate(g, op, obj, at) ==
    [g EXCEPT !.code = Append(@, [op |-> op, obj |-> obj, at |-> at, next |-> 0, alt |-> 0])]

\* A placeholder is filled once, and never with a null pointer.
Populate(g, inst, ordinal, to) ==
    IF inst # 0 /\ to # 0
    THEN LET h == AssertThat(g, "placeholder populated twice", g.code[inst][ordinal] = 0)
         IN [h EXCEPT !.code[inst][ordinal] = to]
    ELSE AssertThat(g, "null continuation", FALSE)

EmptySnippet       == [entry |-> 0, tail |-> 0]
IsEmpty(s)         == s.entry = 0
IsUncontinuable(s) == s.entry # 0 /\ s.tail = 0

\* The snippet of the instance just made.
Latest(g) == [g |-> g, s |-> [entry |-> Len(g.code), tail |-> Len(g.code)]]
Emit(g, op, obj, at) == Latest(Instantiate(g, op, obj, at))
FIGetNoopBoilerplate(g) == Emit(g, "noop", "", <<>>)

AddContinuation(g, s, other) ==
    CASE IsEmpty(other) -> [g |-> g, s |-> s]
      [] IsEmpty(s) /\ ~IsEmpty(other) -> [g |-> g, s |-> other]
      [] OTHER -> [g |-> Populate(g, s.tail, "next", other.entry),
                   s |-> [entry |-> s.entry, tail |-> other.tail]]

Nothing(g) == [g |-> g, s |-> EmptySnippet]

\* r followed by what Gen makes in the state that r leaves.
Then(r, next) == AddContinuation(next.g, r.s, next.s)
After(r, Gen(_)) == Then(r, Gen(r.g))

NonEmpty(r) == IF IsEmpty(r.s) THEN FIGetNoopBoilerplate(r.g) ELSE r

-----------------------------------------------------------------------------
(* Scopes, objects and targets                                             *)

NumNontrivial(objs) == Len(SelectSeq(objs, LAMBDA o : o.class))

PushScope(g, id) == [g EXCEPT !.scopes = Append(@, [id |-> id, objs |-> <<>>])]

PushObject(g, obj) ==
    [g EXCEPT !.scopes[Len(g.scopes)].objs = Append(@, obj),
              !.nontrivial = @ + NumNontrivial(<<obj>>)]

PopScope(g, id) ==
    LET h == AssertThat(AssertThat(g, "scope popped out of order", Last(g.scopes).id = id),
                        "tree deeper than the scopes", Len(g.tree) <= Len(g.scopes))
    IN [h EXCEPT !.scopes = Front(@),
                 !.nontrivial = @ - NumNontrivial(Last(g.scopes).objs),
                 !.tree = IF Len(@) > Len(g.scopes) - 1 THEN Front(@) ELSE @]

PushTargets(g, breakTo, continueTo, scope) ==
    [g EXCEPT !.targets = Append(@, [break |-> breakTo, continue |-> continueTo, scope |-> scope])]

PopTargets(g) == [g EXCEPT !.targets = Front(@)]

AssertInCleanState(g) ==
    AssertThat(g, "manager not clean",
               /\ g.nontrivial = 0 /\ g.scopes = <<>>
               /\ g.targets = <<>> /\ g.tree = <<>>)

-----------------------------------------------------------------------------
(* Destructor sequences                                                    *)

\* Only C++ class objects have a destructor to call.
DestructorSnippet(g, obj) ==
    IF obj.class THEN Emit(g, "dtor", obj.v, <<>>) ELSE Nothing(g)

\* mutant: the destructors of a scope run in the order of the declarations
DestructorsInOrder(r, objs) ==
    FoldLeft(LAMBDA acc, obj : After(acc, LAMBDA g : DestructorSnippet(g, obj)), r, objs)

\* r followed by the destructors of objs, the newest object first.
Destructors(r, objs) ==
    FoldLeft(LAMBDA acc, obj : After(acc, LAMBDA g : DestructorSnippet(g, obj)), r, Reverse(objs))

\* Innermost scope first, up to and including the scope boundary; every scope
\* when boundary is the null scope.
FIGenerateDestructorSequenceUntilScope(g, boundary) ==
    LET levels == Len(g.scopes)
        hits   == {i \in 1..levels : g.scopes[i].id = boundary}
        low    == IF hits = {} THEN 1 ELSE CHOOSE i \in hits : \A j \in hits : j <= i
        h      == AssertThat(g, "boundary scope", (boundary = NullScope) <=> (hits = {}))
    IN FoldLeft(LAMBDA acc, i : Destructors(acc, g.scopes[i].objs),
                Nothing(h), [k \in 1..(levels + 1 - low) |-> levels + 1 - k])

-----------------------------------------------------------------------------
(* Exception cleanup                                                       *)

\* What an exception does when it leaves the function, made at most once.
WithCatch(g) == [g EXCEPT !.catch = Len(g.code)]
CatchBlock(g) ==
    IF g.catch # 0 THEN g
    ELSE WithCatch(Instantiate(g, IF g.noexcept THEN "terminate" ELSE "propagate", "", <<>>))

\* The block r goes on to parent, and is the entry of tree level level for the
\* first boundary objects of its scope.
Record(r, parent, level, boundary) ==
    [Populate(r.g, r.s.tail, "next", parent)
        EXCEPT !.tree = Append(SubSeq(@, 1, level - 1), [boundary |-> boundary, target |-> r.s.entry])]

\* Code that destroys the objects of a scope from number first on.
DtorBlock(g, level, first, parent) ==
    LET objs == g.scopes[level].objs
    IN Record(NonEmpty(Destructors(Nothing(g), SubSeq(objs, first, Len(objs)))), parent, level, Len(objs))

TreeUpToDate(g) ==
    \A i \in 1..(Len(g.tree) - 1) : g.tree[i].boundary = Len(g.scopes[i].objs)

\* A root, if there is none.
Root(g) == IF g.tree # <<>> THEN g ELSE DtorBlock(g, 1, 1, g.catch)

\* A block for what was pushed into the deepest scope since its block was made.
TopUp(g) ==
    LET m == Len(g.tree)
        pushed == Len(g.scopes[m].objs)
    IN IF g.tree[m].boundary < pushed
       THEN DtorBlock(g, m, g.tree[m].boundary + 1, g.tree[m].target)
       ELSE AssertThat(g, "boundary beyond the scope", g.tree[m].boundary = pushed)

\* A block for each scope opened since.
Deepen(g) ==
    FoldLeft(LAMBDA h, i : DtorBlock(h, i, 1, h.tree[i - 1].target), g,
             [k \in 1..(Len(g.scopes) - Len(g.tree)) |-> Len(g.tree) + k])

\* The tree reaches the current position.
DtorTree(g) == Deepen(TopUp(Root(g)))

\* The entry point an exception raised at the current position goes to:
\* [g, to].
EntryOf(g) ==
    [g |-> AssertThat(g, "stale tree", Len(g.tree) = Len(g.scopes) /\ TreeUpToDate(g)),
     to |-> Last(g.tree).target]
EntryFor(g) ==
    IF g.nontrivial = 0 \/ g.noexcept
    THEN [g |-> g, to |-> g.catch]
    ELSE EntryOf(DtorTree(AssertThat(g, "stale tree", TreeUpToDate(g))))

FIGenerateEHEntryPointForCurrentPosition(g) ==
    EntryFor(CatchBlock(AssertThat(g, "no scope", g.scopes # <<>>)))
=============================================================================
