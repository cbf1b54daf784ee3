------------------------ MODULE StatementSemantics ------------------------
(***************************************************************************)
(* The statements of a generated function (pochivm/lang_constructs.h,      *)
(* function_proto.h, ast_catch_throw.h): AstFunction::Validate, the check  *)
(* a module must pass before any execution mode prepares it, and the       *)
(* structured semantics of a body that passed, InterpImpl of the nodes.    *)
(*                                                                         *)
(* A statement is a record with a field k:                                 *)
(*   block, scope   body, the sequence of its statements                   *)
(*   if             cond, then, else (scopes; else may be NoElse)          *)
(*   while          cond, body (a scope)                                   *)
(*   for            init, step (blocks), cond, body (a scope)              *)
(*   break, continue                                                       *)
(*   return         val: "void", "literal", or "call", a value that is the *)
(*                  result of a call                                       *)
(*   decl           v, class, init: "none", or "call"                      *)
(*   call           mayThrow                                               *)
(*   throw          operand: "lvalue", "ctor", or "value"                  *)
(*   use            v, an expression statement that reads variable v       *)
(* A condition is a test, the conjunction or the disjunction of two        *)
(* conditions; a test with mayThrow calls a function first.  The identity  *)
(* of a node is its path from the function body.                           *)
(***************************************************************************)
EXTENDS Integers, Sequences, SequencesExt

NoElse == [k |-> "none"]

\* The object that the initializer of a declaration constructs, if any.
Constructed(n) == IF n.class THEN n.v ELSE ""

-----------------------------------------------------------------------------
(* AstFunction::Validate.  A traversal state t is a record                 *)
(*   ok, why, at  the verdict, and the first error and where it is         *)
(*   reach        _Reachability of the code after what was visited         *)
(*   scopes       the scopes on the traversal path, innermost last         *)
(*   home         the scope each declared variable belongs to              *)
(*   loops        the number of loops on the traversal path                *)
(*   clause       "init" or "step" inside a for-loop header, else "none"   *)
(*   void         whether the function returns void                        *)

REACHABLE == 0
CONTINUE  == 1
BREAK     == 2
RETURN    == 3

NewTraversal(void) ==
    [ok |-> TRUE, why |-> "", at |-> <<>>, reach |-> REACHABLE, scopes |-> <<>>,
     home |-> <<>>, loops |-> 0, clause |-> "none", void |-> void]

Report(t, why, p) == [t EXCEPT !.ok = FALSE, !.why = why, !.at = p]
Require(t, holds, why, p) == IF t.ok /\ ~holds THEN Report(t, why, p) ELSE t

\* A variable may be read where it was declared before, in a scope that is
\* still on the path.
CheckHome(t, v, p) == IF t.ok THEN Require(t, t.home[v] \in ToSet(t.scopes), "out of scope", p) ELSE t
CheckVariableUse(t, v, p) == CheckHome(Require(t, v \in DOMAIN t.home, "undeclared", p), v, p)

CheckReachable(t, n, p) ==
    Require(t, t.reach = REACHABLE \/ n.k \in {"block", "scope"}, "unreachable", p)

Declare(t, v) ==
    [t EXCEPT !.home = [x \in DOMAIN @ \cup {v} |-> IF x = v THEN Last(t.scopes) ELSE @[x]]]
CheckDeclaration(t, n, p) ==
    IF n.v \in DOMAIN t.home THEN Report(t, "redeclared", p) ELSE Declare(t, n.v)

CheckReturnType(t, n, p) == Require(t, (n.val = "void") <=> t.void, "return type", p)

CheckForHeader(t, n, p) ==
    Require(Require(t, t.clause = "none" \/ n.k \notin {"break", "continue", "return", "for", "while"},
                    "for header", p),
            t.clause # "step" \/ n.k # "decl", "for header", p)

\* The checks on one node, in the order of the code, before its children.
CheckDeclared(t, n, p) == IF t.ok /\ n.k = "decl" THEN CheckDeclaration(t, n, p) ELSE t
CheckUsed(t, n, p) == IF t.ok /\ n.k = "use" THEN CheckVariableUse(t, n.v, p) ELSE t
CheckReturn(t, n, p) == IF n.k = "return" THEN CheckReturnType(t, n, p) ELSE t
CheckInLoop(t, n, p) ==
    Require(t, n.k \notin {"break", "continue"} \/ t.loops > 0, "not in a loop", p)
OpenNode(t, n, p) ==
    [t EXCEPT !.scopes = IF n.k \in {"scope", "for"} THEN Append(@, p) ELSE @,
              !.loops  = IF n.k \in {"for", "while"} THEN @ + 1 ELSE @]
EnterNode(t, n, p) ==
    CheckUsed(CheckForHeader(CheckInLoop(CheckReturn(
        OpenNode(CheckDeclared(CheckReachable(t, n, p), n, p), n, p), n, p), n, p), n, p), n, p)

\* mutant: the else branch alone decides about the code after the if statement
ReachAfterElse(t, n, role, thenReach) ==
    CASE role = "then, no else" \/ n.k \in {"for", "while"} -> REACHABLE
      [] n.k = "return" -> RETURN
      [] n.k = "break"  -> BREAK
      [] n.k = "continue" -> CONTINUE
      [] OTHER -> IF role = "for body" /\ t.reach = CONTINUE THEN REACHABLE ELSE t.reach

ReachAfter(t, n, role, thenReach) ==
    LET a == CASE role = "else"          -> IF t.reach < thenReach THEN t.reach ELSE thenReach
               [] role = "then, no else" -> REACHABLE
               [] n.k = "return"         -> RETURN
               [] n.k = "break"          -> BREAK
               [] n.k = "continue"       -> CONTINUE
               [] n.k \in {"for", "while"} -> REACHABLE
               [] OTHER -> t.reach
    IN IF role = "for body" /\ a = CONTINUE THEN REACHABLE ELSE a

LeaveNode(t, n, role, thenReach) ==
    [t EXCEPT !.reach  = ReachAfter(t, n, role, thenReach),
              !.scopes = IF n.k \in {"scope", "for"} THEN Front(@) ELSE @,
              !.loops  = IF n.k \in {"for", "while"} THEN @ - 1 ELSE @,
              !.clause = IF role \in {"init", "step"} THEN "none" ELSE @]

RECURSIVE Visit(_, _, _, _)
VisitAll(t, ns, p) ==
    FoldLeft(LAMBDA u, i : Visit(u, ns[i], p \o <<i>>, "plain"), t, [i \in 1..Len(ns) |-> i])

\* The children of a node, in the order of ForEachChildren.
VisitChildren(t, n, p) ==
    CASE n.k \in {"block", "scope"} -> VisitAll(t, n.body, p)
      [] n.k = "if" ->
            IF n.else = NoElse THEN Visit(t, n.then, p \o <<1>>, "then, no else")
            ELSE Visit(Visit(t, n.then, p \o <<1>>, "then"), n.else, p \o <<2>>, "else")
      [] n.k = "while" -> Visit(t, n.body, p \o <<1>>, "plain")
      [] n.k = "for" ->
            Visit(Visit(Visit(t, n.init, p \o <<1>>, "init"), n.body, p \o <<2>>, "for body"),
                  n.step, p \o <<3>>, "step")
      [] OTHER -> t

\* t is the state after the checks on the node itself, then after its children.
EnterClause(t, role) == [t EXCEPT !.clause = IF role \in {"init", "step"} THEN role ELSE @]
VisitInside(t, n, p, role) == IF t.ok THEN VisitChildren(EnterClause(t, role), n, p) ELSE t
LeaveVisited(t, n, role, thenReach) == IF t.ok THEN LeaveNode(t, n, role, thenReach) ELSE t
EnterBranch(t, role) == [t EXCEPT !.reach = IF role = "else" THEN REACHABLE ELSE @]

Visit(t, n, p, role) ==
    IF ~t.ok THEN t
    ELSE LeaveVisited(VisitInside(EnterNode(EnterBranch(t, role), n, p), n, p, role), n, role, t.reach)

\* The verdict on a function body.
Verdict(t) == [ok |-> t.ok, why |-> t.why, at |-> t.at]
Validate(body, void) == Verdict(Visit(NewTraversal(void), body, <<>>, "plain"))

-----------------------------------------------------------------------------
(* What validation lets through and a generator of code asserts against:   *)
(* AstFunction::PrepareForFastInterp a body that generates nothing,        *)
(* AstFunction::EmitIR code behind a throw, whose reachability validation  *)
(* leaves as it was.                                                       *)

\* Something is generated for the statement.
RECURSIVE HasCode(_)
HasCode(n) ==
    CASE n.k \in {"block", "scope"} -> \E i \in DOMAIN n.body : HasCode(n.body[i])
      [] n.k = "decl" -> n.init # "none"
      [] OTHER -> TRUE

\* No path leads to what is behind the statement.
RECURSIVE NeverGoesOn(_)
NeverGoesOn(n) ==
    CASE n.k \in {"throw", "return", "break", "continue"} -> TRUE
      [] n.k \in {"block", "scope"} -> \E i \in DOMAIN n.body : NeverGoesOn(n.body[i])
      [] n.k = "if"  -> NeverGoesOn(n.then) /\ NeverGoesOn(n.else)
      [] n.k = "for" -> NeverGoesOn(n.init)
      [] OTHER -> FALSE

\* In a body that passed validation no such path ended in a jump alone: there
\* is a throw among the ends.
RECURSIVE HasCodeAfterThrow(_)
HasCodeAfterThrow(n) ==
    CASE n.k \in {"block", "scope"} ->
            \/ \E i \in DOMAIN n.body : HasCodeAfterThrow(n.body[i])
            \/ \E j \in DOMAIN n.body, i \in DOMAIN n.body :
                   i < j /\ NeverGoesOn(n.body[i]) /\ HasCode(n.body[j])
      [] n.k = "if"    -> HasCodeAfterThrow(n.then) \/ HasCodeAfterThrow(n.else)
      [] n.k = "while" -> HasCodeAfterThrow(n.body)
      [] n.k = "for"   -> \/ NeverGoesOn(n.init) \/ NeverGoesOn(n.step)
                          \/ \E b \in {n.init, n.body, n.step} : HasCodeAfterThrow(b)
      [] OTHER -> FALSE

-----------------------------------------------------------------------------
(* The structured semantics of a function body: InterpImpl of the          *)
(* statement nodes (and of logical_operator.h), and the execution scopes   *)
(* of destructor_helper.h, for one activation of one generated function.   *)
(*                                                                         *)
(* A machine state d is a record                                           *)
(*   frames  the InterpImpl calls in progress, innermost last              *)
(*   sig     the InterpControlSignal, or "Exn" while a C++ exception       *)
(*           unwinds                                                       *)
(*   val     the outcome of the condition just evaluated                   *)
(*   scopes  m_debugInterpScopeStack, sequences of C++ class variables     *)
(* The machine makes silent steps up to the next event: something the      *)
(* host program can observe, or a choice it makes.                         *)

Frame(k, n, p) == [k |-> k, n |-> n, p |-> p]
NoNode == [k |-> "none"]

InitialInterp(body) ==
    [frames |-> <<Frame("exec", body, <<>>)>>, sig |-> "None", val |-> FALSE, scopes |-> <<>>]

\* d with its innermost frame replaced by the frames fs.
Replace(d, fs) == [d EXCEPT !.frames = Front(@) \o fs]
Top(d) == Last(d.frames)

\* The statements ns from number i on.
Rest(ns, p, i) == [k |-> "rest", n |-> ns, p |-> p, i |-> i]

EnterScope(d, fs) ==
    [Replace(d, <<Frame("scope", NoNode, <<>>)>> \o fs) EXCEPT !.scopes = Append(@, <<>>)]

-----------------------------------------------------------------------------
(* Events                                                                  *)

Event(k, obj, p) == [k |-> k, obj |-> obj, at |-> p]
Silent == Event("silent", "", <<>>)

\* The events of a statement that has just been reached.
EventOf(n, p) ==
    CASE n.k = "call" -> Event(IF n.mayThrow THEN "checked call" ELSE "call", "", p)
      [] n.k = "use"  -> Event("use", n.v, p)
      [] n.k = "decl" /\ n.init = "call" -> Event("checked call", Constructed(n), p)
      [] n.k = "return" /\ n.val = "call" -> Event("checked call", "", p)
      [] n.k = "throw" /\ n.operand = "ctor" -> Event("checked call", "exn", p)
      [] n.k = "throw" /\ n.operand # "ctor" -> Event("throw", "", p)
      [] OTHER -> Silent

\* How the activation ends: the signals break and continue never get here.
Exit(d, void) ==
    CASE d.sig = "Exn" -> Event("propagate", "", <<>>)
      [] d.sig = "Return" \/ (d.sig = "None" /\ void) -> Event("return", "", <<>>)
      [] OTHER -> Event("trap", "", <<>>)

\* An exception that leaves a noexcept activation terminates the program.  The
\* host enters the interpreter at a noexcept C++ function: whether destructors
\* run before is up to the C++ implementation, and this is one that runs none.
InterpEvent(d, noexcept, void) ==
    CASE d.sig = "Exn" /\ noexcept -> Event("terminate", "", <<>>)
      [] d.frames = <<>> -> Exit(d, void)
      [] Top(d).k = "scope" ->
            IF Last(d.scopes) = <<>> THEN Silent ELSE Event("dtor", Last(Last(d.scopes)), <<>>)
      [] Top(d).k = "temporary" -> Event("dtor", "exn", <<>>)
      [] d.sig # "None" -> Silent
      [] Top(d).k = "exec" -> EventOf(Top(d).n, Top(d).p)
      [] Top(d).k = "throw" -> Event("throw", "", Top(d).p)
      [] Top(d).k = "test" ->
            Event(IF Top(d).n.mayThrow THEN "checked call" ELSE "branch", "", Top(d).p)
      [] Top(d).k = "outcome" -> Event("branch", "", Top(d).p)
      [] OTHER -> Silent

-----------------------------------------------------------------------------
(* Silent steps                                                            *)

EvalFrame(c, p) == Frame(IF c.k = "test" THEN "test" ELSE "logical", c, p)

\* A statement is entered.
Enter(d, n, p) ==
    CASE n.k = "block" -> Replace(d, <<Rest(n.body, p, 1)>>)
      [] n.k = "scope" -> EnterScope(d, <<Rest(n.body, p, 1)>>)
      [] n.k = "if"    -> Replace(d, <<Frame("if", n, p), EvalFrame(n.cond, p \o <<0>>)>>)
      [] n.k = "while" -> Replace(d, <<Frame("while tested", n, p), EvalFrame(n.cond, p \o <<0>>)>>)
      [] n.k = "for"   -> EnterScope(d, <<Frame("for started", n, p), Frame("exec", n.init, p \o <<1>>)>>)
      [] n.k = "break"    -> [Replace(d, <<>>) EXCEPT !.sig = "Break"]
      [] n.k = "continue" -> [Replace(d, <<>>) EXCEPT !.sig = "Continue"]
      [] n.k = "return"   -> [Replace(d, <<>>) EXCEPT !.sig = "Return"]
      [] n.k = "decl" -> Replace(d, <<>>)      \* an uninitialized primitive variable

\* One more of the statements of a block or scope.
NextStatement(d) ==
    LET f == Top(d)
    IN IF f.i > Len(f.n) THEN Replace(d, <<>>)
       ELSE Replace(d, <<[f EXCEPT !.i = @ + 1], Frame("exec", f.n[f.i], f.p \o <<f.i>>)>>)

\* A condition or statement inside the innermost frame has finished.
Resume(d) ==
    LET f == Top(d)
    IN CASE f.k = "rest" -> NextStatement(d)
         [] f.k = "logical" ->
               Replace(d, <<Frame("left done", f.n, f.p), EvalFrame(f.n.lhs, f.p \o <<1>>)>>)
         [] f.k = "left done" ->
               IF d.val = (f.n.k = "and") THEN Replace(d, <<EvalFrame(f.n.rhs, f.p \o <<2>>)>>)
               ELSE Replace(d, <<>>)
         [] f.k = "if" ->
               (IF d.val THEN Replace(d, <<Frame("exec", f.n.then, f.p \o <<1>>)>>)
                ELSE IF f.n.else # NoElse THEN Replace(d, <<Frame("exec", f.n.else, f.p \o <<2>>)>>)
                ELSE Replace(d, <<>>))
         [] f.k = "while tested" ->
               (IF d.val THEN Replace(d, <<Frame("while ran", f.n, f.p), Frame("exec", f.n.body, f.p \o <<1>>)>>)
                ELSE Replace(d, <<>>))
         [] f.k = "while ran" ->
               Replace(d, <<Frame("while tested", f.n, f.p), EvalFrame(f.n.cond, f.p \o <<0>>)>>)
         [] f.k \in {"for started", "for stepped"} ->
               Replace(d, <<Frame("for tested", f.n, f.p), EvalFrame(f.n.cond, f.p \o <<0>>)>>)
         [] f.k = "for tested" ->
               (IF d.val THEN Replace(d, <<Frame("for ran", f.n, f.p), Frame("exec", f.n.body, f.p \o <<2>>)>>)
                ELSE Replace(d, <<>>))
         [] f.k = "for ran" ->
               Replace(d, <<Frame("for stepped", f.n, f.p), Frame("exec", f.n.step, f.p \o <<3>>)>>)

\* A signal reaches a frame: a loop around the body takes break and continue,
\* every other frame is left.
Signal(d) ==
    CASE Top(d).k \in {"while ran", "for ran"} /\ d.sig = "Break" ->
            [Replace(d, <<>>) EXCEPT !.sig = "None"]
      [] Top(d).k \in {"while ran", "for ran"} /\ d.sig = "Continue" -> [d EXCEPT !.sig = "None"]
      [] OTHER -> Replace(d, <<>>)

InterpSilentStep(d) ==
    CASE Top(d).k = "scope" -> [Replace(d, <<>>) EXCEPT !.scopes = Front(@)]
      [] Top(d).k # "scope" /\ d.sig # "None" -> Signal(d)
      [] d.sig = "None" /\ Top(d).k = "exec" -> Enter(d, Top(d).n, Top(d).p)
      [] OTHER -> Resume(d)

-----------------------------------------------------------------------------
(* The steps after an event                                                *)

Raise(d) == [Replace(d, <<>>) EXCEPT !.sig = "Exn"]

\* The call of the innermost frame has returned.
Returned(d) ==
    LET f == Top(d)
    IN CASE f.k = "test" -> Replace(d, <<Frame("outcome", f.n, f.p)>>)
         [] f.k # "test" /\ f.n.k = "decl" ->
               [Replace(d, <<>>) EXCEPT !.scopes = IF ~f.n.class THEN @
                                                   ELSE [@ EXCEPT ![Len(@)] = Append(@, f.n.v)]]
         [] f.k # "test" /\ f.n.k = "return" -> [Replace(d, <<>>) EXCEPT !.sig = "Return"]
         [] f.k # "test" /\ f.n.k = "throw" ->
               Replace(d, <<Frame("temporary", NoNode, <<>>), Frame("throw", f.n, f.p)>>)
         [] OTHER -> Replace(d, <<>>)

Branched(d, outcome) == [Replace(d, <<>>) EXCEPT !.val = outcome]

\* The newest object of the innermost scope, or the temporary, is destroyed.
Destroyed(d) ==
    IF Top(d).k = "temporary" THEN Replace(d, <<>>)
    ELSE [d EXCEPT !.scopes[Len(d.scopes)] = Front(@)]
=============================================================================
