----------------------------- MODULE QueryPlans -----------------------------
(***************************************************************************)
(* Queries of the mini database (mini_db_backend/query_plan_ast.hpp): what *)
(* the generated function execute_query does, one action per operator of   *)
(* the plan and row.                                                       *)
(*                                                                         *)
(* A plan declares containers and runs stages.  A stage is a generator of  *)
(* rows, processors and an outputter, nested in one another as the loops   *)
(* and branches of the generated code are: `pc` is the operator whose turn *)
(* it is and `loops` are the loops around it.  Rows are addresses: `heap`  *)
(* holds what is there and `row` the variable of each row (m_rowMap).      *)
(***************************************************************************)
EXTENDS Integers, Sequences, FiniteSets, FiniteSetsExt, SequencesExt, Functions

CONSTANTS
    Plans,           \* [containers |-> ..., stages |-> ...], see Compiles
    Tables,          \* the contents of a table: sequences of rows
    InitialSize,     \* slots of a new hash table, a power of two
    ExpandThreshold, \* keys from which on it is doubled
    InitialMatches,  \* capacity of a new list of rows with the same key
    HashMod          \* hashes are computed modulo this power of two

ConstantsOK ==
    /\ InitialSize \in Nat /\ ExpandThreshold \in 1 .. InitialSize - 1
    /\ InitialMatches \in Nat \ {0} /\ HashMod % InitialSize = 0

(* Plans, as the classes of query_plan_ast.h describe them.                *)

\* SqlField
Field(r, i) == [op |-> "field", row |-> r, at |-> i, str |-> FALSE]

StringField(r, i) == [op |-> "field", row |-> r, at |-> i, str |-> TRUE]

\* SqlLiteral, SqlArithmeticOperator, SqlComparisonOperator, SqlBinaryLogicalOperator
Literal(n) == [op |-> "literal", value |-> n]

Add(a, b) == [op |-> "add", lhs |-> a, rhs |-> b]

Less(a, b) == [op |-> "less", lhs |-> a, rhs |-> b]

Or(a, b) == [op |-> "or", lhs |-> a, rhs |-> b]

\* SqlCompareWithStringLiteralOperator
StringIs(f, lit, mode) == [op |-> "string", lhs |-> f, lit |-> lit, mode |-> mode]

\* The initial values of a SqlAggregationRow and its updates, NoUpdate where none is set
Aggregation(init, updates) == [init |-> init, updates |-> updates]

NoUpdate == [op |-> "none"]

\* SqlTableContainer, TempTableContainer, AggregatedRowContainer
Table == [kind |-> "table"]

Temp == [kind |-> "temp"]

Single(agg) == [kind |-> "row", agg |-> agg]

\* HashTableContainer for groups and for joins
Groups(key, agg) == [kind |-> "groups", row |-> key[1].row, key |-> key, agg |-> agg]

JoinTable(key) == [kind |-> "join", row |-> key[1].row, key |-> key]

\* SqlFilterProcessor, SqlProjectionProcessor, LimitClauseProcessor, TableHashJoinProcessor
FilterBy(cond) == [op |-> "filter", cond |-> cond]

ProjectTo(r, values) == [op |-> "project", row |-> r, values |-> values]

LimitTo(n) == [op |-> "limit", limit |-> n]

JoinWith(name, fields) == [op |-> "join", from |-> name, fields |-> fields]

\* The generators: SqlTableRowGenerator, TempTableRowGenerator, AggregationRowGenerator,
\* GroupByHashTableGenerator
From(kind, name, r) == [kind |-> kind, from |-> name, row |-> r]

\* The outputters: TempTableRowOutputter and HashJoinHashTableOutputter,
\* AggregationOutputter, GroupByHashTableOutputter, SqlResultOutputter
Into(op, name, r) == [op |-> op, into |-> name, row |-> r]

IntoRow(name, agg) == [op |-> "row", into |-> name, aggRow |-> "A", agg |-> agg]

IntoGroups(name, r, agg) == [op |-> "groups", into |-> name, row |-> r, aggRow |-> "A", agg |-> agg]

PrintAll(values) == [op |-> "print", values |-> values]

\* QueryPlanPipelineStage and QueryPlanOrderByStage
Pipeline(gen, procs, out) == [op |-> "pipeline", gen |-> gen, procs |-> procs, out |-> out]

SortOn(name, by) == [op |-> "sort", on |-> name, by |-> by]

By(f, ascending) == [field |-> f, ascending |-> ascending]

-----------------------------------------------------------------------------
(* Values.  A field holds a number, or an array of characters that ends at *)
(* the first 0; what is behind it is whatever the memory holds.            *)

Text(chars) == SubSeq(chars, 1, (CHOOSE i \in DOMAIN chars : chars[i] = 0 /\ \A j \in 1 .. i - 1 : chars[j] # 0) - 1)

\* The comparisons of generated code stop at the first character that differs.
SameValue(f, a, b) == IF f.str THEN Text(a) = Text(b) ELSE a = b

\* SqlCompareWithStringLiteralOperator: a chain of && or || over the characters
\* of the literal, from the first on, and its end unless a prefix is asked for.
\* No character behind one that differs is read, so that none behind the end is.
\* The prefix `true` of the chain is dropped by the first character only, which
\* the empty literal has not: it is unequal to everything.
MeetsLiteral(chars, lit, mode) ==
    LET compared == IF mode = "START_WITH" THEN lit ELSE Append(lit, 0)
        differs == \E i \in DOMAIN compared \cap DOMAIN chars : chars[i] # compared[i]
    IN  IF mode = "NOT_EQUAL" THEN lit = <<>> \/ differs ELSE ~differs

\* SqlField, SqlLiteral and the operators on them, for the rows in env.
RECURSIVE Eval(_, _)
Eval(e, env) ==
    CASE e.op = "field"   -> env[e.row][e.at]
      [] e.op = "literal" -> e.value
      [] e.op = "add"     -> Eval(e.lhs, env) + Eval(e.rhs, env)
      [] e.op = "less"    -> Eval(e.lhs, env) < Eval(e.rhs, env)
      [] e.op = "or"      -> Eval(e.lhs, env) \/ Eval(e.rhs, env)
      [] e.op = "string"  -> MeetsLiteral(Eval(e.lhs, env), e.lit, e.mode)

RECURSIVE RowsOf(_)
RowsOf(e) == CASE e.op = "field"   -> {e.row}
               [] e.op \in {"literal", "none"} -> {}
               [] e.op = "string"  -> RowsOf(e.lhs)
               [] OTHER            -> RowsOf(e.lhs) \cup RowsOf(e.rhs)

EvalAll(exprs, env) == [i \in DOMAIN exprs |-> Eval(exprs[i], env)]

\* EmitUpdate: the fields one after the other, those without an expression kept.
UpdateRow(agg, name, env) ==
    FoldLeft(LAMBDA e, i : IF agg.updates[i].op = "none" THEN e
                           ELSE [e EXCEPT ![name][i] = Eval(agg.updates[i], e)],
             env, [i \in DOMAIN agg.updates |-> i])

-----------------------------------------------------------------------------
(* Hash tables (HashTableContainer).  A key is the address of a row, 0 is  *)
(* a slot without one; a value is the address of an aggregation row, 0     *)
(* when there is none yet, or the list of the rows with that key.          *)

\* The constants of the hash functions, modulo HashMod
StringFactor == 2055
FieldFactor  == 1043

HashOfValue(f, v) ==
    IF f.str THEN FoldLeft(LAMBDA h, c : (h * StringFactor + c) % HashMod, 0, Text(v)) ELSE v % HashMod

\* groupby_hashfn
Hash(fields, contents) ==
    FoldLeft(LAMBDA h, f : ((h + HashOfValue(f, contents[f.at])) * FieldFactor) % HashMod, 0, fields)

\* groupby_cmpfn
SameKey(fields, a, b) == \A i \in DOMAIN fields : SameValue(fields[i], a[fields[i].at], b[fields[i].at])

\* The slot after k steps of the probing, of lengths 1, 4, 9, ...
ProbeAt(hash, size, k) == (hash + (k * (k + 1) * (2 * k + 1)) \div 6) % size

\* Quadratic probing comes to every slot of a table of this size.
ProbingVisitsAll(size) ==
    {ProbeAt(0, size, k) : k \in 0 .. 2 * size} = 0 .. size - 1

\* The first of some slots on the way
FirstSlot(hash, size, stops) ==
    LET k == CHOOSE n \in 0 .. 2 * size : /\ ProbeAt(hash, size, n) \in stops
                                          /\ \A m \in 0 .. n - 1 : ProbeAt(hash, size, m) \notin stops
    IN  ProbeAt(hash, size, k)

NewHashTable == [keys |-> [i \in 0 .. InitialSize - 1 |-> 0], values |-> [i \in 0 .. InitialSize - 1 |-> 0],
                 size |-> InitialSize, threshold |-> ExpandThreshold, count |-> 0]

\* EmitProbe
Probe(ht, fields, contents, memory) ==
    FirstSlot(Hash(fields, contents) % ht.size, ht.size,
              {s \in 0 .. ht.size - 1 : ht.keys[s] = 0 \/ SameKey(fields, contents, memory[ht.keys[s]])})

\* Where EmitCheckExpand puts the keys of a table, and their values with them
Rehashed(ht, fields, memory) ==
    LET size == 2 * ht.size
        Move(new, i) ==
            IF ht.keys[i] = 0 THEN new
            ELSE LET s == FirstSlot(Hash(fields, memory[ht.keys[i]]) % size, size,
                                    {t \in 0 .. size - 1 : new.keys[t] = 0})
                 IN  [new EXCEPT !.keys[s] = ht.keys[i], !.values[s] = ht.values[i]]
        empty == [keys |-> [i \in 0 .. size - 1 |-> 0], values |-> [i \in 0 .. size - 1 |-> 0],
                  size |-> size, threshold |-> 2 * ht.threshold, count |-> ht.count]
    IN  FoldLeft(Move, empty, [i \in 1 .. ht.size |-> i - 1])

\* EmitCheckExpand
CheckExpand(ht, fields, memory) ==
    IF ht.count >= ht.threshold THEN Rehashed(ht, fields, memory) ELSE ht

Slots(ht) == {i \in 0 .. ht.size - 1 : ht.keys[i] # 0}

\* Mutant: the slot is looked up before the table is expanded
FindOrInsertTooEarly(ht, fields, address, memory, new) ==
    LET at == Probe(ht, fields, memory[address], memory)
        expanded == CheckExpand(ht, fields, memory)
    IN  [slot |-> at,
         table |-> IF expanded.keys[at] # 0 THEN expanded
                   ELSE [expanded EXCEPT !.keys[at] = address, !.values[at] = new, !.count = @ + 1]]

\* What GroupByHashTableOutputter and HashJoinHashTableOutputter begin with: the
\* slot of the key of the row at `address`, which is taken if the key is new.
FindOrInsert(ht, fields, address, memory, new) ==
    LET expanded == CheckExpand(ht, fields, memory)
        at == Probe(expanded, fields, memory[address], memory)
    IN  [slot |-> at,
         table |-> IF expanded.keys[at] # 0 THEN expanded
                   ELSE [expanded EXCEPT !.keys[at] = address, !.values[at] = new, !.count = @ + 1]]

\* A full list is moved to one of twice the capacity, then the row is appended.
PushMatch(list, address) ==
    [capacity |-> IF Len(list.rows) = list.capacity THEN 2 * list.capacity ELSE list.capacity,
     rows |-> Append(list.rows, address)]

-----------------------------------------------------------------------------
(* What may be compiled: the assertions on m_rowMap.                       *)

\* The rows that have a variable when operator k of a stage is generated
Bound(p, s, k) ==
    {s.gen.row} \cup {s.procs[i].row : i \in {j \in 1 .. k - 1 : s.procs[j].op = "project"}}
                \cup {p.containers[s.procs[i].from].row : i \in {j \in 1 .. k - 1 : s.procs[j].op = "join"}}

RowsOfAll(exprs) == UNION {RowsOf(exprs[i]) : i \in DOMAIN exprs}

OperatorCompiles(p, s, k) ==
    LET o == s.procs[k]
    IN  CASE o.op = "filter"  -> RowsOf(o.cond) \subseteq Bound(p, s, k)
          [] o.op = "project" -> RowsOfAll(o.values) \subseteq Bound(p, s, k)
          \* Break() stands in a loop
          [] o.op = "limit"   -> s.gen.kind # "row" \/ \E i \in 1 .. k - 1 : s.procs[i].op = "join"
          [] o.op = "join"    -> /\ p.containers[o.from].row \notin Bound(p, s, k)
                                 /\ RowsOfAll(o.fields) \subseteq Bound(p, s, k)
                                 /\ Len(o.fields) = Len(p.containers[o.from].key)

OutputterCompiles(p, s) ==
    LET bound == Bound(p, s, Len(s.procs) + 1)
        o == s.out
    IN  CASE o.op = "print"             -> RowsOfAll(o.values) \subseteq bound
          [] o.op \in {"temp", "build"} -> o.row \in bound
          [] o.op = "row"               -> RowsOfAll(o.agg.updates) \subseteq bound \cup {o.aggRow}
          [] o.op = "groups" -> /\ o.row \in bound /\ o.aggRow \notin bound
                                /\ RowsOfAll(o.agg.updates) \cup RowsOfAll(o.agg.init)
                                       \subseteq bound \cup {o.aggRow}

\* QueryPlan::CodeGen
Compiles(p) ==
    \A i \in DOMAIN p.stages :
        LET s == p.stages[i]
        IN  \/ s.op = "sort"
            \/ s.op = "pipeline" /\ OutputterCompiles(p, s) /\ \A k \in DOMAIN s.procs : OperatorCompiles(p, s, k)

-----------------------------------------------------------------------------
VARIABLES plan, table,
          stage, pc, loops, \* pc = 0: the innermost loop goes on
          row, count,       \* the variables of rows, the counters of limits
          heap, content,    \* rows by address, containers by name
          printed,
          before            \* history: what a stage finds when it begins

vars == <<plan, table, stage, pc, loops, row, count, heap, content, printed, before>>

Stage == plan.stages[stage]

Operator == Stage.procs[pc]

Running == stage <= Len(plan.stages)

AtOutputter(op) == Running /\ Stage.op = "pipeline" /\ pc = Len(Stage.procs) + 1 /\ Stage.out.op = op

AtOperator(op) == Running /\ Stage.op = "pipeline" /\ pc \in DOMAIN Stage.procs /\ Operator.op = op

\* The rows that the variables point to, by name
Env == [name \in DOMAIN row |-> heap[row[name]]]

\* Containers as sequences of addresses, in the order in which they are read
RowsIn(containers, contents, name) ==
    LET c == contents[name]
        kind == containers[name].kind
        slots == SetToSortSeq(Slots(c), <)
    IN  CASE kind \in {"table", "temp"} -> c
          [] kind = "row"    -> <<c>>
          [] kind = "groups" -> [i \in DOMAIN slots |-> c.values[slots[i]]]
          [] kind = "join"   -> FlattenSeq([i \in DOMAIN slots |-> c.values[slots[i]].rows])

\* What a stage begins with: the loop of its generator, except that a sort has none.
FirstLoops(p, n, contents) ==
    IF n > Len(p.stages) \/ p.stages[n].op = "sort" THEN <<>>
    ELSE LET gen == p.stages[n].gen
         IN  <<[body |-> 1, row |-> gen.row, rest |-> RowsIn(p.containers, contents, gen.from)]>>

FirstOperator(p, n) == IF n <= Len(p.stages) /\ p.stages[n].op = "sort" THEN 1 ELSE 0

Snapshot(p, memory, contents, output) ==
    [rows |-> [name \in DOMAIN contents |->
                 LET rows == RowsIn(p.containers, contents, name)
                 IN  [i \in DOMAIN rows |-> memory[rows[i]]]],
     printed |-> output]

\* EmitDeclaration of the containers: the row of an aggregation is made here.
Init ==
    /\ plan \in Plans /\ table \in Tables
    /\ stage = 1 /\ printed = <<>> /\ row = << >> /\ count = << >>
    /\ LET single == SetToSeq({name \in DOMAIN plan.containers : plan.containers[name].kind = "row"})
       IN  /\ heap = table \o [i \in DOMAIN single |-> EvalAll(plan.containers[single[i]].agg.init, << >>)]
           /\ content = [name \in DOMAIN plan.containers |->
                           LET kind == plan.containers[name].kind
                           IN  CASE kind = "table" -> [i \in DOMAIN table |-> i]
                                 [] kind = "temp"  -> << >>
                                 [] kind = "row"   -> Len(table) + (CHOOSE i \in DOMAIN single : single[i] = name)
                                 [] OTHER          -> NewHashTable]
    /\ loops = FirstLoops(plan, 1, content) /\ pc = FirstOperator(plan, 1)
    /\ before = Snapshot(plan, heap, content, printed)

\* A loop declares the variable of its row anew and runs its body.
NextRow ==
    /\ pc = 0 /\ loops # <<>> /\ Last(loops).rest # <<>>
    /\ row' = (Last(loops).row :> Head(Last(loops).rest)) @@ row
    /\ loops' = Append(Front(loops), [Last(loops) EXCEPT !.rest = Tail(@)])
    /\ pc' = Last(loops).body
    /\ UNCHANGED <<plan, table, stage, count, heap, content, printed, before>>

LoopEnds ==
    /\ pc = 0 /\ loops # <<>> /\ Last(loops).rest = <<>>
    /\ loops' = Front(loops)
    /\ UNCHANGED <<plan, table, stage, pc, row, count, heap, content, printed, before>>

Filter ==
    /\ AtOperator("filter")
    /\ pc' = IF Eval(Operator.cond, Env) THEN pc + 1 ELSE 0
    /\ UNCHANGED <<plan, table, stage, loops, row, count, heap, content, printed, before>>

\* Mutant: one row for all results of the projection
ProjectInPlace ==
    /\ AtOperator("project")
    /\ LET address == IF Operator.row \in DOMAIN row THEN row[Operator.row] ELSE Len(heap) + 1
       IN  /\ heap' = [a \in DOMAIN heap \cup {address} |->
                          IF a = address THEN EvalAll(Operator.values, Env) ELSE heap[a]]
           /\ row' = (Operator.row :> address) @@ row
    /\ pc' = pc + 1
    /\ UNCHANGED <<plan, table, stage, loops, count, content, printed, before>>

\* Every result of a projection is a new row: temporary tables keep its address.
Project ==
    /\ AtOperator("project")
    /\ heap' = Append(heap, EvalAll(Operator.values, Env))
    /\ row' = (Operator.row :> Len(heap')) @@ row
    /\ pc' = pc + 1
    /\ UNCHANGED <<plan, table, stage, loops, count, content, printed, before>>

\* The counter is one of the function, also when the limit stands in the loop
\* of a join, which is all that Break() leaves then.
Limit ==
    /\ AtOperator("limit")
    /\ LET n == 1 + (IF pc \in DOMAIN count THEN count[pc] ELSE 0)
       IN  /\ count' = (pc :> n) @@ count
           /\ IF n > Operator.limit
              THEN loops' = Front(loops) /\ pc' = 0
              ELSE pc' = pc + 1 /\ UNCHANGED loops
    /\ UNCHANGED <<plan, table, stage, row, heap, content, printed, before>>

\* TableHashJoinProcessor: a temporary row gets the fields to look for; the rows
\* that were stored with such a key are the rows of an inner loop.
Join ==
    /\ AtOperator("join")
    /\ LET to == plan.containers[Operator.from]
           ht == content[Operator.from]
           sought == [f \in {to.key[i].at : i \in DOMAIN to.key} |->
                        Eval(Operator.fields[CHOOSE i \in DOMAIN to.key : to.key[i].at = f], Env)]
           at == Probe(ht, to.key, sought, heap)
       IN  loops' = IF ht.keys[at] = 0 THEN loops
                    ELSE Append(loops, [body |-> pc + 1, row |-> to.row, rest |-> ht.values[at].rows])
    /\ pc' = 0
    /\ UNCHANGED <<plan, table, stage, row, count, heap, content, printed, before>>

ToTemp ==
    /\ AtOutputter("temp")
    /\ content' = [content EXCEPT ![Stage.out.into] = Append(@, row[Stage.out.row])]
    /\ pc' = 0
    /\ UNCHANGED <<plan, table, stage, loops, row, count, heap, printed, before>>

\* AggregationOutputter
ToRow ==
    /\ AtOutputter("row")
    /\ LET o == Stage.out
           address == content[o.into]
       IN  heap' = [heap EXCEPT ![address] =
                      UpdateRow(plan.containers[o.into].agg, o.aggRow, (o.aggRow :> @) @@ Env)[o.aggRow]]
    /\ pc' = 0
    /\ UNCHANGED <<plan, table, stage, loops, row, count, content, printed, before>>

\* GroupByHashTableOutputter: the first row of a group makes its aggregation
\* row; every row, the first included, updates it.
ToGroups ==
    /\ AtOutputter("groups")
    /\ LET o == Stage.out
           to == plan.containers[o.into]
           found == FindOrInsert(content[o.into], to.key, row[o.row], heap, 0)
           old == found.table.values[found.slot]
           address == IF old = 0 THEN Len(heap) + 1 ELSE old
           start == IF old = 0 THEN EvalAll(to.agg.init, Env) ELSE heap[old]
           updated == UpdateRow(to.agg, o.aggRow, (o.aggRow :> start) @@ Env)[o.aggRow]
       IN  /\ heap' = IF old = 0 THEN Append(heap, updated) ELSE [heap EXCEPT ![address] = updated]
           /\ content' = [content EXCEPT ![o.into] = [found.table EXCEPT !.values[found.slot] = address]]
    /\ pc' = 0
    /\ UNCHANGED <<plan, table, stage, loops, row, count, printed, before>>

\* HashJoinHashTableOutputter
ToJoin ==
    /\ AtOutputter("build")
    /\ LET o == Stage.out
           new == [capacity |-> InitialMatches, rows |-> <<>>]
           found == FindOrInsert(content[o.into], plan.containers[o.into].key, row[o.row], heap, new)
       IN  content' = [content EXCEPT ![o.into] =
                         [found.table EXCEPT !.values[found.slot] = PushMatch(@, row[o.row])]]
    /\ pc' = 0
    /\ UNCHANGED <<plan, table, stage, loops, row, count, heap, printed, before>>

\* What SqlResultPrinter shows of a value
Shown(e, env) == IF e.op = "field" /\ e.str THEN Text(Eval(e, env)) ELSE Eval(e, env)

ShowAll(exprs, env) == [i \in DOMAIN exprs |-> Shown(exprs[i], env)]

ToPrinter ==
    /\ AtOutputter("print")
    /\ printed' = Append(printed, ShowAll(Stage.out.values, Env))
    /\ pc' = 0
    /\ UNCHANGED <<plan, table, stage, loops, row, count, heap, content, before>>

\* The character by character comparison of orderby_cmpfn
TextLess(a, b) ==
    \E i \in DOMAIN a \cap DOMAIN b : /\ a[i] < b[i]
                                      /\ \A j \in 1 .. i - 1 : a[j] = b[j] /\ a[j] # 0

ValueLess(f, a, b) == IF f.str THEN TextLess(a, b) ELSE a < b

\* orderby_cmpfn: the first field that differs decides.
OrderedBefore(by, a, b) ==
    \E i \in DOMAIN by :
        LET f == by[i].field
        IN  /\ \A j \in 1 .. i - 1 : SameValue(by[j].field, a[by[j].field.at], b[by[j].field.at])
            /\ IF by[i].ascending THEN ValueLess(f, a[f.at], b[f.at]) ELSE ValueLess(f, b[f.at], a[f.at])

\* std::sort may leave rows of the same order as it likes, and all rows when the
\* comparison is not an order.
Sort ==
    /\ Running /\ Stage.op = "sort" /\ pc = 1
    /\ LET rows == content[Stage.on]
           Sorted(order) == \A i, j \in DOMAIN rows :
                                i < j => ~OrderedBefore(Stage.by, heap[rows[order[j]]], heap[rows[order[i]]])
           orders == SetToSeqs(DOMAIN rows)
           sorted == {order \in orders : Sorted(order)}
       IN  \E order \in IF sorted = {} THEN orders ELSE sorted :
               content' = [content EXCEPT ![Stage.on] = [i \in DOMAIN rows |-> rows[order[i]]]]
    /\ pc' = 0
    /\ UNCHANGED <<plan, table, stage, loops, row, count, heap, printed, before>>

StageIsDone == Running /\ pc = 0 /\ loops = <<>>

\* The next stage; the m_rowMap of this one is cleared.
EndStage ==
    /\ StageIsDone
    /\ stage' = stage + 1
    /\ loops' = FirstLoops(plan, stage', content) /\ pc' = FirstOperator(plan, stage')
    /\ row' = << >> /\ count' = << >>
    /\ before' = Snapshot(plan, heap, content, printed)
    /\ UNCHANGED <<plan, table, heap, content, printed>>

Next ==
    \/ NextRow \/ LoopEnds \/ Filter \/ Project \/ Limit \/ Join
    \/ ToTemp \/ ToRow \/ ToGroups \/ ToJoin \/ ToPrinter \/ Sort \/ EndStage

Spec == Init /\ [][Next]_vars

-----------------------------------------------------------------------------
(* What a stage promises, in terms of relations: streams of rows, without  *)
(* addresses, hash tables and loops.                                       *)

KeyOf(key, contents) ==
    [i \in DOMAIN key |-> IF key[i].str THEN Text(contents[key[i].at]) ELSE contents[key[i].at]]

\* Conditions, with strings compared as wholes
RECURSIVE Holds(_, _)
Holds(e, env) ==
    CASE e.op = "or" -> Holds(e.lhs, env) \/ Holds(e.rhs, env)
      [] e.op = "string" ->
            LET text == Text(Eval(e.lhs, env))
            IN  \/ e.mode = "EQUAL" /\ text = e.lit
                \/ e.mode = "NOT_EQUAL" /\ text # e.lit
                \/ e.mode = "START_WITH" /\ IsPrefix(e.lit, text)
      [] OTHER -> Eval(e, env)

After(o, stream) ==
    CASE o.op = "filter"  -> SelectSeq(stream, LAMBDA env : Holds(o.cond, env))
      [] o.op = "project" -> [i \in DOMAIN stream |-> (o.row :> EvalAll(o.values, stream[i])) @@ stream[i]]
      [] o.op = "limit"   -> SubSeq(stream, 1, Min({o.limit, Len(stream)}))
      [] o.op = "join"    ->
            LET to == plan.containers[o.from]
                Sought(env) == [i \in DOMAIN o.fields |-> Shown(o.fields[i], env)]
                Matches(env) == SelectSeq(before.rows[o.from], LAMBDA r : KeyOf(to.key, r) = Sought(env))
            IN  FlattenSeq([i \in DOMAIN stream |->
                    [j \in DOMAIN Matches(stream[i]) |-> (to.row :> Matches(stream[i])[j]) @@ stream[i]]])

\* The rows that arrive at the outputter
Stream ==
    LET from == before.rows[Stage.gen.from]
    IN  FoldLeft(LAMBDA stream, o : After(o, stream), [i \in DOMAIN from |-> Stage.gen.row :> from[i]], Stage.procs)

Aggregate(agg, name, start, envs) ==
    FoldLeft(LAMBDA r, env : UpdateRow(agg, name, (name :> r) @@ env)[name], start, envs)

\* Key and value of every slot in use
Entries(name, Value(_)) ==
    {<<KeyOf(plan.containers[name].key, heap[content[name].keys[s]]), Value(content[name].values[s])>>
        : s \in Slots(content[name])}

\* Key and the stream of its rows
KeysOf(o) ==
    LET Key(env) == KeyOf(plan.containers[o.into].key, env[o.row])
    IN  {<<Key(Stream[i]), SelectSeq(Stream, LAMBDA env : Key(env) = Key(Stream[i]))>> : i \in DOMAIN Stream}

RightOutput ==
    LET o == Stage.out
        rowsNow == Snapshot(plan, heap, content, printed).rows
    IN  CASE o.op = "temp"   -> rowsNow[o.into] = before.rows[o.into] \o [i \in DOMAIN Stream |-> Stream[i][o.row]]
          [] o.op = "print"  -> printed = before.printed \o [i \in DOMAIN Stream |-> ShowAll(o.values, Stream[i])]
          [] o.op = "row"    ->
                rowsNow[o.into] = <<Aggregate(plan.containers[o.into].agg, o.aggRow, before.rows[o.into][1], Stream)>>
          [] o.op = "groups" ->
                LET agg == plan.containers[o.into].agg
                IN  Entries(o.into, LAMBDA address : heap[address]) =
                        {<<k[1], Aggregate(agg, o.aggRow, EvalAll(agg.init, k[2][1]), k[2])>> : k \in KeysOf(o)}
          [] o.op = "build"  ->
                Entries(o.into, LAMBDA list : [i \in DOMAIN list.rows |-> heap[list.rows[i]]]) =
                    {<<k[1], [i \in DOMAIN k[2] |-> k[2][i][o.row]]>> : k \in KeysOf(o)}

\* A sorted temporary table has the rows that it had, and no pair out of order
\* in the first field that differs.
RightOrder ==
    LET now == Snapshot(plan, heap, content, printed).rows[Stage.on]
        was == before.rows[Stage.on]
        Count(rows, r) == Cardinality({i \in DOMAIN rows : rows[i] = r})
        Key(r, n) == KeyOf([i \in 1 .. n |-> Stage.by[i].field], r)
    IN  /\ \A i \in DOMAIN was : Count(now, was[i]) = Count(was, was[i])
        /\ Len(now) = Len(was)
        /\ \A i \in 1 .. Len(now) - 1, n \in DOMAIN Stage.by :
               Key(now[i], n - 1) = Key(now[i + 1], n - 1) =>
                   LET f == Stage.by[n].field
                       a == now[i][f.at]
                       b == now[i + 1][f.at]
                   IN  ~(IF Stage.by[n].ascending THEN ValueLess(f, b, a) ELSE ValueLess(f, a, b))

\* When a stage is done, its container or the output has what the relational
\* operators make of the rows that the stage found: in the order of the stream,
\* with each group in one aggregation row, every pair of a join once, and after
\* a limit the first rows only, wherever the limit stands
\* (QueryPlanPipelineStage and QueryPlanOrderByStage).  No plan has an empty string
\* literal: s != "" is true of every s (query_plan_ast.hpp:104).
StagesAreRight ==
    StageIsDone => IF Stage.op = "sort" THEN RightOrder ELSE RightOutput

TypeOK ==
    /\ plan \in Plans /\ table \in Tables
    /\ stage \in 1 .. Len(plan.stages) + 1
    /\ pc \in Nat /\ DOMAIN row \subseteq STRING
    /\ \A i \in DOMAIN loops : \A j \in DOMAIN loops[i].rest : loops[i].rest[j] \in DOMAIN heap
    /\ \A name \in DOMAIN row : row[name] \in DOMAIN heap
    /\ DOMAIN content = DOMAIN plan.containers

\* Hash tables (HashTableContainer): every key is where a probe for it ends,
\* through all expansions, so that no key is there twice; a table is never as
\* full as that a probe for a new key would not end; no list of matches is
\* written past its end; and no slot is left with uninitialized values.
TablesAreSound ==
    TypeOK /\ \A name \in {n \in DOMAIN content : plan.containers[n].kind \in {"groups", "join"}} :
        LET ht == content[name]
            key == plan.containers[name].key
        IN  /\ ht.count = Cardinality(Slots(ht)) /\ ht.count <= ht.threshold /\ ht.threshold < ht.size
            /\ \A s \in Slots(ht) : /\ Probe(ht, key, heap[ht.keys[s]], heap) = s
                                    /\ IF plan.containers[name].kind = "join"
                                       THEN Len(ht.values[s].rows) \in 1 .. ht.values[s].capacity
                                       ELSE ht.values[s] # 0
=============================================================================
