------------------------------ MODULE MCQueries ------------------------------
(***************************************************************************)
(* Query plans for TLC.  A table has rows with two numbers and a string;   *)
(* what the strings have behind their ends differs.  Hash tables of four   *)
(* slots that expand at two keys, and lists of matches that grow at two    *)
(* rows, make the tables of the model as full as those of the code.        *)
(***************************************************************************)
EXTENDS QueryPlans

ASSUME ConstantsHold == ConstantsOK

\* hash tables of up to 256 slots; those of the code begin with 32
ASSUME RealTablesHaveAnEnd == \A n \in 2 .. 8 : ProbingVisitsAll(2 ^ n)

\* count(*), sum, and the sum of both, which an update computes from new values
CountAndSum(e) ==
    Aggregation(<<Literal(0), Literal(0), Literal(0)>>,
                <<Add(Field("A", 1), Literal(1)), Add(Field("A", 2), e), Add(Field("A", 1), Field("A", 2))>>)

\* the key of a group, and count(*)
KeyAndCount(key) == Aggregation(<<key, Literal(0)>>, <<NoUpdate, Add(Field("A", 2), Literal(1))>>)

Conditions ==
    {Less(Field("T", 1), Field("T", 2)),
     Or(Less(Literal(3), Field("T", 1)), StringIs(StringField("T", 3), <<1>>, "EQUAL"))}
    \cup {StringIs(StringField("T", 3), lit, mode) :
             lit \in {<<1>>, <<1, 2>>}, mode \in {"EQUAL", "NOT_EQUAL", "START_WITH"}}

Limits == 0 .. 2

AllOfT == PrintAll(<<Field("T", 1), Field("T", 2), StringField("T", 3)>>)

FilterPlans ==
    {[containers |-> [t |-> Table],
      stages |-> <<Pipeline(From("table", "t", "T"), <<FilterBy(c)>>, AllOfT)>>] : c \in Conditions}

\* select ... order by s, k limit n
OrderPlans ==
    {[containers |-> [t |-> Table, u |-> Temp],
      stages |-> <<Pipeline(From("table", "t", "T"),
                            <<ProjectTo("P", <<StringField("T", 3), Add(Field("T", 1), Field("T", 2))>>)>>,
                            Into("temp", "u", "P")),
                   SortOn("u", <<By(StringField("P", 1), ascending), By(Field("P", 2), ~ascending)>>),
                   Pipeline(From("temp", "u", "P"), <<LimitTo(n)>>, PrintAll(<<StringField("P", 1), Field("P", 2)>>))>>]
        : ascending \in BOOLEAN, n \in {1, 3}}

\* select count, sum ... group by
GroupPlans ==
    {LET agg == CountAndSum(Field("T", 2))
     IN  [containers |-> [t |-> Table, g |-> Groups(key, agg)],
          stages |-> <<Pipeline(From("table", "t", "T"), <<>>, IntoGroups("g", "T", agg)),
                       Pipeline(From("groups", "g", "A"), <<LimitTo(n)>>,
                                PrintAll(<<Field("A", 1), Field("A", 2), Field("A", 3)>>))>>]
        : key \in {<<Field("T", 1)>>, <<StringField("T", 3), Field("T", 1)>>}, n \in {1, 3}}

\* groups of the rows of a projection
ProjectedGroupPlans ==
    {LET agg == KeyAndCount(StringField("P", 1))
     IN  [containers |-> [t |-> Table, g |-> Groups(<<StringField("P", 1)>>, agg)],
          stages |-> <<Pipeline(From("table", "t", "T"), <<ProjectTo("P", <<StringField("T", 3)>>)>>,
                                IntoGroups("g", "P", agg)),
                       Pipeline(From("groups", "g", "A"), <<>>,
                                PrintAll(<<StringField("A", 1), Field("A", 2)>>))>>]}

\* select count, sum without a group
SumPlans ==
    {LET agg == CountAndSum(Field("T", 1))
     IN  [containers |-> [t |-> Table, a |-> Single(agg)],
          stages |-> <<Pipeline(From("table", "t", "T"), <<LimitTo(n)>>, IntoRow("a", agg)),
                       Pipeline(From("row", "a", "A"), <<FilterBy(Less(Literal(0), Field("A", 1)))>>,
                                PrintAll(<<Field("A", 1), Field("A", 2)>>))>>] : n \in Limits}

\* T join B on T.k = B.key, limit before and after the join
JoinPlans ==
    {[containers |-> [t |-> Table, j |-> JoinTable(<<Field("B", 1)>>)],
      stages |-> <<Pipeline(From("table", "t", "T"), <<ProjectTo("B", <<Field("T", column), Field("T", 2)>>)>>,
                            Into("build", "j", "B")),
                   Pipeline(From("table", "t", "T"), procs,
                            PrintAll(<<Field("T", 1), Field("B", 1), Field("B", 2)>>))>>]
        : column \in {1, 2},
          procs \in {<<JoinWith("j", <<Field("T", 1)>>)>>,
                     <<LimitTo(1), JoinWith("j", <<Field("T", 1)>>)>>,
                     <<JoinWith("j", <<Field("T", 1)>>), LimitTo(2)>>}}

\* on a number and a string, into a temporary table
StringJoinPlans ==
    {[containers |-> [t |-> Table, u |-> Temp, j |-> JoinTable(<<StringField("B", 1), Field("B", 2)>>)],
      stages |-> <<Pipeline(From("table", "t", "T"), <<ProjectTo("B", <<StringField("T", 3), Field("T", 2)>>)>>,
                            Into("build", "j", "B")),
                   Pipeline(From("table", "t", "T"), <<JoinWith("j", <<StringField("T", 3), Field("T", 2)>>)>>,
                            Into("temp", "u", "T"))>>]}

\* Plans that would not compile: a row that has no variable, one that has two
\* meanings, a Break() outside of loops.
BadPlans ==
    {[containers |-> [t |-> Table],
      stages |-> <<Pipeline(From("table", "t", "T"), <<>>, PrintAll(<<Field("P", 1)>>))>>],
     [containers |-> [t |-> Table, j |-> JoinTable(<<Field("T", 1)>>)],
      stages |-> <<Pipeline(From("table", "t", "T"), <<JoinWith("j", <<Field("T", 2)>>)>>, AllOfT)>>],
     [containers |-> [a |-> Single(CountAndSum(Literal(1)))],
      stages |-> <<Pipeline(From("row", "a", "A"), <<LimitTo(1)>>, PrintAll(<<Field("A", 1)>>))>>]}

ASSUME BadPlansAreRefused == \A p \in BadPlans : ~Compiles(p)

MCPlans ==
    {p \in UNION {FilterPlans, OrderPlans, GroupPlans, ProjectedGroupPlans, SumPlans, JoinPlans, StringJoinPlans}
        : Compiles(p)}

\* Keys 0, 4 and 8 begin in the same slot.
MCRows ==
    {<<0, 1, <<1, 0, 2>>>>, <<4, 0, <<1, 2, 0>>>>, <<4, 4, <<1, 0, 1>>>>, <<8, 1, <<0, 1, 0>>>>, <<1, 4, <<2, 0, 0>>>>}

\* All tables of up to three rows, and tables of four keys, which expand the
\* hash table once or twice
MCTables == SeqOf(MCRows, 3) \cup {t \in [1 .. 5 -> MCRows] : Cardinality({t[i][1] : i \in 1 .. 4}) = 4}
=============================================================================
