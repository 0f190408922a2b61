----------------------------- MODULE MCPlanner ------------------------------
(* Instances of Planner for TLC: the queries asked. *)
EXTENDS Planner

MCTables == [A |-> <<"a1", "a2">>, B |-> <<"b1", "b2">>, C |-> <<"c1", "c2">>, D |-> <<"d1">>]

A == Scan("A", 1)
B == Scan("B", 2)
C == Scan("C", 3)
D == Scan("D", 4)

\* A relation over A, with the names of a column to join by and of another.
Relation(op, key, other) == [op |-> op, key |-> key, other |-> other]

Plain == Relation(A, "a1", "a2")

Renamed == Relation(Project(A, << <<"a1", "k">>, <<"a2", "o">> >>), "k", "o")

Relations ==
  {Plain,
   Relation(Filter(A, <<Pred("a2", "LT", Literal)>>), "a1", "a2"),
   Relation(Sort(A, <<"a2">>), "a1", "a2"),
   Relation(Filter(Sort(A, <<"a1">>), <<Pred("a1", "LT", "a2")>>), "a1", "a2"),
   Relation(Filter(Cross(A, D), <<Pred("a2", "EQ", "d1")>>), "a1", "d1")}

\* The second exchanges the names of the columns.
Renamings ==
  {Renamed,
   Relation(Project(A, << <<"a1", "a2">>, <<"a2", "a1">> >>), "a2", "a1"),
   Relation(Sort(Filter(Renamed.op, <<Pred("o", "LT", Literal)>>), <<"k">>), "k", "o"),
   Relation(Project(Renamed.op, << <<"o", "p">>, <<"k", "q">> >>), "q", "p")}

\* Predicates that join a relation r to B and C: in a chain, by two to one leaf,
\* all to all, to one of them only, to none, with local ones among them.
Joins(r) ==
  { << Pred(r.key, "EQ", "b1"), Pred("c1", "EQ", "b2") >>,
    << Pred("c1", "EQ", r.key), Pred("b1", "LT", r.other), Pred("b2", "EQ", Literal) >>,
    << Pred("b1", "EQ", r.key), Pred("b2", "EQ", "c2"), Pred("c1", "LT", r.other) >>,
    << Pred(r.key, "EQ", "c1"), Pred(r.other, "LT", "c2"), Pred(r.other, "LT", r.key) >>,
    << Pred(r.other, "LT", Literal), Pred("c1", "LT", "c2") >> }

Blocks(r) ==
  {Filter(cross, preds) : preds \in Joins(r),
     cross \in {Cross(Cross(r.op, B), C), Cross(C, Cross(r.op, B))}}

\* What a query may have above a block: nothing, a sort, a projection that keeps
\* both columns of r, and a sort by a column that is projected away.
Tops(r, block) ==
  {block, Sort(block, <<r.other, "b1">>),
   Project(block, << <<r.other, "x">>, <<"c2", "y">>, <<r.key, r.key>> >>),
   Project(Sort(block, <<"b2", r.key>>), << <<r.other, "x">> >>)}

\* Projections that may leave a column of r without use.
Narrow(r, block) ==
  {Project(block, << <<"b2", "x">> >>), Project(block, << <<r.key, "x">> >>)}

BlockQueries(relations) ==
  UNION {UNION {Tops(r, block) : block \in Blocks(r)} : r \in relations}

NarrowQueries(relations) ==
  UNION {UNION {Narrow(r, block) : block \in Blocks(r)} : r \in relations}

\* One relation, products without a filter, a block inside a product or a block.
OtherQueries ==
  {Project(Filter(A, <<Pred("a1", "LT", Literal)>>), << <<"a2", "x">> >>),
   Sort(Filter(Renamed.op, <<Pred("k", "LT", "o")>>), <<"o">>),
   Filter(Sort(Cross(A, B), <<"b1">>), <<Pred("a1", "EQ", "b1")>>),
   Project(Filter(Cross(Filter(Cross(A, B), <<Pred("a1", "EQ", "b1")>>), C),
                  <<Pred("b2", "EQ", "c1")>>), << <<"a2", "x">> >>),
   Project(Cross(Filter(Cross(B, C), <<Pred("b2", "EQ", "c1")>>), Renamed.op), << <<"k", "x">> >>),
   Sort(Cross(A, B), <<"a2">>)}

\* Four leaves: in a ring with a chord, in a star, and in two pairs.
FourLeafQueries ==
  {Filter(Cross(Cross(Cross(A, B), C), D), preds) : preds \in
     { << Pred("a1", "EQ", "b1"), Pred("b2", "EQ", "c1"), Pred("c2", "EQ", "d1"),
          Pred("d1", "LT", "a2"), Pred("a2", "LT", "c1") >>,
       << Pred("d1", "EQ", "a1"), Pred("d1", "EQ", "b1"), Pred("c1", "EQ", "d1") >>,
       << Pred("a1", "EQ", "b1"), Pred("c1", "EQ", "d1") >> }}

\* Names that no leaf has, or that two have.
UnclearQueries ==
  {Filter(Cross(A, B), <<Pred("z", "EQ", "b1")>>),
   Filter(Cross(A, B), <<Pred("b1", "EQ", "z")>>)}
  \cup {Filter(Cross(Cross(A, B), Cross(C, Scan("A", 5))), preds) : preds \in
          { << Pred("a1", "EQ", "b1"), Pred("c1", "EQ", "b2") >>,
            << Pred("c1", "LT", "a1"), Pred("c1", "EQ", "b2"), Pred("b1", "LT", Literal) >> }}
  \cup {Project(Filter(Cross(Cross(B, A), Cross(C, Scan("A", 5))),
                       << Pred("b1", "EQ", "c1"), Pred("a1", "EQ", "b2") >>), << <<"c2", "x">> >>)}

MCQueries ==
  BlockQueries(Relations \cup Renamings) \cup NarrowQueries(Relations)
    \cup OtherQueries \cup FourLeafQueries \cup UnclearQueries

\* With projected relations of which the query uses only a part.
NarrowedQueries == NarrowQueries(Relations \cup Renamings)
=============================================================================
