---------------------------- MODULE QueryAlgebra ----------------------------
(***************************************************************************)
(* Queries and physical plans without their rows.  A query is a tree of    *)
(* QueryOp (common/src/query.rs).  A plan, the tree of operators that      *)
(* answers it, is what it computes from any tables: the uses of tables it  *)
(* combines, the comparisons its rows satisfy, the columns it delivers and *)
(* the columns it sorts by.  Operators find columns by name, as RowSchema  *)
(* does, and are refused when one is missing.                              *)
(***************************************************************************)
EXTENDS Naturals, Sequences, FiniteSets, SequencesExt

CONSTANTS
  Tables,      \* Tables[t]: the names of the columns of table t, in order
  Literal,     \* a constant that a column is compared with
  AllColumns,  \* no set of needed columns: Option::None
  Refused      \* the error of an operator that misses a column

-----------------------------------------------------------------------------
(* Queries *)

Pred(left, cmp, right) == [left |-> left, cmp |-> cmp, right |-> right]

\* `use` tells the scans of a query apart; the code has them as two operators.
Scan(table, use)          == [op |-> "Scan", table |-> table, use |-> use]
Filter(under, predicates) == [op |-> "Filter", under |-> under, predicates |-> predicates]
Cross(left, right)        == [op |-> "Cross", left |-> left, right |-> right]
Sort(under, sort_specs)   == [op |-> "Sort", under |-> under, sort_specs |-> sort_specs]

\* The map is a sequence of pairs of a source and its alias.
Project(under, column_name_map) ==
  [op |-> "Project", under |-> under, column_name_map |-> column_name_map]

Aliases(map) == [i \in DOMAIN map |-> map[i][2]]
Sources(map) == {map[i][1] : i \in DOMAIN map}

ColumnsOf(pred)    == {pred.left, pred.right} \ {Literal}
ColumnsOfAll(preds) == UNION {ColumnsOf(preds[i]) : i \in DOMAIN preds}

\* The names of the columns an operator delivers, before anything is pruned.
RECURSIVE LogicalSchema(_)
LogicalSchema(op) ==
  CASE op.op = "Scan"              -> Tables[op.table]
    [] op.op \in {"Filter", "Sort"} -> LogicalSchema(op.under)
    [] op.op = "Project"           -> Aliases(op.column_name_map)
    [] op.op = "Cross"             -> LogicalSchema(op.left) \o LogicalSchema(op.right)

-----------------------------------------------------------------------------
(* Plans *)

\* The index of the last column with a name, 0 when there is none.
IndexOf(cols, name) == Max({i \in DOMAIN cols : cols[i].name = name} \cup {0})

Has(cols, name) == IndexOf(cols, name) # 0

NamesIn(cols) == {cols[i].name : i \in DOMAIN cols}

\* What a name stands for: a column of one use of a table.
Origin(cols, name) ==
  IF name = Literal THEN <<0, Literal>> ELSE cols[IndexOf(cols, name)].origin

\* A comparison of two origins; an equality holds both ways.
Compared(cmp, a, b) == {<<cmp, a, b>>} \cup (IF cmp = "EQ" THEN {<<cmp, b, a>>} ELSE {})

Resolvable(cols, preds) == ColumnsOfAll(preds) \subseteq NamesIn(cols)

Resolved(cols, preds) ==
  UNION {Compared(preds[i].cmp, Origin(cols, preds[i].left), Origin(cols, preds[i].right))
           : i \in DOMAIN preds}

\* The filter of a scan and of FilterOperator: every row is tested.
FilterPlan(plan, preds) ==
  IF Resolvable(plan.cols, preds)
    THEN [plan EXCEPT !.holds = @ \cup Resolved(plan.cols, preds)]
    ELSE Refused

\* Only the needed columns are decoded; all of them when none is needed.
ScanPlan(scan, needed, preds) ==
  LET full == [i \in DOMAIN Tables[scan.table] |->
                 [name |-> Tables[scan.table][i], origin |-> <<scan.use, Tables[scan.table][i]>>]]
      kept == IF needed = AllColumns THEN full
                ELSE SelectSeq(full, LAMBDA c : c.name \in needed)
      plan == [uses |-> <<scan.use>>, holds |-> {}, order |-> << >>,
               cols |-> IF kept = << >> THEN full ELSE kept]
  IN FilterPlan(plan, preds)

ProjectPlan(plan, map) ==
  IF Sources(map) \subseteq NamesIn(plan.cols)
    THEN [plan EXCEPT !.cols =
            [i \in DOMAIN map |-> [name |-> map[i][2], origin |-> Origin(plan.cols, map[i][1])]]]
    ELSE Refused

SortPlan(plan, sort_specs) ==
  IF ToSet(sort_specs) \subseteq NamesIn(plan.cols)
    THEN [plan EXCEPT !.order =
            [i \in DOMAIN sort_specs |-> Origin(plan.cols, sort_specs[i])]]
    ELSE Refused

\* An equality with a side in either input becomes a key of the hash join; the
\* others are resolved over the columns of both.  A join delivers in no order.
JoinPlan(left, right, preds) ==
  LET l == left.cols
      r == right.cols
      Straight(p) == p.cmp = "EQ" /\ Has(l, p.left) /\ Has(r, p.right)
      Crossed(p)  == p.cmp = "EQ" /\ Has(r, p.left) /\ Has(l, p.right)
      extra == SelectSeq(preds, LAMBDA p : ~Straight(p) /\ ~Crossed(p))
      keys  == UNION {IF Straight(p) THEN Compared("EQ", Origin(l, p.left), Origin(r, p.right))
                      ELSE IF Crossed(p) THEN Compared("EQ", Origin(r, p.left), Origin(l, p.right))
                      ELSE {} : p \in ToSet(preds)}
  IN FilterPlan([uses |-> left.uses \o right.uses, cols |-> l \o r, order |-> << >>,
                 holds |-> left.holds \cup right.holds \cup keys], extra)

-----------------------------------------------------------------------------
(* What a query means: the plan that executes it as it is written *)

RECURSIVE Meaning(_)
Meaning(op) ==
  LET Under == Meaning(op.under)
  IN CASE op.op = "Scan"    -> ScanPlan(op, AllColumns, << >>)
       [] op.op = "Filter"  -> FilterPlan(Under, op.predicates)
       [] op.op = "Project" -> ProjectPlan(Under, op.column_name_map)
       [] op.op = "Sort"    -> SortPlan(Under, op.sort_specs)
       [] op.op = "Cross"   -> JoinPlan(Meaning(op.left), Meaning(op.right), << >>)

\* For each name the query mentions, how many columns it may stand for there.
RECURSIVE Readings(_)
Readings(op) ==
  LET Count(name) == Cardinality({i \in DOMAIN LogicalSchema(op.under) :
                                    LogicalSchema(op.under)[i] = name})
      names == CASE op.op = "Filter"  -> ColumnsOfAll(op.predicates)
                 [] op.op = "Project" -> Sources(op.column_name_map)
                 [] op.op = "Sort"    -> ToSet(op.sort_specs)
  IN CASE op.op = "Scan"  -> {}
       [] op.op = "Cross" -> Readings(op.left) \cup Readings(op.right)
       [] OTHER           -> Readings(op.under) \cup {Count(name) : name \in names}

Unambiguous(op) == Readings(op) \subseteq {1}
NamesFound(op)  == 0 \notin Readings(op)

\* The query names its columns, so their order does not depend on the joins'.
RECURSIVE ColumnsNamed(_)
ColumnsNamed(op) ==
  CASE op.op \in {"Scan", "Project"}   -> TRUE
    [] op.op = "Filter" -> op.under.op # "Cross" /\ ColumnsNamed(op.under)
    [] op.op = "Sort"   -> ColumnsNamed(op.under)
    [] op.op = "Cross"  -> ColumnsNamed(op.left) /\ ColumnsNamed(op.right)
=============================================================================
