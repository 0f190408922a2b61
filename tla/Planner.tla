------------------------------ MODULE Planner -------------------------------
(***************************************************************************)
(* The planner (execute_op_tree in database/src/executor.rs): it walks the *)
(* tree of a query and builds operators bottom up.  On the way down it     *)
(* carries the columns needed above, so that scans decode no others, and,  *)
(* inside a single relation, the predicates a scan can test.  A filter     *)
(* over cross products is flattened, its predicates are dealt out to       *)
(* leaves, joins and a residual filter, and its leaves are joined in an    *)
(* order of JoinOrder's.  The recursion is a stack of calls: a frame is a  *)
(* call to make or what is left to do when one returns.                    *)
(***************************************************************************)
EXTENDS QueryAlgebra, JoinOrder

CONSTANTS
  Queries,  \* the queries that may be asked
  NoPlan    \* no call has returned

VARIABLES
  query,   \* the tree
  calls,   \* the stack, its top first
  result   \* what the last call returned

vars == <<query, calls, result, orderVars>>

-----------------------------------------------------------------------------
(* Needed columns *)

\* add_predicate_columns, add_sort_columns
NeededWith(needed, names) == IF needed = AllColumns THEN AllColumns ELSE needed \cup names

\* alias_to_source: the last of equal aliases counts, other names stay.
SourceOf(map, name) ==
  LET at == Max({i \in DOMAIN map : map[i][2] = name} \cup {0})
  IN IF at = 0 THEN name ELSE map[at][1]

RemapNeeded(needed, map) ==
  IF needed = AllColumns THEN AllColumns ELSE {SourceOf(map, name) : name \in needed}

\* Bug: the right column of a predicate keeps its alias.
RemapPredicatesLeft(preds, map) ==
  [i \in DOMAIN preds |-> Pred(SourceOf(map, preds[i].left), preds[i].cmp, preds[i].right)]

RemapPredicates(preds, map) ==
  [i \in DOMAIN preds |->
     Pred(SourceOf(map, preds[i].left), preds[i].cmp,
          IF preds[i].right = Literal THEN Literal ELSE SourceOf(map, preds[i].right))]

-----------------------------------------------------------------------------
(* Blocks: a filter over cross products *)

RECURSIVE FlattenCross(_)
FlattenCross(op) ==
  IF op.op = "Cross" THEN FlattenCross(op.left) \o FlattenCross(op.right) ELSE <<op>>

\* The leaves that have a column of a name.
Owners(leaves, name) == {i \in DOMAIN leaves : name \in ToSet(LogicalSchema(leaves[i]))}

Unique(leaves, name) == Cardinality(Owners(leaves, name)) = 1

\* The right side counts only when it is a column and the left side has one owner.
IsResidual(leaves, p) ==
  \/ Cardinality(Owners(leaves, p.left)) > 1
  \/ Unique(leaves, p.left) /\ p.right # Literal /\ Cardinality(Owners(leaves, p.right)) > 1

\* classify_predicates gives up on a name that no leaf has.
IsUnowned(leaves, p) ==
  \/ Owners(leaves, p.left) = {}
  \/ Unique(leaves, p.left) /\ p.right # Literal /\ Owners(leaves, p.right) = {}

\* The leaves a predicate that is not residual speaks of, one or two.
OwnersOf(leaves, p) == UNION {Owners(leaves, name) : name \in ColumnsOf(p)}

LocalPredicates(leaves, preds, i) ==
  SelectSeq(preds, LAMBDA p : ~IsResidual(leaves, p) /\ OwnersOf(leaves, p) = {i})

JoinPredicates(leaves, preds) ==
  SelectSeq(preds, LAMBDA p : ~IsResidual(leaves, p) /\ Cardinality(OwnersOf(leaves, p)) = 2)

\* Bug: only the left column is looked at.
ResidualByLeft(leaves, preds) ==
  SelectSeq(preds, LAMBDA p : Cardinality(Owners(leaves, p.left)) > 1)

ResidualPredicates(leaves, preds) == SelectSeq(preds, LAMBDA p : IsResidual(leaves, p))

\* compute_needed_by_leaf
NeededByLeaf(block, i) ==
  LET own   == ToSet(LogicalSchema(block.leaves[i]))
      mine  == SelectSeq(block.joins, LAMBDA p : i \in OwnersOf(block.leaves, p))
  IN IF block.needed = AllColumns THEN AllColumns
       ELSE own \cap (block.needed \cup ColumnsOfAll(mine) \cup ColumnsOfAll(block.residual))

\* collect_join_preds_for_step: those between the new leaf and one joined before.
PredicatesForStep(block, joined, leaf) ==
  SelectSeq(block.joins, LAMBDA p : \E other \in joined :
                           OwnersOf(block.leaves, p) = {leaf, other})

\* Bug: the columns of the residual predicates are not kept for them.
KeepColumnsForJoins(block, joined) ==
  LET own == UNION {ToSet(LogicalSchema(block.leaves[i])) : i \in joined}
      open == SelectSeq(block.joins, LAMBDA p :
                OwnersOf(block.leaves, p) \cap joined \notin {{}, OwnersOf(block.leaves, p)})
  IN (IF block.needed = AllColumns THEN own ELSE own \cap block.needed) \cup ColumnsOfAll(open)

\* compute_needed_columns_for_subset: what is wanted above, by a join predicate
\* with one side still to come, or by a residual predicate.
KeepColumns(block, joined) ==
  LET own == UNION {ToSet(LogicalSchema(block.leaves[i])) : i \in joined}
      open == SelectSeq(block.joins, LAMBDA p :
                OwnersOf(block.leaves, p) \cap joined \notin {{}, OwnersOf(block.leaves, p)})
  IN (IF block.needed = AllColumns THEN own ELSE own \cap block.needed)
       \cup ColumnsOfAll(open) \cup (own \cap ColumnsOfAll(block.residual))

\* trim_plan_to_needed
Trimmed(plan, keep) ==
  LET kept == SelectSeq(plan.cols, LAMBDA c : c.name \in keep)
  IN IF keep = {} \/ Cardinality(keep) >= Len(plan.cols) \/ Len(kept) \in {0, Len(plan.cols)}
       THEN plan
       ELSE ProjectPlan(plan, [i \in DOMAIN kept |-> <<kept[i].name, kept[i].name>>])

Block(leaves, preds, needed) ==
  [call |-> "block", leaves |-> leaves, needed |-> needed,
   local |-> [i \in DOMAIN leaves |-> LocalPredicates(leaves, preds, i)],
   joins |-> JoinPredicates(leaves, preds), residual |-> ResidualPredicates(leaves, preds),
   order |-> << >>,   \* not chosen yet
   step |-> 1,        \* the leaf of the order whose turn it is
   plan |-> NoPlan]   \* of the leaves before it

InOriginalOrder(leaves) == [i \in DOMAIN leaves |-> i]

Searches(block) == block.joins # << >> /\ Len(block.leaves) <= MaxDpLeaves

Joined(block) == {block.order[k] : k \in 1..(block.step - 1)}

-----------------------------------------------------------------------------
(* The stack *)

Tree(op, needed)        == [call |-> "tree", op |-> op, needed |-> needed]
Leaf(op, preds, needed) == [call |-> "leaf", op |-> op, preds |-> preds, needed |-> needed]

ThenProject(map)                == [call |-> "project", map |-> map]
ThenSort(specs)                 == [call |-> "sort", specs |-> specs]
ThenFilter(preds)               == [call |-> "filter", preds |-> preds]
ThenRight(right, needed, preds) == [call |-> "right", op |-> right, needed |-> needed, preds |-> preds]
ThenJoin(left, preds)           == [call |-> "join", left |-> left, preds |-> preds]

Top  == Head(calls)
Rest == Tail(calls)

\* A call of a function on an operator of a kind.
Calls(call, kind) ==
  /\ calls # << >> /\ result = NoPlan
  /\ Top.call = call /\ Top.op.op = kind

\* A call has returned a plan to what is left to do.
Returned(call) == calls # << >> /\ result # NoPlan /\ Top.call = call

Replace(frames) ==
  /\ calls' = frames \o Rest
  /\ result' = NoPlan
  /\ UNCHANGED <<query, orderVars>>

\* An error ends the planning.
Return(plan) ==
  /\ result' = plan
  /\ calls' = IF plan = Refused THEN << >> ELSE Rest
  /\ UNCHANGED <<query, orderVars>>

Init ==
  /\ query \in Queries
  /\ calls = <<Tree(query, AllColumns)>>
  /\ result = NoPlan
  /\ NoSearch

-----------------------------------------------------------------------------
(* execute_op_tree *)

TreeScan == Calls("tree", "Scan") /\ Return(ScanPlan(Top.op, Top.needed, << >>))

TreeFilter ==
  /\ Calls("tree", "Filter") /\ Top.op.under.op # "Cross"
  /\ Replace(<<Leaf(Top.op.under, Top.op.predicates,
                    NeededWith(Top.needed, ColumnsOfAll(Top.op.predicates)))>>)

\* try_build_flattened_spj_plan
TreeBlock ==
  /\ Calls("tree", "Filter") /\ Top.op.under.op = "Cross"
  /\ LET leaves == FlattenCross(Top.op.under)
         preds  == Top.op.predicates
         block  == Block(leaves, preds, Top.needed)
     IN /\ \A p \in ToSet(preds) : ~IsUnowned(leaves, p)
        /\ result' = NoPlan
        /\ UNCHANGED query
        /\ IF Searches(block)
             THEN /\ StartSearch(Len(leaves), {OwnersOf(leaves, p) : p \in ToSet(block.joins)})
                  /\ calls' = <<block>> \o Rest
             ELSE /\ calls' = <<[block EXCEPT !.order = InOriginalOrder(leaves)]>> \o Rest
                  /\ UNCHANGED orderVars

\* What is left when a predicate has a name that no leaf has.
TreeUnowned ==
  /\ Calls("tree", "Filter") /\ Top.op.under.op = "Cross"
  /\ LET cross  == Top.op.under
         needed == NeededWith(Top.needed, ColumnsOfAll(Top.op.predicates))
     IN /\ \E p \in ToSet(Top.op.predicates) : IsUnowned(FlattenCross(cross), p)
        /\ Replace(<<Tree(cross.left, needed),
                     ThenRight(cross.right, needed, Top.op.predicates)>>)

TreeCross ==
  /\ Calls("tree", "Cross")
  /\ Replace(<<Tree(Top.op.left, Top.needed), ThenRight(Top.op.right, Top.needed, << >>)>>)

TreeProject ==
  /\ Calls("tree", "Project")
  /\ LET map == Top.op.column_name_map
     IN Replace(<<Tree(Top.op.under, Sources(map)), ThenProject(map)>>)

TreeSort ==
  /\ Calls("tree", "Sort")
  /\ LET specs == Top.op.sort_specs
     IN Replace(<<Tree(Top.op.under, NeededWith(Top.needed, ToSet(specs))), ThenSort(specs)>>)

-----------------------------------------------------------------------------
(* execute_single_relation_leaf *)

LeafScan ==
  /\ Calls("leaf", "Scan")
  /\ Return(ScanPlan(Top.op, NeededWith(Top.needed, ColumnsOfAll(Top.preds)), Top.preds))

LeafFilter ==
  /\ Calls("leaf", "Filter")
  /\ Replace(<<Leaf(Top.op.under, Top.op.predicates \o Top.preds, Top.needed)>>)

LeafSort ==
  /\ Calls("leaf", "Sort")
  /\ LET specs == Top.op.sort_specs
     IN Replace(<<Leaf(Top.op.under, Top.preds, NeededWith(Top.needed, ToSet(specs))),
                  ThenSort(specs)>>)

LeafProject ==
  /\ Calls("leaf", "Project")
  /\ LET map == Top.op.column_name_map
     IN Replace(<<Leaf(Top.op.under, RemapPredicates(Top.preds, map), RemapNeeded(Top.needed, map)),
                  ThenProject(map)>>)

LeafCross ==
  /\ Calls("leaf", "Cross")
  /\ Replace(<<Tree(Top.op, NeededWith(Top.needed, ColumnsOfAll(Top.preds))),
               ThenFilter(Top.preds)>>)

-----------------------------------------------------------------------------
(* What is left to do when a call has returned *)

MakeProject == Returned("project") /\ Return(ProjectPlan(result, Top.map))
MakeSort    == Returned("sort")    /\ Return(SortPlan(result, Top.specs))
MakeFilter  == Returned("filter")  /\ Return(FilterPlan(result, Top.preds))

PlanRight ==
  /\ Returned("right")
  /\ Replace(<<Tree(Top.op, Top.needed), ThenJoin(result, Top.preds)>>)

MakeJoin == Returned("join") /\ Return(JoinPlan(Top.left, result, Top.preds))

\* The search of JoinOrder.
SearchOrder ==
  /\ calls # << >> /\ Top.call = "block" /\ Top.order = << >>
  /\ ExtendMask
  /\ UNCHANGED <<query, calls, result>>

\* Without an order of all leaves they are joined as the query lists them.
ChooseOrder ==
  /\ calls # << >> /\ Top.call = "block" /\ Top.order = << >> /\ masks = {}
  /\ calls' = <<[Top EXCEPT !.order = IF dp[Leaves] # << >> THEN dp[Leaves]
                                        ELSE InOriginalOrder(Top.leaves)]>> \o Rest
  /\ StartSearch(0, {}) /\ UNCHANGED <<query, result>>

PlanNextLeaf ==
  /\ calls # << >> /\ result = NoPlan /\ Top.call = "block" /\ Top.order # << >>
  /\ Top.step <= Len(Top.order)
  /\ LET leaf == Top.order[Top.step]
     IN Replace(<<Leaf(Top.leaves[leaf], Top.local[leaf], NeededByLeaf(Top, leaf)), Top>>)

JoinLeaf ==
  /\ Returned("block")
  /\ LET leaf  == Top.order[Top.step]
         whole == IF Top.plan = NoPlan THEN result
                    ELSE JoinPlan(Top.plan, result, PredicatesForStep(Top, Joined(Top), leaf))
     IN IF whole = Refused THEN Return(Refused)
          ELSE Replace(<<[Top EXCEPT !.step = @ + 1,
                                     !.plan = Trimmed(whole, KeepColumns(Top, Joined(Top) \cup {leaf}))]>>)

FinishBlock ==
  /\ calls # << >> /\ result = NoPlan /\ Top.call = "block" /\ Top.order # << >>
  /\ Top.step > Len(Top.order)
  /\ Return(FilterPlan(Top.plan, Top.residual))

\* The plan, or the error, is handed to execute_query.
Planned == calls = << >> /\ UNCHANGED vars

Next ==
  \/ TreeScan \/ TreeFilter \/ TreeBlock \/ TreeUnowned \/ TreeCross \/ TreeProject \/ TreeSort
  \/ LeafScan \/ LeafFilter \/ LeafSort \/ LeafProject \/ LeafCross
  \/ MakeProject \/ MakeSort \/ MakeFilter \/ PlanRight \/ MakeJoin
  \/ SearchOrder \/ ChooseOrder \/ PlanNextLeaf \/ JoinLeaf \/ FinishBlock
  \/ Planned

Spec == Init /\ [][Next]_vars

-----------------------------------------------------------------------------
(* Properties *)

\* Whatever order the estimates lead to, the plan of a query whose names are
\* clear computes what the query says: each use of a table takes part once, the
\* rows satisfy the same comparisons of the same columns, they come in the same
\* order, and the columns are the same ones under the same names; when the query
\* names its columns above its joins, also in the same sequence.  Predicates that
\* are pushed through renamings and dealt out to joins, and columns that are
\* dropped on the way, must not change this.
AnswerIsQuery ==
  calls = << >> /\ Unambiguous(query) /\ result # Refused =>
    LET meant == Meaning(query)
    IN /\ Len(result.uses) = Len(meant.uses) /\ ToSet(result.uses) = ToSet(meant.uses)
       /\ result.holds = meant.holds
       /\ result.order = meant.order
       /\ Len(result.cols) = Len(meant.cols) /\ ToSet(result.cols) = ToSet(meant.cols)
       /\ ColumnsNamed(query) => result.cols = meant.cols

\* A query all of whose names are there gets a plan: no operator misses a column
\* that was dropped below it (scans decode only what is needed, executor.rs:332-349,
\* and joins are trimmed, 1044-1065).
SupportedQueryPlanned ==
  calls = << >> /\ NamesFound(query) => result # Refused

\* Also a predicate with a name that several leaves have is evaluated on columns
\* of its names, in the residual filter above all joins.
EveryPredicateHolds ==
  calls = << >> /\ result # Refused /\ query.op = "Filter" /\ query.under.op = "Cross"
    /\ (\A leaf \in ToSet(FlattenCross(query.under)) : leaf.op = "Scan") =>
       \A p \in ToSet(query.predicates) : \E h \in result.holds :
         h[1] = p.cmp /\ h[2][2] = p.left /\ h[3][2] = p.right

\* A block is joined without a predicate at some step only when its join
\* predicates do not connect all leaves: one pass over the masks by number is
\* enough for the search, since a set is a larger number than its subsets
\* (src/README.md:138, "It chooses a left-deep join order when it can.").
NoNeedlessCross ==
  calls # << >> /\ Top.call = "block" /\ Top.order # << >> =>
    LET Touches(part) == \E p \in ToSet(Top.joins) :
                            OwnersOf(Top.leaves, p) \cap part \notin {{}, OwnersOf(Top.leaves, p)}
    IN (\A part \in (SUBSET DOMAIN Top.leaves) \ {{}, DOMAIN Top.leaves} : Touches(part)) =>
         \A k \in 2..Len(Top.order) :
           PredicatesForStep(Top, {Top.order[j] : j \in 1..(k - 1)}, Top.order[k]) # << >>
=============================================================================
