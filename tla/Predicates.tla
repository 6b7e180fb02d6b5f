----------------------------- MODULE Predicates -----------------------------
(***************************************************************************)
(* Predicates over the attributes of a company, in three values            *)
(* (rules/predicates.py).  A predicate is a record: [kind |-> "always"],   *)
(* "all" and "any" with a set `of` of predicates, "not" with one, and      *)
(* "attr" with an attribute, an operator and a value.  An attribute is a   *)
(* name with the year it is addressed at (fy or fy-1).                     *)
(***************************************************************************)
EXTENDS Integers

CONSTANTS
    Absent,  \* the value of an attribute the bag does not have
    Attrs,
    Names,   \* the values of attributes that are text; the others are numbers
    Preds,   \* the predicates of the rules, with their sub-predicates
    Nesting  \* how deep they nest

Tri == {"TRUE", "FALSE", "UNKNOWN"}

Kinds == {"always", "all", "any", "not", "attr"}
Ops == {"eq", "ne", "gt", "gte", "lt", "lte", "in"}

Parts(p) == CASE p.kind \in {"all", "any"} -> p.of
              [] p.kind = "not"           -> {p.of}
              [] OTHER                    -> {}

\* A predicate's parts are predicates too; evaluate raises on any other node.
ASSUME PredsClosed ==
    \A p \in Preds : /\ p.kind \in Kinds /\ Parts(p) \subseteq Preds
                     /\ p.kind = "attr" => p.attr \in Attrs /\ p.op \in Ops

\* A predicate is a JSON tree: its parts are smaller.
ASSUME PredsFounded ==
    /\ Nesting \in Nat
    /\ \E depth \in [Preds -> 0..Nesting] :
           \A p \in Preds : \A part \in Parts(p) : depth[part] < depth[p]

AllOf(results) == IF "FALSE" \in results THEN "FALSE"
                  ELSE IF "UNKNOWN" \in results THEN "UNKNOWN" ELSE "TRUE"

AnyOf(results) == IF "TRUE" \in results THEN "TRUE"
                  ELSE IF "UNKNOWN" \in results THEN "UNKNOWN" ELSE "FALSE"

Negation(t) == CASE t = "TRUE" -> "FALSE" [] t = "FALSE" -> "TRUE" [] OTHER -> "UNKNOWN"

Test(b) == IF b THEN "TRUE" ELSE "FALSE"

Ordered(op, v, w) ==
    CASE op = "gt"  -> v > w
      [] op = "gte" -> v >= w
      [] op = "lt"  -> v < w
      [] op = "lte" -> v <= w

\* _OPS on a known value: an order between text and number has no answer.
Compared(p, v) ==
    CASE p.op = "in" -> Test(v \in p.among)
      [] p.op = "eq" -> Test(v = p.value)
      [] p.op = "ne" -> Test(v # p.value)
      [] OTHER       -> IF (v \in Names) # (p.value \in Names) THEN "UNKNOWN"
                        ELSE Test(Ordered(p.op, v, p.value))

\* Mutant: a missing attribute fails its test.
LeafMissingFalse(p, bag) ==
    IF bag[p.attr] = Absent THEN "FALSE" ELSE Compared(p, bag[p.attr])

Leaf(p, bag) == IF bag[p.attr] = Absent THEN "UNKNOWN" ELSE Compared(p, bag[p.attr])

(* evaluate, one node: truth has the answers for its parts.                *)
Value(truth, p, bag) ==
    CASE p.kind = "always" -> "TRUE"
      [] p.kind = "all"    -> AllOf({truth[part] : part \in p.of})
      [] p.kind = "any"    -> AnyOf({truth[part] : part \in p.of})
      [] p.kind = "not"    -> Negation(truth[p.of])
      [] p.kind = "attr"   -> Leaf(p, bag)

\* evaluate, for every predicate: bag gives each attribute a value or Absent.
Evaluation(bag) == LET truth[p \in Preds] == Value(truth, p, bag) IN truth

=============================================================================
