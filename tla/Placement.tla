----------------------------- MODULE Placement ------------------------------
(***************************************************************************)
(* The choice of an instance for a request (filter_targets and             *)
(* sort_targets in boxcar-cluster/src/lib.rs).  Requests and registrations *)
(* are functions from some of the resources to amounts.                    *)
(***************************************************************************)
EXTENDS Naturals, Functions

CONSTANT Precision   \* percentages are computed to within 1 / Precision: f64 in the code

ASSUME PrecisionAssumption == Precision \in Nat \ {0}

Amount(f) == FoldFunction(LAMBDA a, b : a * b, 1, f)

filter_targets(v, req) ==
  \A r \in DOMAIN req : r \in DOMAIN v /\ v[r] >= req[r]

\* The product of req[r] / v[r] as percents, cut to u8: each of the results that
\* rounding may give.  0 / 0 is NaN, which becomes 0; more than 100 is filtered out.
get_resource_pct(req, v) ==
  LET parts == 100 * Precision * Amount(req)
      whole == Amount(Restrict(v, DOMAIN req)) IN
    IF whole = 0 THEN {0}
    ELSE (IF parts < whole THEN 0 ELSE (parts - whole) \div (Precision * whole))
           .. ((parts + whole - 1) \div (Precision * whole))

Matching(req, registered) == {i \in DOMAIN registered : filter_targets(registered[i], req)}

\* Mutated: the last of the sorted targets is taken.
LastTargets(req, registered) ==
  LET pct(i) == get_resource_pct(req, registered[i]) IN
    {i \in Matching(req, registered) :
       \E n \in pct(i) : \A j \in Matching(req, registered) : \E m \in pct(j) : n >= m}

\* Those that may come first after the sort: among equals the order of creation
\* decides, which the model leaves open.  dense_pack cannot be set to false.
Targets(req, registered) ==
  LET pct(i) == get_resource_pct(req, registered[i]) IN
    {i \in Matching(req, registered) :
       \E n \in pct(i) : \A j \in Matching(req, registered) : \E m \in pct(j) : n <= m}

\* Exactly, the request uses no more of v than of w, up to the percent that the
\* conversion cuts off and what is rounded twice.
UsesLess(req, v, w) ==
  LET parts    == 100 * Precision * Amount(req)
      whole(x) == Amount(Restrict(x, DOMAIN req)) IN
    Amount(req) > 0 => parts * whole(w) < (parts + (Precision + 2) * whole(w)) * whole(v)

\* No matching instance is less used by the request than i.
Sparsest(req, registered, i) ==
  \A j \in Matching(req, registered) : UsesLess(req, registered[i], registered[j])
=============================================================================
