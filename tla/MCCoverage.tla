----------------------------- MODULE MCCoverage ------------------------------
(***************************************************************************)
(* Files for Coverage: the constructs in the combinations that matter.     *)
(***************************************************************************)
EXTENDS Coverage

(* function () { if (e) { function () { e && m }; return } else { throw } o } *)
Nested ==
  << Node("Program", 0, "root"), Node("Function", 1, "list"), Node("Block", 2, "body"),
     Node("If", 3, "list"), Node("Expr", 4, "test"), Node("Block", 4, "consequent"),
     Node("Function", 6, "list"), Node("Block", 7, "body"), Node("Logical", 8, "list"),
     Node("Expr", 9, "left"), Node("Member", 9, "right"), Node("Return", 6, "list"),
     Node("Block", 4, "alternate"), Node("Throw", 13, "list"), Node("Optional", 3, "list") >>

(* while (e) { if (e) { break } for (of) { } } l                           *)
Looping ==
  << Node("Program", 0, "root"), Node("While", 1, "list"), Node("Expr", 2, "test"),
     Node("Block", 2, "body"), Node("If", 4, "list"), Node("Expr", 5, "test"),
     Node("Block", 5, "consequent"), Node("Break", 7, "list"), Node("ForOf", 4, "list"),
     Node("Block", 9, "body"), Node("Literal", 1, "list") >>

(* function () { try { if (e) throw } catch { if (e) return } finally { l } c } *)
Trying ==
  << Node("Program", 0, "root"), Node("Function", 1, "list"), Node("Block", 2, "body"),
     Node("Try", 3, "list"), Node("Block", 4, "block"), Node("If", 5, "list"),
     Node("Expr", 6, "test"), Node("Throw", 6, "consequent"), Node("Catch", 4, "handler"),
     Node("Block", 9, "body"), Node("If", 10, "list"), Node("Expr", 11, "test"),
     Node("Return", 11, "consequent"), Node("Block", 4, "finalizer"), Node("Literal", 14, "list"),
     Node("Concat", 3, "list") >>

(* function () { switch { case: break; case: l; default: if (e) return; case: } try { s } finally { } } *)
Switching ==
  << Node("Program", 0, "root"), Node("Function", 1, "list"), Node("Block", 2, "body"),
     Node("Switch", 3, "list"), Node("Case", 4, "list"), Node("Break", 5, "list"),
     Node("Case", 4, "list"), Node("Literal", 7, "list"), Node("Default", 4, "list"),
     Node("If", 9, "list"), Node("Expr", 10, "test"), Node("Return", 10, "consequent"),
     Node("Case", 4, "list"), Node("Try", 3, "list"), Node("Block", 14, "block"),
     Node("StringCall", 15, "list"), Node("Block", 14, "finalizer") >>

(* if (e && e && (e ? e : () => { return })) { (p) => { } } m              *)
Choosing ==
  << Node("Program", 0, "root"), Node("If", 1, "list"), Node("Logical", 2, "test"),
     Node("Logical", 3, "left"), Node("Expr", 4, "left"), Node("Expr", 4, "right"),
     Node("Conditional", 3, "right"), Node("Expr", 7, "test"), Node("Expr", 7, "consequent"),
     Node("Function", 7, "alternate"), Node("Block", 10, "body"), Node("Return", 11, "list"),
     Node("Block", 2, "consequent"), Node("Function", 13, "list"), Node("Pattern", 14, "param"),
     Node("Block", 14, "body"), Node("Member", 1, "list") >>

(* function () { if (e) if (e) return; else while (e) if (e) break; l; return;
   function () { } } *)
Unbraced ==
  << Node("Program", 0, "root"), Node("Function", 1, "list"), Node("Block", 2, "body"),
     Node("If", 3, "list"), Node("Expr", 4, "test"), Node("If", 4, "consequent"),
     Node("Expr", 6, "test"), Node("Return", 6, "consequent"), Node("While", 4, "alternate"),
     Node("Expr", 9, "test"), Node("If", 9, "body"), Node("Expr", 11, "test"),
     Node("Break", 11, "consequent"), Node("Literal", 3, "list"), Node("Return", 3, "list"),
     Node("Function", 3, "list"), Node("Block", 16, "body") >>

(* while (e && m) { function () { if (e) { } } }                           *)
Turning ==
  << Node("Program", 0, "root"), Node("While", 1, "list"), Node("Logical", 2, "test"),
     Node("Expr", 3, "left"), Node("Member", 3, "right"), Node("Block", 2, "body"),
     Node("Function", 6, "list"), Node("Block", 7, "body"), Node("If", 8, "list"),
     Node("Expr", 9, "test"), Node("Block", 9, "consequent") >>

(* for (of) e ? e : () => { if (e) return }                                *)
Returning ==
  << Node("Program", 0, "root"), Node("ForOf", 1, "list"), Node("Conditional", 2, "body"),
     Node("Expr", 3, "test"), Node("Expr", 3, "consequent"), Node("Function", 3, "alternate"),
     Node("Block", 6, "body"), Node("If", 7, "list"), Node("Expr", 8, "test"),
     Node("Return", 8, "consequent") >>

MCFiles == {Nested, Looping, Trying, Switching, Choosing, Unbraced, Turning, Returning}
MCProjects == <<"lodash", "lit">>
MCSymmetry == Permutations(Runs)

=============================================================================
