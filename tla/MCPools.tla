------------------------------- MODULE MCPools -------------------------------
(***************************************************************************)
(* Pools with small constants: pools of each version, with and without     *)
(* wrapped SOL.  One caller asks for all but removal, the other fills      *)
(* the cache and changes the pool under way.                               *)
(***************************************************************************)
EXTENDS Pools, TLC

CONSTANTS c1, c2

PoolOf(supply, a, b) == ("mint" :> supply) @@ ("A" :> a) @@ ("B" :> b)
PoolStates == {PoolOf(4, 4, 4), PoolOf(2, 4, 2)}

Configs == {[latest |-> TRUE, wrapped |-> "A", constantPrice |-> TRUE],
            [latest |-> FALSE, wrapped |-> "B", constantPrice |-> FALSE]}

RequestOf(kind, side, a, b, slip, lp, provides) ==
  [kind |-> kind, side |-> side, amounts |-> ("A" :> a) @@ ("B" :> b) @@ ("LP" :> 2),
   slip |-> slip, lp |-> lp, provides |-> provides]

Requests ==
  (c1 :> {RequestOf("add", "A", 4, 2, 0, FALSE, {}),
          RequestOf("add", "A", 8, 16, 1, TRUE, {}),
          RequestOf("addOne", "A", 2, 2, 0, TRUE, {}),
          RequestOf("addOne", "B", 2, 2, 0, FALSE, {}),
          RequestOf("withdrawOne", "B", 2, 2, 0, TRUE, {}),
          RequestOf("swap", "A", 2, 2, 0, TRUE, {})})
  @@ (c2 :> {RequestOf("remove", "A", 2, 2, 0, TRUE, {"A"})})
=============================================================================
