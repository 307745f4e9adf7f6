----------------------------- MODULE MCPipeline -----------------------------
(***************************************************************************)
(* The TLC instance of Pipeline.  The refinement says nothing of memory,   *)
(* statistics or the first queue's history, and no step reads them, so the *)
(* view leaves them out; it treats the radars alike, so they are folded.   *)
(***************************************************************************)
EXTENDS Pipeline, TLC

CONSTANTS r1, r2

MCRadars == {r1, r2}

MCSymmetry == Permutations(MCRadars)

MCView == <<sendq, qlock, published, ppc, cpc, citem, psendq, pmax, pmade,
            pppc, pleft, psize, pmark, prpc, pnotify, pheartbeat, pitem, pfate,
            content>>
=============================================================================
