------------------------------ MODULE MCEpoch ------------------------------
(* Model checking Epoch: two tasks over an op m of the module and ops f    *)
(* and g of functions.  Every task has a lane with one op to make.         *)
EXTENDS Epoch, TLC

CONSTANTS m, f, g, n1, n2, vm, vf, vg, w1, w2

MCParts == {0, 1, 2}
MCOps == {m, f, g, n1, n2}
MCRes == (m :> vm) @@ (f :> vf) @@ (g :> vg) @@ (n1 :> w1) @@ (n2 :> w2)
MCValueChunkOf == (vm :> "M") @@ (vf :> "F") @@ (vg :> "G") @@ (w1 :> "lane1") @@ (w2 :> "lane2")
MCMakesOps == <<{n1}, {n2}>>
MCNames == <<{vf, vg, w1}, {vf, vg, w2}>>

\* Every base without an op that reads itself, and two in which f is read
\* from everywhere.
AllReads == {reads \in [{m, f, g} -> {vm, vf, vg}] : \A o \in {m, f, g} : reads[o] # MCRes[o]}
FReads == {reads \in AllReads : reads[m] = vf /\ reads[g] = vf}

\* A task for function 1, which holds f, and one for function 2, which holds g, each in
\* a chunk of its own; each task replaces the op its function was built from.
Apart ==
  [opOwner |-> (m :> 0) @@ (f :> 1) @@ (g :> 2) @@ (n1 :> 1) @@ (n2 :> 2),
   opChunkOf |-> (m :> "M") @@ (f :> "F") @@ (g :> "G") @@ (n1 :> "lane1") @@ (n2 :> "lane2"),
   valueOwner |-> (vm :> 0) @@ (vf :> 1) @@ (vg :> 2) @@ (w1 :> 1) @@ (w2 :> 2),
   targets |-> <<1, 2>>, replacesOps |-> <<{f}, {g}>>, replacesUses |-> <<{}, {}>>,
   baseReads |-> FReads, settlers |-> {1, 2}]

\* Both tasks work on function 1 and share the rows of its chunk.
Shared ==
  [opOwner |-> (m :> 0) @@ (f :> 1) @@ (g :> 1) @@ (n1 :> 1) @@ (n2 :> 1),
   opChunkOf |-> (m :> "M") @@ (f :> "F") @@ (g :> "F") @@ (n1 :> "lane1") @@ (n2 :> "lane2"),
   valueOwner |-> (vm :> 0) @@ (vf :> 1) @@ (vg :> 1) @@ (w1 :> 1) @@ (w2 :> 1),
   targets |-> <<1, 1>>, replacesOps |-> <<{f}, {}>>, replacesUses |-> <<{}, {<<vg, vm>>}>>,
   baseReads |-> AllReads, settlers |-> {}]

MCLayouts == {Apart, Shared}

\* Function 2's lane has an op for each of two epochs.
TwoEpochsMakes == <<{}, {n1, n2}>>
TwoEpochs ==
  {[Apart EXCEPT !.opOwner[n1] = 2, !.valueOwner[w1] = 2,
                 !.replacesOps = <<{}, {g, n1}>>, !.baseReads = AllReads]}
=============================================================================
