------------------------------ MODULE MCPool ------------------------------
(* Folds, stops and cells in every order that nests one pool in another.   *)
EXTENDS PoolMeaning

CONSTANTS h1, w1, w2

P(layers, control, refused) == [layers |-> layers, control |-> control, refused |-> refused]

(* At the limit, past it, and with cells that pile up to it. *)
Deeper ==
  {[i \in 1 .. k |-> "cells"] : k \in {5, 6}}
   \cup {<<"pool", "cells", "pool", "cells">>, <<"pool", "fold", "stop", "cells", "cells", "cells">>,
         <<"pool", "fold", "stop", "cells", "cells", "cells", "cells">>,
         <<"pool", "stop", "cells", "cells", "cells", "cells", "cells">>}

MCPrograms ==
  {P(l, c, r) : l \in {<<"pool", "fold", "stop", "pool">>, <<"fold", "pool", "fold", "stop">>,
                       <<"fold", "stop", "cells">>},
                c \in Controls, r \in {{}, {2}}}
   \cup {P(<<"pool", "pool">>, 0, r) : r \in SUBSET (1 .. CELLS)}
   \cup {P(l, 0, {2}) : l \in Deeper}
   \cup {P(<<"fold", "pool", "stop">>, 1, {}), P(<<"cells", "stop">>, 1, {})}
=============================================================================
