--------------------------- MODULE MCPunchTiming ---------------------------
(* A small instance of PunchTiming: ends behind address translation, ends  *)
(* with no address at all, and ends that have only a name to offer.        *)
EXTENDS PunchTiming

CONSTANTS cl, ce, cn, sl, se, sn, lo

OneSubnet == [a \in Addr |-> IF a \in {cl, sl} THEN "lan" ELSE a]

Knows(stun, interface, publicHost) ==
  [stunServers |-> TRUE, stun |-> stun, interface |-> interface, publicHost |-> publicHost]

KnowsNothing == [Knows(Nothing, Nothing, Nothing) EXCEPT !.stunServers = FALSE]

SomeClients == {Knows(ce, cl, Nothing), KnowsNothing, [KnowsNothing EXCEPT !.publicHost = cn]}

SomeServers ==
  {Knows(se, sl, Nothing), Knows(Nothing, Nothing, Nothing), Knows(Nothing, Nothing, sn)}

Wan == {<<ce, se>>}

LanAndWan == {<<cl, sl>>, <<ce, se>>}

\* A clock that is behind by half the validity to one that is ahead by as much.
SomeSkews == {-2, 1, 2}
=============================================================================
