--------------------------- MODULE MCPublicReads ----------------------------
(* A small instance of the public reads for TLC: swaps both ways, the two   *)
(* legs of a bridge from Solana, a row on an unregistered chain and a       *)
(* pending one, whose times fall into one millisecond and into two days.    *)
EXTENDS PublicReads, TLC

CONSTANT none

Evm == (1 :> "base") @@ (2 :> "ronin")
Solana == (<<2, 1>> :> "solana") @@ (<<2, 9>> :> "solana")

Report(name, agent, kind, role, protocol, family, chain, status) ==
    [name |-> name, agent |-> agent, kind |-> kind, role |-> role, protocol |-> protocol,
     family |-> family, chain |-> chain, from |-> none, to |-> none, in |-> none, out |-> none,
     paid |-> none, got |-> none, created |-> 2, confirmed |-> none, status |-> status]

Buy == [Report("buy", 1, "swap", "swap", 1, "eip155", 1, "confirmed")
            EXCEPT !.in = 1, !.out = 2, !.paid = 4, !.got = 3, !.created = 3]
Sell == [Report("sell", 1, "swap", "swap", 1, "eip155", 1, "confirmed")
            EXCEPT !.in = 2, !.out = 1, !.paid = 2, !.got = 4, !.confirmed = 5]
Deposit == [Report("deposit", 2, "bridge", "bridge_deposit", 2, "solana", 9, "confirmed")
            EXCEPT !.from = 9, !.to = 2, !.in = 1]
Fill == [Report("fill", 2, "bridge", "bridge_fill", 2, "eip155", 2, "confirmed")
            EXCEPT !.from = 9, !.to = 2, !.out = 2]
Wash == [Report("wash", 2, "swap", "swap", 2, "eip155", 7, "pending")
            EXCEPT !.in = 1, !.out = 1, !.paid = 1, !.got = 1]

ReportedRows == {Buy, Sell, Deposit, Fill, Wash}

Prices ==
    [buy |-> {<<5, 5>>, <<none, 5>>}, sell |-> {<<4, 5>>}, deposit |-> {<<5, none>>, <<none, none>>},
     fill |-> {<<none, 4>>}, wash |-> {<<5, 5>>}]

Day == [source |-> "activities", seconds |-> 2, count |-> 2]
AllTime == [source |-> "aggregates", count |-> none]
Ranges == {Day, AllTime}
Times == {none, 3}

=============================================================================
