------------------------------ MODULE MCPricing ------------------------------
(* Small configurations for TLC: every strategy, optional and required, with   *)
(* inactive groups and options, limits, three options without any, and two     *)
(* that ValidateConfig refuses.                                                *)
EXTENDS Pricing, Totals, Paging

Option(id, delta, limit) == [id |-> id, active |-> TRUE, delta |-> delta, limit |-> limit]
Hidden(option) == [option EXCEPT !.active = FALSE]

Group(id, required, min, max, options) ==
    [id |-> id, active |-> TRUE, required |-> required, min |-> min, max |-> max,
     multiple |-> FALSE, options |-> options,
     strategy |-> IF max <= 1 THEN "SINGLE_SELECT" ELSE "MULTI_SELECT"]
Portions(group) == [group EXCEPT !.multiple = TRUE]
Closed(group) == [group EXCEPT !.active = FALSE]

Size == Group("g1", TRUE, 1, 1, <<Option("o1", 3, 0), Option("o2", -1, 0)>>)
Extras == Portions(Group("g2", FALSE, 0, 3, <<Option("o1", 5, 0), Option("o2", 7, 1)>>))
Sauces == Portions(Group("g2", FALSE, 2, 2, <<Option("o1", 2, 2), Hidden(Option("o2", 4, 0))>>))
Sides == Group("g2", FALSE, 1, 2, <<Option("o1", 0, 0), Option("o2", 6, 0)>>)
Optional == Group("g1", FALSE, 0, 1, <<Option("o1", 7, 0)>>)
Toppings == Portions(Group("g2", FALSE, 0, 3,
                           <<Option("o1", 1, 0), Option("o2", -8, 0), Option("o3", 3, 0)>>))

MCConfigs == {<<Size>>, <<Extras>>, <<Size, Extras>>, <<Size, Sauces>>, <<Closed(Size), Sides>>,
              <<Sides, Optional>>, <<Optional, Size>>, <<Toppings>>, <<[Extras EXCEPT !.min = 4]>>}

MCQuantities == {-1, 0, 2, 7}
MCDeltas == {-2, 3, 120}

\* Bound: options in a selection.
SelectionPicks == 3
Picked == {p \in (1 .. MaxSubmissions) \X (1 .. MaxPicks) :
              p[1] \in DOMAIN selection /\ p[2] \in DOMAIN selection[p[1]].options}

\* The three parts share nothing, and are explored one after the other.
Selecting == config # <<>> \/ selection # <<>>
Totalling == added # <<>>
Listing == rows > 0 \/ perPage # <<>>

MCVars == <<pricingVars, totalVars, pagingVars>>

MCInit == PricingInit /\ TotalInit /\ PagingInit
MCNext ==
    \/ /\ ~Totalling /\ ~Listing
       /\ PricingNext
       /\ Cardinality(Picked') <= SelectionPicks
       /\ UNCHANGED <<totalVars, pagingVars>>
    \/ ~Selecting /\ ~Listing /\ TotalNext /\ UNCHANGED <<pricingVars, pagingVars>>
    \/ ~Selecting /\ ~Totalling /\ PagingNext /\ UNCHANGED <<pricingVars, totalVars>>
MCSpec == MCInit /\ [][MCNext]_MCVars
=============================================================================
