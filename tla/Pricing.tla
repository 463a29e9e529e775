------------------------------- MODULE Pricing -------------------------------
(***************************************************************************)
(* Modifier groups of a menu item: what staff may configure, which         *)
(* selections of a guest are accepted, and what they add to the price      *)
(* (internal/shared/modifiers).                                            *)
(*                                                                         *)
(* ValidateConfig and BuildSnapshot are the code's two functions, loops as *)
(* folds; the state machine around them stores configurations and grows a  *)
(* guest's selection, so that TLC meets every small pair of both.  Names,  *)
(* descriptions and JSON are left out: every error is a rejection.         *)
(*                                                                         *)
(* Numbers are Go ints.  Nothing bounds the quantity of an option without  *)
(* a limit, nor that of the item, so sums and products may wrap around.    *)
(* Widths are scaled: WordLimit stands for 2^63.                           *)
(***************************************************************************)
EXTENDS Integers, FiniteSets, SequencesExt, Words

CONSTANTS
    Configs,           \* configurations staff submit, as sequences of groups
    GroupIds,          \* group ids guests submit
    OptionIds,         \* option ids guests submit
    Quantities,        \* quantities guests submit for an option
    ItemQuantities,    \* quantities of the item ordered
    WordLimit,         \* a Go int is in -WordLimit .. WordLimit - 1
    MaxSubmissions,    \* bound: groups in a selection
    MaxPicks           \* bound: options in a submitted group

GoInts == -WordLimit .. WordLimit - 1

\* What staff configure and what guests submit, without names and texts.
OptionConfig == [id : OptionIds, active : BOOLEAN, delta : GoInts, limit : GoInts]
GroupConfig == [id : GroupIds, active : BOOLEAN, required : BOOLEAN, multiple : BOOLEAN,
                strategy : STRING, min : GoInts, max : GoInts, options : Seq(OptionConfig)]
OptionSelection == [option : OptionIds, quantity : Quantities]
GroupSelection == [group : GroupIds, options : Seq(OptionSelection)]

\* A guest may submit any id, those of the configurations among them.
ASSUME PricingAssumption ==
    /\ WordLimit \in Nat \ {0}
    /\ Configs \subseteq Seq(GroupConfig)
    /\ Quantities \subseteq GoInts
    /\ ItemQuantities \subseteq 1 .. WordLimit - 1
    /\ MaxSubmissions \in Nat
    /\ MaxPicks \in Nat

VARIABLES
    config,            \* the item's options_config
    selection          \* the guest's selected_options

pricingVars == <<config, selection>>

\* The result of an addition or a multiplication of Go ints.
GoInt(n) == Wrap(n, WordLimit)

\* No two elements of seq have the same key.
AllDiffer(seq, Key(_)) ==
    \A m, n \in DOMAIN seq : Key(seq[m]) = Key(seq[n]) => m = n

IdOf(x) == x.id
GroupOf(x) == x.group
OptionOf(x) == x.option

ValidGroup(g) ==
    /\ g.strategy \in {"SINGLE_SELECT", "MULTI_SELECT"}
    /\ 0 <= g.min /\ g.min <= g.max
    /\ g.strategy = "SINGLE_SELECT" => g.max <= 1
    /\ AllDiffer(g.options, IdOf)
    /\ \A o \in ToSet(g.options) : o.limit >= 0

ValidateConfig(cfg) ==
    /\ AllDiffer(cfg, IdOf)
    /\ \A g \in ToSet(cfg) : ValidGroup(g)

\* A missing quantity, which decodes to 0, means one.
QuantityOf(pick) == IF pick.quantity = 0 THEN 1 ELSE pick.quantity

\* Mutant of QuantityAllowed: the limit of the option is not tested.
QuantityAllowedUnlimited(g, option, quantity) ==
    /\ quantity >= 1
    /\ g.multiple \/ quantity = 1

QuantityAllowed(g, option, quantity) ==
    /\ quantity >= 1
    /\ g.multiple \/ quantity = 1
    /\ option.limit > 0 => quantity <= option.limit

\* Mutant of DeltaOf: one price whatever the quantity of the item.
DeltaOfOne(option, quantity, n) == GoInt(option.delta * quantity)

\* The price of an option counts once per unit and per item.  Wrapping the product
\* of two factors first makes no difference.
DeltaOf(option, quantity, n) == GoInt(option.delta * quantity * n)

\* One option of a submitted group: it is offered, active and new, and its
\* quantity is allowed.
TakeOption(g, n, acc, pick) ==
    LET offered == {o \in ToSet(g.options) : o.active /\ o.id = pick.option}
        option == CHOOSE o \in offered : TRUE
        quantity == QuantityOf(pick)
    IN  IF /\ acc.ok
           /\ pick.option \notin acc.seen
           /\ offered # {}
           /\ QuantityAllowed(g, option, quantity)
        THEN [ok |-> TRUE,
              seen |-> acc.seen \union {pick.option},
              units |-> GoInt(acc.units + quantity),
              delta |-> GoInt(acc.delta + DeltaOf(option, quantity, n))]
        ELSE [acc EXCEPT !.ok = FALSE]

NothingTaken == [ok |-> TRUE, seen |-> {}, units |-> 0, delta |-> 0]

\* The options of a submitted group, in the order of the request.
TakeOptions(g, n, picks) ==
    FoldLeft(LAMBDA acc, pick : TakeOption(g, n, acc, pick), NothingTaken, picks)

\* One group of the configuration: inactive ones are skipped, a missing one must
\* be optional, a submitted one takes its options and counts the units.
TakeGroup(sel, n, acc, g) ==
    LET subs == {s \in ToSet(sel) : s.group = g.id /\ g.id \in acc.left}
        taken == TakeOptions(g, n, (CHOOSE s \in subs : TRUE).options)
    IN  IF ~g.active
        THEN acc
        ELSE IF subs = {}
        THEN [acc EXCEPT !.ok = @ /\ ~g.required /\ g.min = 0]
        ELSE [ok |-> acc.ok /\ taken.ok /\ taken.units \in g.min .. g.max,
              left |-> acc.left \ {g.id},
              delta |-> GoInt(acc.delta + taken.delta)]

\* All groups of the configuration; what is left was submitted for none of them.
TakeGroups(cfg, sel, n) ==
    FoldLeft(LAMBDA acc, g : TakeGroup(sel, n, acc, g),
             [ok |-> TRUE, left |-> {s.group : s \in ToSet(sel)}, delta |-> 0], cfg)

Rejected == [ok |-> FALSE, delta |-> 0]

\* The decision about selection sel of n items, and what it adds to the price.
BuildSnapshot(cfg, sel, n) ==
    LET end == TakeGroups(cfg, sel, n)
    IN  IF /\ ValidateConfig(cfg)
           /\ AllDiffer(sel, GroupOf)
           /\ end.ok
           /\ end.left = {}
        THEN [ok |-> TRUE, delta |-> end.delta]
        ELSE Rejected

-----------------------------------------------------------------------------
(* The configurations and selections that arise.                           *)

PricingInit ==
    /\ config = <<>>
    /\ selection = <<>>

\* Staff create or update the item; DecodeConfigMap stores what is valid.  The
\* guest still holds a selection made for an earlier configuration.
Configure(cfg) ==
    /\ ValidateConfig(cfg)
    /\ config' = cfg
    /\ UNCHANGED selection

\* The guest turns to another group.
Submit(id) ==
    /\ Len(selection) < MaxSubmissions
    /\ selection' = Append(selection, [group |-> id, options |-> <<>>])
    /\ UNCHANGED config

\* The guest picks an option of the group.
Pick(id, quantity) ==
    LET k == Len(selection)
    IN  /\ k > 0
        /\ Len(selection[k].options) < MaxPicks
        /\ selection' = [selection EXCEPT ![k].options =
                            Append(@, [option |-> id, quantity |-> quantity])]
        /\ UNCHANGED config

PricingNext ==
    \/ \E cfg \in Configs : Configure(cfg)
    \/ \E id \in GroupIds : Submit(id)
    \/ \E id \in OptionIds, quantity \in Quantities : Pick(id, quantity)

PricingSpec == PricingInit /\ [][PricingNext]_pricingVars

-----------------------------------------------------------------------------
(* The reference.                                                          *)

\* The group and the option that a pick is about, when there is just one.
Aimed(sub) == {g \in ToSet(config) : g.active /\ g.id = sub.group}
Offer(g, pick) == {o \in ToSet(g.options) : o.active /\ o.id = pick.option}

\* How many units each pick asks for, by its place: group i, option j.
Units ==
    [p \in {p \in (DOMAIN selection) \X (1 .. MaxPicks) :
                p[2] \in DOMAIN selection[p[1]].options} |->
        QuantityOf(selection[p[1]].options[p[2]])]

\* How many units of option o of group g the guest asks for.
Asked(g, o) ==
    SumFunctionOnSet(Units, {p \in DOMAIN Units :
                                /\ selection[p[1]].group = g.id
                                /\ selection[p[1]].options[p[2]].option = o.id})

AskedOf(g) == SumFunction([o \in ToSet(g.options) |-> Asked(g, o)])

\* What the units asked for of group g cost, for one item.
CostOf(g) == SumFunction([o \in ToSet(g.options) |-> o.delta * Asked(g, o)])

\* What the modifier contract of README.md asks of a selection, if units are those
\* of each group: only offered groups and options, each submitted once, quantities
\* within their limits, and as many units in each group as it wants.
AllowedWith(units) ==
    /\ AllDiffer(selection, GroupOf)
    /\ \A sub \in ToSet(selection) :
          /\ Aimed(sub) # {}
          /\ AllDiffer(sub.options, OptionOf)
          /\ \A g \in Aimed(sub), pick \in ToSet(sub.options) :
                /\ Offer(g, pick) # {}
                /\ QuantityOf(pick) >= 1
                /\ QuantityOf(pick) > 1 =>
                      /\ g.multiple
                      /\ \A o \in Offer(g, pick) : o.limit = 0 \/ QuantityOf(pick) <= o.limit
    /\ \A g \in ToSet(config) : g.active =>
          IF \E sub \in ToSet(selection) : sub.group = g.id
          THEN g.min <= units[g] /\ units[g] <= g.max
          ELSE ~g.required /\ g.min = 0

Acceptable == AllowedWith([g \in ToSet(config) |-> AskedOf(g)])

-----------------------------------------------------------------------------
(* Properties.                                                             *)

\* A selection that the contract allows is accepted, whatever the order of groups
\* and options in the configuration and in the request.  One that it forbids is
\* accepted only if the units it asks of some group, 2^64 at least, wrap around to
\* a number that the group wants (modifiers.go:229-249, README.md:98).
AcceptsUnlessUnitsWrap ==
    \A n \in ItemQuantities :
        LET ok == BuildSnapshot(config, selection, n).ok
        IN  /\ Acceptable => ok
            /\ ok => AllowedWith([g \in ToSet(config) |-> GoInt(AskedOf(g))])
            /\ ok /\ ~Acceptable => \E g \in ToSet(config) : AskedOf(g) >= 2 * WordLimit

\* An accepted selection adds the price of every unit asked for, for each of the
\* items, and nothing else, as long as that is a Go int; else, and if the units
\* have wrapped around, what a Go int keeps of it (modifiers.go:234-235).
PricesUnlessCentsWrap ==
    \A n \in ItemQuantities :
        LET snapshot == BuildSnapshot(config, selection, n)
            price == n * SumFunction([g \in ToSet(config) |-> CostOf(g)])
        IN  snapshot.ok => snapshot.delta = IF price \in GoInts THEN price ELSE GoInt(price)
=============================================================================
