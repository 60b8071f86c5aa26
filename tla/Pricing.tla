------------------------------- MODULE Pricing ------------------------------
(***************************************************************************)
(* What a request costs (services/pricing.py, db/models/model_pricing.py). *)
(* Amounts are whole numbers: dollars, times a million (the rates are per  *)
(* million), times twenty (so that the discount on a cache read and the    *)
(* surcharge on a cache write are whole).  A compute unit is ten dollars   *)
(* in the rows and in the settings alike, so it is left out.               *)
(***************************************************************************)
EXTENDS Integers

None == -1

Million  == 1000000
Thousand == 1000

\* config.py: the multiples of the input rate, in twentieths.
Parts     == 20
CacheRead == 2    \* 0.10
Write5m   == 25   \* 1.25
Write1h   == 40   \* 2.00

\* What a request used: tokens of each kind, or characters, images, minutes.
Counts == [input |-> 0, output |-> 0, cached |-> 0, write5m |-> 0, write1h |-> 0, image |-> 0]

\* A row of model_pricing: list rates and the columns the database generates.
NewRow(unit, input, output, markup) ==
    [unit |-> unit, input |-> input, output |-> output, markup |-> markup,
     inputCu |-> input * markup, outputCu |-> output * markup,
     cacheRead |-> None, imageInput |-> None,
     threshold |-> None, longInput |-> None, longOutput |-> None, longCache |-> None]

NoRow == NewRow("none", 0, 0, 1)

\* A unit of the rate, seen from the million.
Weight(unit) ==
    CASE unit = "per_1k_tokens"               -> Million \div Thousand
      [] unit \in {"per_image", "per_minute"} -> Million
      [] OTHER                                -> 1

\* The cost without the legacy markup that the generated columns carry.
ProviderCost(row, input, output) ==
    (((input * row.inputCu + output * row.outputCu) * Weight(row.unit)) \div row.markup) * Parts

\* A request's prompt falls in the row's long-context tier.
LongTierApplies(row, prompt) ==
    /\ row.threshold # None
    /\ row.longInput # None
    /\ row.longOutput # None
    /\ prompt > row.threshold

\* The standard price of a cache read: no provider differs today.
CacheReadMultiplier == CacheRead

\* Without a row: one dollar a million in, two out.
DefaultCost(input, output) == (input + 2 * output) * Parts

\* calculate_compute_units: `included` says that the input holds the cached
\* and the written tokens too.
ComputeUnits(row, n, included) ==
    LET weight  == IF row.unit = "per_1k_tokens" THEN Million \div Thousand ELSE 1
        subsets == n.cached + n.write5m + n.write1h
        prompt  == IF included THEN n.input ELSE n.input + subsets
        image   == n.image * (IF row.imageInput # None THEN row.imageInput ELSE row.input) * weight * Parts
        writes(rate) == rate * (n.write5m * Write5m + n.write1h * Write1h)
        reads(own, rate) ==
            n.cached * (IF own # None THEN own * Parts ELSE rate * CacheReadMultiplier)
        fresh   == IF ~included THEN n.input
                     ELSE IF n.input > subsets THEN n.input - subsets ELSE 0
    IN  IF row = NoRow THEN DefaultCost(n.input, n.output)
        ELSE IF LongTierApplies(row, prompt)
          THEN (((prompt - subsets) * row.longInput + n.output * row.longOutput) * Parts
                + reads(row.longCache, row.longInput) + writes(row.longInput)) * weight + image
        ELSE IF subsets = 0
          THEN ProviderCost(row, n.input, n.output) + image
          ELSE ProviderCost(row, fresh, n.output)
               + (reads(row.cacheRead, row.input) + writes(row.input)) * weight + image

\* get_cost_breakdown: the quote for a request nobody has made yet.
CostBreakdown(row, n) ==
    IF row = NoRow THEN DefaultCost(n.input, n.output) ELSE ProviderCost(row, n.input, n.output)

\* What Redis holds of a row, every rate that may be missing included.
PricingToDict(row) ==
    [unit |-> row.unit, input |-> row.input, output |-> row.output, markup |-> row.markup,
     inputCu |-> row.inputCu, outputCu |-> row.outputCu,
     cacheRead |-> row.cacheRead, imageInput |-> row.imageInput,
     longInput |-> row.longInput, longOutput |-> row.longOutput, longCache |-> row.longCache,
     threshold |-> row.threshold]

\* BUG (mutant): the rate of the model's own cache reads does not come back.
RestoredWithoutCacheRate(data) == [data EXCEPT !.cacheRead = None]

\* The row made of what Redis held.
DictToPricing(data) ==
    [unit |-> data.unit, input |-> data.input, output |-> data.output, markup |-> data.markup,
     inputCu |-> data.inputCu, outputCu |-> data.outputCu,
     cacheRead |-> data.cacheRead, imageInput |-> data.imageInput,
     threshold |-> data.threshold, longInput |-> data.longInput,
     longOutput |-> data.longOutput, longCache |-> data.longCache]
-----------------------------------------------------------------------------
\* The reference: every token once, at the list rate of its kind, the long
\* rates when the whole prompt is above the threshold.  `n` counts the input
\* without its subsets.
AtCost(row, n) ==
    LET prompt == n.input + n.cached + n.write5m + n.write1h
        long   == LongTierApplies(row, prompt)
        in     == IF long THEN row.longInput ELSE row.input
        out    == IF long THEN row.longOutput ELSE row.output
        own    == IF long THEN row.longCache ELSE row.cacheRead
        rate(kind) == CASE kind = "input"   -> in * Parts
                        [] kind = "output"  -> out * Parts
                        [] kind = "cached"  -> IF own # None THEN own * Parts ELSE in * CacheRead
                        [] kind = "write5m" -> in * Write5m
                        [] kind = "write1h" -> in * Write1h
                        [] kind = "image"   -> (IF row.imageInput # None THEN row.imageInput
                                                                         ELSE row.input) * Parts
        cost(kind) == n[kind] * rate(kind) * Weight(row.unit)
    IN  cost("input") + cost("output") + cost("cached") + cost("write5m")
        + cost("write1h") + cost("image")
=============================================================================
