----------------------------- MODULE ImageSizes -----------------------------
(***************************************************************************)
(* How a caller's size and quality become what each image provider takes   *)
(* (adapters/base.py, ImageSizeResolver).  A size is a preset, a ratio     *)
(* "w:h", pixels "WxH" or a resolution tier; a ratio is a pair of numbers. *)
(***************************************************************************)
EXTENDS Integers, Sequences

\* What a request may ask for.
Preset(name) == [kind |-> "preset", name |-> name, w |-> 0, h |-> 0]
Ratio(w, h)  == [kind |-> "ratio",  name |-> "",   w |-> w, h |-> h]
Pixels(w, h) == [kind |-> "pixels", name |-> "",   w |-> w, h |-> h]
Tier(name)   == [kind |-> "tier",   name |-> name, w |-> 0, h |-> 0]

Square == <<1, 1>>
Raises == <<0, 0>>  \* the division by a height of zero
AutoSize   == <<-1, -1>>

\* The sides of the presets.
Wide == {"landscape", "wide", "widescreen", "horizontal"}
Tall == {"portrait", "tall", "vertical"}

PresetAspect(name) ==
    CASE name \in Wide       -> <<16, 9>>
      [] name \in Tall       -> <<9, 16>>
      [] name = "standard"   -> <<4, 3>>
      [] name = "classic"    -> <<3, 2>>
      [] OTHER               -> Square

\* Sizes whose ratio is looked up, not calculated.
PixelsAspect == {
    <<1024, 1024, Square>>, <<512, 512, Square>>, <<256, 256, Square>>,
    <<1792, 1024, <<16, 9>>>>, <<1920, 1080, <<16, 9>>>>,
    <<1024, 1792, <<9, 16>>>>, <<1080, 1920, <<9, 16>>>>,
    <<1536, 1024, <<3, 2>>>>,  <<1024, 1536, <<2, 3>>>>,
    <<1024, 768, <<4, 3>>>>,   <<1536, 1152, <<4, 3>>>>,
    <<768, 1024, <<3, 4>>>>,   <<1152, 1536, <<3, 4>>>>,
    <<2560, 1080, <<21, 9>>>>}

CommonRatios == <<Square, <<16, 9>>, <<9, 16>>, <<4, 3>>, <<3, 4>>, <<3, 2>>, <<2, 3>>,
                  <<5, 4>>, <<4, 5>>, <<21, 9>>>>

Distance(a, b) == IF a > b THEN a - b ELSE b - a
Larger(a, b)   == IF a > b THEN a ELSE b

\* The first of the ratios that is nearest to w / h.
CalculateAspect(w, h) ==
    LET off(i) == Distance(CommonRatios[i][1] * h, w * CommonRatios[i][2])
        nearer(i, j) == off(i) * CommonRatios[j][2] < off(j) * CommonRatios[i][2]
        best == CHOOSE i \in DOMAIN CommonRatios :
                   \A j \in DOMAIN CommonRatios : ~nearer(j, i) /\ (j < i => nearer(i, j))
    IN  IF h = 0 THEN Raises ELSE CommonRatios[best]

\* Any size as a ratio.  A ratio is taken as it is written.
NormalizeToAspect(size) ==
    CASE size.kind = "preset" -> PresetAspect(size.name)
      [] size.kind = "ratio"  -> <<size.w, size.h>>
      [] size.kind = "tier"   -> Square
      [] size.kind = "pixels" ->
            IF \E p \in PixelsAspect : p[1] = size.w /\ p[2] = size.h
              THEN (CHOOSE p \in PixelsAspect : p[1] = size.w /\ p[2] = size.h)[3]
              ELSE CalculateAspect(size.w, size.h)

\* Python's round(a / b): halves go to the even neighbour.
Round(a, b) ==
    LET q == a \div b
        r == 2 * (a % b)
    IN  IF r > b \/ (r = b /\ q % 2 = 1) THEN q + 1 ELSE q

Align   == 16
MaxEdge == 3840

AlignEdge(n) == Larger(Align, Round(n, Align) * Align)

\* BUG (mutant): the edges are aligned but the longest is not brought under the limit.
FitPixelsUncut(w, h) == <<AlignEdge(w), AlignEdge(h)>>

\* Pixels as a flexible model takes them: scaled down as a whole until the
\* longest edge fits, then each edge snapped to a multiple of 16.
FitPixels(w, h) ==
    LET longest == Larger(w, h)
        scaled(n) == IF longest > MaxEdge THEN Round(n * MaxEdge, longest) ELSE n
    IN  <<AlignEdge(scaled(w)), AlignEdge(scaled(h))>>

FlexibleModels == {"gpt-image-2"}

\* The pixels that stand for a ratio on a flexible model.
FlexibleSizes == {
    <<Square, <<1024, 1024>>>>,
    <<<<3, 2>>, <<1536, 1024>>>>,  <<<<2, 3>>, <<1024, 1536>>>>,
    <<<<16, 9>>, <<1536, 864>>>>,  <<<<9, 16>>, <<864, 1536>>>>,
    <<<<4, 3>>, <<1280, 960>>>>,   <<<<3, 4>>, <<960, 1280>>>>,
    <<<<5, 4>>, <<1280, 1024>>>>,  <<<<4, 5>>, <<1024, 1280>>>>,
    <<<<21, 9>>, <<1792, 768>>>>}

KnownAspects == {s[1] : s \in FlexibleSizes}

\* dall-e takes one wide and one tall size, so do the older gpt-image models.
DalleSize(a) ==
    IF a \notin KnownAspects \/ a = Square THEN <<1024, 1024>>
      ELSE IF a[1] > a[2] THEN <<1792, 1024>> ELSE <<1024, 1792>>

GptImageSize(a) ==
    IF a \notin KnownAspects \/ a = Square THEN <<1024, 1024>>
      ELSE IF a[1] > a[2] THEN <<1536, 1024>> ELSE <<1024, 1536>>

ToPixelsOpenAI(size, model) ==
    LET a == NormalizeToAspect(size)
    IN  CASE model \in FlexibleModels /\ size = Preset("auto")   -> AutoSize
          [] model \in FlexibleModels /\ size.kind = "pixels"    -> FitPixels(size.w, size.h)
          [] model \in FlexibleModels /\ size.kind # "pixels"
               /\ size # Preset("auto") ->
                IF a \in KnownAspects THEN (CHOOSE s \in FlexibleSizes : s[1] = a)[2]
                                      ELSE <<1024, 1024>>
          [] model \notin FlexibleModels /\ a = Raises -> Raises
          [] model = "dall-e-3" /\ a # Raises          -> DalleSize(a)
          [] OTHER                                     -> GptImageSize(a)

\* Gemini: a ratio and a resolution tier.  The mapping of 21:9 to 16:9 is
\* never reached, since 21:9 is supported.
ToAspectGoogle(size) ==
    LET a == NormalizeToAspect(size)
    IN  IF a = Raises \/ a \in KnownAspects THEN a ELSE Square

Lite  == "gemini-3.1-flash-lite-image"
Flash == "gemini-3.1-flash-image"

Rank(tier) == CASE tier = "512px" -> 0 [] tier = "1K" -> 1 [] tier = "2K" -> 2 [] tier = "4K" -> 3

TierOfPixels(w, h) ==
    CASE Larger(w, h) >= 3072 \/ w * h >= 8000000 -> "4K"
      [] Larger(w, h) >= 2048 /\ Larger(w, h) < 3072 /\ w * h < 8000000 -> "2K"
      [] Larger(w, h) < 2048 /\ w * h >= 2000000 -> "2K"
      [] OTHER -> "1K"

WantsHd(quality) == quality \in {"hd", "high", "xhigh", "max"}

ToTierGoogle(size, quality, model) ==
    LET asked == CASE size.kind = "tier"   -> size.name
                   [] size.kind = "pixels" -> TierOfPixels(size.w, size.h)
                   [] OTHER                -> "1K"
        raised == IF WantsHd(quality) /\ Rank(asked) < 2 THEN "2K" ELSE asked
    IN  IF model = Lite \/ (raised = "512px" /\ model # Flash) THEN "1K" ELSE raised

\* The quality as OpenAI takes it, of a picture drawn from text.
OpenAIQuality(model, quality) ==
    IF model = "dall-e-3"
      THEN IF WantsHd(quality) THEN "hd" ELSE "standard"
      ELSE CASE quality = "standard" -> "medium"
             [] quality = "hd"       -> "high"
             [] OTHER                -> quality

\* Of an edit: the ladder of gpt-image is not in this table.
EditQuality(quality) ==
    CASE quality = "hd"   -> "high"
      [] quality = "auto" -> "auto"
      [] OTHER            -> "medium"
-----------------------------------------------------------------------------
\* Sides, to compare what was asked with what is sent.
Side(w, h) == IF w > h THEN "wide" ELSE IF w < h THEN "tall" ELSE "square"

\* The side a size asks for; a ratio outside the table asks in vain.
AskedSide(size) ==
    IF size.kind = "pixels" THEN Side(size.w, size.h)
      ELSE LET a == NormalizeToAspect(size)
           IN  IF a \in KnownAspects THEN Side(a[1], a[2]) ELSE "square"

\* A turned picture: wider than tall becomes taller than wide.
Turned(asked, sent) == {asked, sent} = {"wide", "tall"}

\* What gpt-image-2 takes: multiples of 16 up to 3840.
Legal(p) == \A i \in {1, 2} : p[i] % Align = 0 /\ Align <= p[i] /\ p[i] <= MaxEdge

\* The pixels p are right for a size on a model that takes pixels: not turned, and
\* what that model takes.
PixelsRight(p, size, model) ==
    /\ p # AutoSize => ~Turned(AskedSide(size), Side(p[1], p[2]))
    /\ model \in FlexibleModels =>
          /\ p # AutoSize => Legal(p) /\ FitPixels(p[1], p[2]) = p
          /\ size.kind = "pixels" /\ Legal(<<size.w, size.h>>) => p = <<size.w, size.h>>
    /\ model \in {"gpt-image-1", "stability"} =>
          p \in {<<1024, 1024>>, <<1536, 1024>>, <<1024, 1536>>}

\* The tier t is right for a size and a quality on a model of Gemini: one it has, and
\* for hd never less.
TierRight(t, size, quality, model) ==
    /\ t = "512px" => model = Flash
    /\ Rank(t) >= Rank(ToTierGoogle(size, "standard", model))
    /\ WantsHd(quality) => Rank(t) >= 2 \/ model = Lite
=============================================================================
