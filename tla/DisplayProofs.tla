---------------------------- MODULE DisplayProofs ----------------------------
(***************************************************************************)
(* Proofs about Display: what the plotting commands hand on, the options   *)
(* of a chart that is extended, the size of a picture, what a value is     *)
(* shown as, the colours of series and the axes of charts, for any inputs, *)
(* colours and options, and any number of series.                          *)
(***************************************************************************)
EXTENDS Display, PlotProofs, SequenceTheorems, TLAPS

-----------------------------------------------------------------------------
(* Series. *)

IsList(q) == q \in Seq(ToSet(q))
WellMade(s) == /\ s.kind \in {"line", "bar"} /\ s.points # <<>> /\ IsList(s.points)
               /\ \A i \in DOMAIN s.points : s.points[i].x \in Numbers /\ s.points[i].y \in Numbers
AllWellMade(q) == IsList(q) /\ \A i \in DOMAIN q : WellMade(q[i])

LEMMA ListAppend ==
    ASSUME NEW q, AllWellMade(q), NEW s, WellMade(s)
    PROVE  AllWellMade(Append(q, s))
<1> DEFINE p == Append(q, s)
           S == ToSet(q) \cup {s}
<1>1. q \in Seq(S)
    BY DEF AllWellMade, IsList
<1>2. p \in Seq(S) /\ Len(p) = Len(q) + 1 /\ Len(q) \in Nat /\ DOMAIN p = 1..Len(q) + 1
      /\ DOMAIN q = 1..Len(q) /\ p[Len(q) + 1] = s /\ \A i \in 1..Len(q) : p[i] = q[i]
    BY <1>1
<1>3. \A i \in DOMAIN p : WellMade(p[i])
    BY <1>2 DEF AllWellMade
<1>4. \A i \in 1..Len(p) : p[i] \in ToSet(p)
    BY <1>2 DEF ToSet
<1>5. p \in Seq(ToSet(p))
    BY <1>2, <1>4, SMTT(60)
<1> QED
    BY <1>3, <1>5 DEF AllWellMade, IsList

LEMMA ListConcat ==
    ASSUME NEW q, AllWellMade(q), NEW r, AllWellMade(r)
    PROVE  AllWellMade(q \o r)
<1> DEFINE p == q \o r
           S == ToSet(q) \cup ToSet(r)
<1>1. q \in Seq(S) /\ r \in Seq(S)
    BY DEF AllWellMade, IsList
<1>2. p \in Seq(S) /\ Len(p) = Len(q) + Len(r) /\ Len(q) \in Nat /\ Len(r) \in Nat
      /\ DOMAIN p = 1..Len(q) + Len(r) /\ DOMAIN q = 1..Len(q) /\ DOMAIN r = 1..Len(r)
      /\ \A i \in 1..Len(p) : p[i] = IF i <= Len(q) THEN q[i] ELSE r[i - Len(q)]
    BY <1>1, ConcatProperties
<1>3. \A i \in DOMAIN p : WellMade(p[i])
    BY <1>2 DEF AllWellMade
<1>4. \A i \in 1..Len(p) : p[i] \in ToSet(p)
    BY <1>2 DEF ToSet
<1>5. p \in Seq(ToSet(p))
    BY <1>2, <1>4, SMTT(60)
<1> QED
    BY <1>3, <1>5 DEF AllWellMade, IsList

LEMMA SizedNumber == ASSUME NEW v, IsNumber(v), Sized(v) PROVE v \in Numbers
<1>1. v = [t |-> v.t, num |-> v.num] /\ v.num \in Int /\ (v.t = "int" => v.num % 10 = 0)
    BY DEF Sized
<1>2. CASE v.t = "int"
    <2>1. v.num = 10 * (v.num \div 10) /\ v.num \div 10 \in Int
        BY <1>1, <1>2
    <2>2. v = IntValue(v.num \div 10)
        BY <1>1, <1>2, <2>1 DEF IntValue
    <2> QED
        BY <2>1, <2>2 DEF Numbers
<1>3. CASE v.t = "float"
    BY <1>1, <1>3 DEF Numbers, FloatValue
<1> QED
    BY <1>2, <1>3 DEF IsNumber

LEMMA ReadNumbers ==
    ASSUME NEW as \in {"number", "pair", "point"}, NEW i \in Int, NEW v, NumbersSized(v),
           ReadPoint(as, i, v) # {}, NEW p, p = TheOne(ReadPoint(as, i, v))
    PROVE  p.x \in Numbers /\ p.y \in Numbers
<1>1. p \in ReadPoint(as, i, v)
    BY DEF TheOne
<1>2. CASE p \in PairOf(v)
    <2>1. /\ HasItems(v, 2) /\ IsNumber(v.items[1]) /\ IsNumber(v.items[2])
          /\ p = [x |-> v.items[1], y |-> v.items[2]]
        BY <1>2 DEF PairOf
    <2> QED
        BY <2>1, SizedNumber DEF NumbersSized
<1>3. CASE as = "number"
    <2>1. IsNumber(v) /\ p = [x |-> IntValue(i - 1), y |-> v]
        BY <1>1, <1>3 DEF ReadPoint, CoordOf
    <2>2. IntValue(i - 1) \in Numbers
        BY DEF Numbers
    <2> QED
        BY <2>1, <2>2, SizedNumber DEF NumbersSized
<1>4. CASE as = "point" /\ p \notin PairOf(v)
    <2>1. /\ HasFields(v, {"x", "y"}) /\ IsNumber(v.fields.x) /\ IsNumber(v.fields.y)
          /\ p = [x |-> v.fields.x, y |-> v.fields.y]
        BY <1>1, <1>4 DEF ReadPoint, PointOf
    <2> QED
        BY <2>1, SizedNumber DEF NumbersSized, HasFields
<1> QED
    BY <1>1, <1>2, <1>3, <1>4 DEF ReadPoint

(* What a list is read as: as many points, of numbers. *)
LEMMA PointsRead ==
    ASSUME NEW items, IsList(items), \A w \in ToSet(items) : NumbersSized(w),
           PointsFrom(items).how = "ok"
    PROVE  \E p : /\ PointsFrom(items) = Yields(p)
                  /\ p # <<>> /\ IsList(p)
                  /\ \A i \in DOMAIN p : p[i].x \in Numbers /\ p[i].y \in Numbers
<1> DEFINE as == ReadAs(items[1])
           points == [i \in DOMAIN items |-> ReadPoint(as, i, items[i])]
           p == [i \in DOMAIN points |-> TheOne(points[i])]
<1>1. items # <<>> /\ as # "unknown" /\ PointsFrom(items) = AllRead(points)
    BY DEF PointsFrom, PointsAs, Fails, Panics, Outcome
<1>2. as \in {"number", "pair", "point"}
    BY <1>1 DEF ReadAs
<1>3. Len(items) \in Nat \ {0} /\ DOMAIN items = 1..Len(items)
    <2>1. items \in Seq(ToSet(items))
        BY DEF IsList
    <2> QED
        BY <1>1, <2>1, EmptySeq, LenProperties
<1> HIDE DEF as
<1>4. AllRead(points) = Yields(p) /\ \A i \in DOMAIN points : points[i] # {}
    <2> HIDE DEF points
    <2>1. AllRead(points).how = "ok"
        BY <1>1
    <2>2. ~(\E i \in DOMAIN points : points[i] = {})
        BY <2>1, Zenon DEF AllRead, Fails, Outcome
    <2> QED
        BY <2>2 DEF AllRead
<1>5. DOMAIN p = 1..Len(items)
    BY <1>3
<1>6. ASSUME NEW i \in DOMAIN p PROVE p[i].x \in Numbers /\ p[i].y \in Numbers
    <2>1. i \in DOMAIN items /\ i \in Int
        BY <1>3, <1>6
    <2>2. points[i] = ReadPoint(as, i, items[i]) /\ points[i] # {} /\ p[i] = TheOne(points[i])
        BY <1>4, <2>1
    <2>3. NumbersSized(items[i])
        BY <2>1 DEF ToSet
    <2> HIDE DEF p, points
    <2> QED
        BY <1>2, <2>1, <2>2, <2>3, ReadNumbers
<1>7. IsList(p) /\ p # <<>>
    <2>1. \A i \in 1..Len(items) : p[i] \in ToSet(p)
        <3> HIDE DEF p
        <3> QED
            BY <1>5 DEF ToSet
    <2>2. p \in [1..Len(items) -> ToSet(p)]
        BY <1>5, <2>1
    <2> HIDE DEF p
    <2>3. 1 \in DOMAIN p /\ 1 \notin DOMAIN <<>>
        BY <1>3, <1>5
    <2> QED
        BY <1>3, <2>2, <2>3 DEF IsList
<1> QED
    BY <1>1, <1>4, <1>6, <1>7

Readable(v) == v.t = "list" => IsList(v.items) /\ \A w \in ToSet(v.items) : NumbersSized(w)

(* A command that makes a series fails, panics, or makes one with points,  *)
(* of the colour that was given or else blue.                              *)
LEMMA SeriesMade ==
    ASSUME NEW kind \in {"line", "bar"}, NEW v, Readable(v), NEW color,
           NEW out, out = SeriesFrom(kind, v, color), out.how = "ok"
    PROVE  /\ WellMade(TheOne(out.values))
           /\ color # {} => ColorsOf(color) # {}
           /\ TheOne(out.values).color = OrElse(ColorsOf(color), Names.blue)
<1>1. v.t = "list" /\ PointsFrom(v.items).how = "ok" /\ (color # {} => ColorsOf(color) # {})
    BY DEF SeriesFrom, PointsFrom, Fails, Panics, Outcome
<1>2. PICK p : /\ PointsFrom(v.items) = Yields(p)
               /\ p # <<>> /\ IsList(p)
               /\ \A i \in DOMAIN p : p[i].x \in Numbers /\ p[i].y \in Numbers
    BY <1>1, PointsRead DEF Readable
<1> DEFINE made(q) == [kind |-> kind, points |-> q, filled |-> kind = "bar", stroke_width |-> 1,
                       color |-> OrElse(ColorsOf(color), Names.blue)]
<1>3. out = Outcome("ok", {made(q) : q \in {p}})
    BY <1>1, <1>2 DEF SeriesFrom, Fails, Panics, Outcome, Yields
<1>4. /\ out.values = {made(p)} /\ made(p).kind = kind /\ made(p).points = p
      /\ made(p).color = OrElse(ColorsOf(color), Names.blue)
    BY <1>3 DEF Outcome
<1> HIDE DEF made
<1>5. TheOne(out.values) = made(p)
    BY <1>4 DEF TheOne
<1>6. WellMade(made(p))
    BY <1>2, <1>4 DEF WellMade
<1> QED
    BY <1>1, <1>4, <1>5, <1>6

-----------------------------------------------------------------------------
(* Charts. *)

(* A chart with a series has its ranges: a series with points has one on   *)
(* either axis, and the first series decides.                              *)
LEMMA ChartsCanBeDrawn ==
    ASSUME NEW c, AllWellMade(c.series), c.series # <<>>
    PROVE  Drawing(c).how = "ok"
<1>1. 1 \in DOMAIN c.series
    <2>1. c.series \in Seq(ToSet(c.series))
        BY DEF AllWellMade, IsList
    <2>2. Len(c.series) \in Nat \ {0} /\ DOMAIN c.series = 1..Len(c.series)
        BY <2>1, EmptySeq, LenProperties
    <2> QED
        BY <2>2
<1>2. ASSUME NEW axis \in {"x", "y"} PROVE ChartRange(c, axis) # {}
    <2> DEFINE ranges == [i \in DOMAIN c.series |-> SeriesRange(c.series[i], axis)]
    <2>1. SeriesRange(c.series[1], axis) # {}
        BY <1>1 DEF AllWellMade, WellMade, SeriesRange
    <2>2. ranges # <<>> /\ ranges[1] # {}
        <3>1. DOMAIN ranges # DOMAIN <<>> /\ ranges[1] = SeriesRange(c.series[1], axis)
            BY <1>1
        <3> QED
            BY <2>1, <3>1
    <2> HIDE DEF ranges
    <2>3. Spanned(ranges) # {}
        BY <2>2 DEF Spanned
    <2> QED
        BY <2>3 DEF ChartRange, ranges
<1> QED
    BY <1>2 DEF Drawing, Yields, Outcome

(* What a call of chart 2d makes of what is piped into it: a chart of the  *)
(* series in hand, after those of the chart it extends, or no chart.       *)
LEMMA ChartOfSeries ==
    ASSUME NEW c, NEW o, IsList(series),
           NEW input \in {"list", "one", "mixed", "chart", "none"},
           input = "one" => Len(series) = 1,
           NEW out, out = ChartFrom(c, Piped(input), o), out.how = "ok"
    PROVE  out.values = {Extended(c, series, o)} /\ ~Unreadable(o)
<1> DEFINE all == [i \in DOMAIN series |-> SeriesValue(series[i])]
           v == Piped(input)
           items == IF v.t = "list" THEN v.items ELSE <<v>>
<1>1. /\ v.t \in {"series", "chart", "list"} /\ ~Unreadable(o)
      /\ \A i \in DOMAIN items : items[i].t = "series"
      /\ out.values = {Extended(c, [i \in DOMAIN items |-> items[i].series], o)}
    BY DEF ChartFrom, Panics, Fails, Yields, Outcome
<1>2. /\ series \in Seq(ToSet(series)) /\ DOMAIN series = 1..Len(series) /\ Len(series) \in Nat
      /\ series \in [1..Len(series) -> ToSet(series)]
    BY LenProperties DEF IsList
<1>3. CASE input = "list"
    <2>1. items = all
        BY <1>3 DEF Piped, List
    <2> QED
        BY <1>1, <1>2, <2>1 DEF SeriesValue
<1>4. CASE input = "one"
    <2>1. v = SeriesValue(series[1]) /\ Len(series) = 1
        BY <1>2, <1>4 DEF Piped
    <2>2. items = <<SeriesValue(series[1])>>
        BY <2>1 DEF SeriesValue
    <2>3. [i \in DOMAIN items |-> items[i].series] = series
        <3>1. DOMAIN items = 1..1 /\ items[1].series = series[1]
            BY <2>2 DEF SeriesValue
        <3>2. series = [i \in 1..1 |-> series[i]] /\ \A i \in 1..1 : i = 1
            BY <1>2, <2>1
        <3> HIDE DEF items
        <3> QED
            BY <3>1, <3>2
    <2> QED
        BY <1>1, <2>3
<1>5. CASE input = "mixed"
    <2>1. items = Append(all, IntValue(0))
        BY <1>5 DEF Piped, List
    <2>2. all \in Seq(ToSet(all)) /\ Len(all) = Len(series)
        <3>1. DOMAIN all = 1..Len(series) /\ \A i \in 1..Len(series) : all[i] \in ToSet(all)
            BY <1>2 DEF ToSet
        <3>2. all \in [1..Len(series) -> ToSet(all)]
            BY <3>1
        <3> HIDE DEF all
        <3> QED
            BY <1>2, <3>1, <3>2
    <2>3. Len(all) + 1 \in DOMAIN items /\ items[Len(all) + 1] = IntValue(0)
        BY <1>2, <2>1, <2>2
    <2> QED
        BY <1>1, <2>3 DEF IntValue
<1>6. CASE input = "chart"
    BY <1>1, <1>6 DEF Piped
<1>7. CASE input = "none"
    BY <1>1, <1>7 DEF Piped, Nothing
<1> QED
    BY <1>3, <1>4, <1>5, <1>6, <1>7
-----------------------------------------------------------------------------
(* What is in hand from one command to the next. *)

ChartOK(c) == /\ AllWellMade(c.series)
              /\ Len(c.margin) = 4 /\ Len(c.label_area) = 4
              /\ c.width \in Nat /\ c.height \in Nat
              /\ \A r \in c.x_range : IsRange(r)

HandInv == /\ exit \in {"no", "series", "chart", "draw", "render"}
           /\ AllWellMade(series)
           /\ \A c \in chart : ChartOK(c)

LEMMA EmptyList == AllWellMade(<<>>)
BY DEF AllWellMade, IsList

LEMMA OneOption ==
    ASSUME NEW o \in OptionCalls, NEW f \in OptionNames
    PROVE  o[f] \subseteq Options[f] /\ \A a, b \in o[f] : a = b
<1>1. \A g \in OptionNames : NoOptions[g] = {}
    BY DEF OptionNames, NoOptions
<1>2. ASSUME NEW g \in OptionNames, NEW v \in Options[g], o = [NoOptions EXCEPT ![g] = {v}]
      PROVE  o[f] = IF f = g THEN {v} ELSE {}
    BY <1>1, <1>2 DEF OptionNames
<1>3. CASE o = NoOptions
    BY <1>1, <1>3
<1>4. CASE \E g \in OptionNames : \E v \in Options[g] : o = [NoOptions EXCEPT ![g] = {v}]
    BY <1>2, <1>4
<1> QED
    BY <1>3, <1>4 DEF OptionCalls

(* A side shorthand of any length sets four sides. *)
LEMMA FourSides == ASSUME NEW list PROVE Len(Sides(list)) = 4
<1>1. Len(SubSeq(list, 1, 4)) = 4
    <2> DEFINE S == {list[i] : i \in 1..4}
    <2>1. \A i \in 1..4 : list[i] \in S
        OBVIOUS
    <2> QED
        BY <2>1, SubSeqProperties
<1> QED
    BY <1>1 DEF Sides

Base(extend) == IF extend THEN TheOne(chart) ELSE EmptyChart
Before(extend) == IF extend THEN written ELSE NoOptions
After(extend, o) == [f \in OptionNames |-> IF o[f] # {} THEN o[f] ELSE Before(extend)[f]]

Makes(extend, o) == /\ extend => chart # {}
                    /\ chart' = {Extended(Base(extend), series, o)} /\ ~Unreadable(o)
                    /\ series' = <<>> /\ exit' = exit
                    /\ written' = After(extend, o)
                    /\ last' = [op |-> "chart", how |-> "ok", given |-> o]

(* A call of chart 2d panics, fails or makes a chart. *)
LEMMA ChartCalls ==
    ASSUME HandInv, NEW extend \in BOOLEAN, NEW o \in OptionCalls,
           NEW input \in {"list", "one", "mixed", "chart", "none"}, MakeChart(input, extend, o)
    PROVE  Dies("chart") \/ Reports("chart") \/ Makes(extend, o)
<1> DEFINE out == ChartFrom(Base(extend), Piped(input), o)
<1>1. /\ extend => chart # {}
      /\ input = "one" => Len(series) = 1
      /\ \/ Dies("chart") \/ Reports("chart")
         \/ /\ out.how = "ok" /\ chart' = out.values /\ series' = <<>> /\ exit' = exit
            /\ written' = After(extend, o)
            /\ last' = [op |-> "chart", how |-> "ok", given |-> o]
    BY DEF MakeChart, Base, Before, After
<1>2. out.how = "ok" => out.values = {Extended(Base(extend), series, o)} /\ ~Unreadable(o)
    BY <1>1, ChartOfSeries DEF HandInv, AllWellMade
<1> QED
    BY <1>1, <1>2 DEF Makes

LEMMA BaseOK ==
    ASSUME HandInv, NEW extend \in BOOLEAN, extend => chart # {}
    PROVE  ChartOK(Base(extend)) /\ (extend => Base(extend) \in chart)
<1>1. CASE extend
    <2>1. Base(extend) \in chart
        BY <1>1 DEF Base, TheOne
    <2> QED
        BY <2>1 DEF HandInv
<1>2. CASE ~extend
    BY <1>2, EmptyList DEF Base, ChartOK, EmptyChart
<1> QED
    BY <1>1, <1>2

LEMMA GivenRanges ==
    ASSUME NEW v, NumbersSized(v), NEW r \in RangeOf(v)
    PROVE  IsRange(r)
<1>1. ASSUME NEW a, IsNumber(a), Sized(a) PROVE a \in Numbers /\ FloatValue(AsFloat(a)) \in Numbers
    <2>1. a \in Numbers
        BY <1>1, SizedNumber
    <2>2. AsFloat(a) \in Int
        BY <2>1, NumbersAreFloats
    <2> QED
        BY <2>1, <2>2 DEF Numbers
<1>2. PICK a, b \in Numbers : r = Between(a, b)
    <2>1. CASE v.t = "range" /\ Len(v.ends) = 2
        <3>1. /\ IsNumber(v.ends[1]) /\ Sized(v.ends[1])
              /\ IsNumber(v.ends[2]) /\ Sized(v.ends[2])
            BY <2>1 DEF NumbersSized
        <3>2. RangeOf(v) = {Between(FloatValue(AsFloat(v.ends[1])), FloatValue(AsFloat(v.ends[2])))}
            BY <2>1 DEF RangeOf, HasFields
        <3> QED
            BY <1>1, <3>1, <3>2
    <2>2. CASE v.t = "list"
        <3>1. /\ IsNumber(v.items[1]) /\ IsNumber(v.items[2]) /\ Len(v.items) = 2
              /\ r = Between(v.items[1], v.items[2])
            BY <2>2 DEF RangeOf, HasFields
        <3>2. Sized(v.items[1]) /\ Sized(v.items[2])
            BY <2>2, <3>1 DEF NumbersSized, HasItems
        <3> QED
            BY <1>1, <3>1, <3>2
    <2>3. CASE v.t = "record"
        <3>1. /\ HasFields(v, {"min", "max"}) /\ IsNumber(v.fields.min) /\ IsNumber(v.fields.max)
              /\ r = Between(v.fields.min, v.fields.max)
            BY <2>3 DEF RangeOf
        <3>2. Sized(v.fields.min) /\ Sized(v.fields.max)
            BY <2>3, <3>1 DEF NumbersSized, HasFields
        <3> QED
            BY <1>1, <3>1, <3>2
    <2> QED
        BY <2>1, <2>2, <2>3 DEF RangeOf, HasFields
<1> QED
    BY <1>2, BetweenIsRange

LEMMA ExtendedOK ==
    ASSUME NEW c, ChartOK(c), NEW o \in OptionCalls, AllWellMade(series)
    PROVE  ChartOK(Extended(c, series, o))
<1> DEFINE e == Extended(c, series, o)
<1>1. AllWellMade(e.series)
    BY ListConcat DEF ChartOK, Extended
<1>2. Len(e.margin) = 4 /\ Len(e.label_area) = 4
    BY FourSides DEF ChartOK, Extended, SidesOrElse
<1>3. o.width \subseteq Nat /\ o.height \subseteq Nat
    BY OneOption, DisplayAssumption DEF OptionNames, NoOptions
<1>4. e.width \in Nat /\ e.height \in Nat
    BY <1>3 DEF ChartOK, Extended, OrElse, TheOne
<1>5. \A r \in e.x_range : IsRange(r)
    <2>1. o.x_range \subseteq Options.x_range
        BY OneOption DEF OptionNames, NoOptions
    <2>2. \A r \in RangesOf(o.x_range) : IsRange(r)
        BY <2>1, GivenRanges, DisplayAssumption DEF RangesOf
    <2> QED
        BY <2>2 DEF ChartOK, Extended, KeptOr
<1> QED
    BY <1>1, <1>2, <1>4, <1>5 DEF ChartOK

LEMMA HandInit == Init => HandInv
BY EmptyList DEF Init, HandInv

LEMMA HandDies ==
    ASSUME NEW c \in {"series", "chart", "draw", "render"}, Dies(c)
    PROVE  HandInv'
BY EmptyList DEF Dies, HandInv

(* A command that makes a series panics, fails or has one more in hand.    *)
Adds(color) == /\ AllWellMade(series') /\ series' # <<>>
               /\ Last(series').color = OrElse(ColorsOf(color), Names.blue)
               /\ color # {} => ColorsOf(color) # {}
               /\ last' = [op |-> "series", how |-> "ok", color |-> color]
               /\ UNCHANGED <<exit, chart, written>>

LEMMA SeriesCalls ==
    ASSUME HandInv, NEW kind \in {"line", "bar"}, NEW v, Readable(v), NEW color,
           MakeSeries(kind, v, color)
    PROVE  Dies("series") \/ Reports("series") \/ Adds(color)
<1> DEFINE out == SeriesFrom(kind, v, color)
           s == TheOne(out.values)
<1>1. \/ Dies("series") \/ Reports("series")
      \/ /\ out.how = "ok" /\ series' = Append(series, s) /\ UNCHANGED <<exit, chart, written>>
         /\ last' = [op |-> "series", how |-> "ok", color |-> color]
    BY DEF MakeSeries
<1>2. CASE out.how = "ok" /\ series' = Append(series, s)
    <2>1. /\ WellMade(s) /\ (color # {} => ColorsOf(color) # {})
          /\ s.color = OrElse(ColorsOf(color), Names.blue)
        BY <1>2, SeriesMade
    <2> HIDE DEF s, out
    <2>2. AllWellMade(series')
        BY <1>2, <2>1, ListAppend DEF HandInv
    <2>3. series' # <<>> /\ Last(series') = s
        <3>1. series \in Seq(ToSet(series) \cup {s})
            BY DEF HandInv, AllWellMade, IsList
        <3>2. Len(series') = Len(series) + 1 /\ Len(series) \in Nat /\ series'[Len(series')] = s
            BY <1>2, <3>1
        <3>3. Len(series') # Len(<<>>)
            BY <3>2
        <3> QED
            BY <3>2, <3>3 DEF Last
    <2>4. Dies("series") \/ Reports("series")
          \/ (/\ UNCHANGED <<exit, chart, written>>
              /\ last' = [op |-> "series", how |-> "ok", color |-> color])
        BY <1>1
    <2> QED
        BY <2>1, <2>2, <2>3, <2>4 DEF Adds
<1> QED
    BY <1>1, <1>2

LEMMA ReadableInputs ==
    /\ \A v \in Inputs : Readable(v)
    /\ Readable(List(<<IntValue(0)>>))
<1>1. \A v \in Inputs : Readable(v)
    BY DisplayAssumption DEF Readable, IsList
<1>2. IsList(<<IntValue(0)>>) /\ ToSet(<<IntValue(0)>>) = {IntValue(0)}
    BY DEF IsList, ToSet
<1>3. NumbersSized(IntValue(0))
    BY DEF NumbersSized, Sized, IntValue, HasItems
<1> QED
    BY <1>1, <1>2, <1>3 DEF Readable, List

LEMMA HandStep == HandInv /\ [Next]_vars => HandInv'
<1> SUFFICES ASSUME HandInv, [Next]_vars PROVE HandInv'
    OBVIOUS
<1>1. ASSUME NEW kind \in {"line", "bar"}, NEW v, Readable(v), NEW color, MakeSeries(kind, v, color)
      PROVE  HandInv'
    <2>1. CASE Dies("series") \/ Reports("series")
        BY <2>1, HandDies DEF Reports, HandInv
    <2>2. CASE Adds(color)
        BY <2>2 DEF Adds, HandInv
    <2> QED
        BY <1>1, <2>1, <2>2, SeriesCalls
<1>2. ASSUME NEW kind \in {"line", "bar"}, NEW input \in Inputs, MakeSeries(kind, input, {})
      PROVE  HandInv'
    BY <1>1, <1>2, ReadableInputs
<1>3. ASSUME NEW c \in Colours, MakeSeries("line", List(<<IntValue(0)>>), {c})
      PROVE  HandInv'
    BY <1>1, <1>3, ReadableInputs
<1>4. ASSUME NEW input \in {"list", "one", "mixed", "chart", "none"}, NEW extend \in BOOLEAN,
             NEW o \in OptionCalls, MakeChart(input, extend, o)
      PROVE  HandInv'
    <2>1. CASE Dies("chart") \/ Reports("chart")
        BY <2>1, HandDies DEF Reports, HandInv
    <2>2. CASE Makes(extend, o)
        <3>1. ChartOK(Extended(Base(extend), series, o))
            BY <2>2, BaseOK, ExtendedOK DEF Makes, HandInv
        <3> QED
            BY <2>2, <3>1, EmptyList DEF Makes, HandInv
    <2> QED
        BY <1>4, <2>1, <2>2, ChartCalls
<1>5. CASE DrawPixels
    BY <1>5, HandDies, EmptyList DEF DrawPixels, HandInv
<1>6. ASSUME NEW type \in {"chart", "table", "text"}, Show(type, Filters, Failing) PROVE HandInv'
    BY <1>6, HandDies, EmptyList DEF Show, HandInv
<1>7. CASE UNCHANGED vars
    BY <1>7 DEF vars, HandInv
<1> QED
    BY <1>2, <1>3, <1>4, <1>5, <1>6, <1>7 DEF Next

LEMMA HandAlways == Spec => []HandInv
BY HandInit, HandStep, PTL DEF Spec

(* What the commands hand on is fit for those that take it: a series has a *)
(* point, a chart four sides, and a chart with a series can be drawn.      *)
THEOREM DisplayType == Spec => []TypeOK
<1>1. HandInv => TypeOK
    <2> SUFFICES ASSUME HandInv PROVE TypeOK
        OBVIOUS
    <2>1. \A c \in chart : c.series # <<>> => Drawing(c).how = "ok"
        BY ChartsCanBeDrawn DEF HandInv, ChartOK
    <2> QED
        BY <2>1 DEF HandInv, ChartOK, AllWellMade, WellMade, TypeOK
<1> QED
    BY <1>1, HandAlways, PTL
-----------------------------------------------------------------------------
(* The options of a chart that is extended. *)

Wins(c, w) == /\ c.width = OrElse(w.width, EmptyChart.width)
              /\ c.height = OrElse(w.height, EmptyChart.height)
              /\ c.background = ColorsOf(w.background)
              /\ c.caption = w.caption
              /\ c.x_range = RangesOf(w.x_range) /\ c.y_range = RangesOf(w.y_range)

LEMMA WinsInit == Wins(EmptyChart, NoOptions)
BY DEF Wins, EmptyChart, NoOptions, OrElse, ColorsOf, RangesOf

LEMMA AfterOption ==
    ASSUME NEW extend, NEW o
    PROVE  \A f \in OptionNames :
               After(extend, o)[f] = IF o[f] # {} THEN o[f] ELSE Before(extend)[f]
BY DEF After

LEMMA ExtendedWins ==
    ASSUME NEW extend, NEW o, NEW c, Wins(c, Before(extend)), ~Unreadable(o)
    PROVE  Wins(Extended(c, series, o), After(extend, o))
<1> DEFINE b == Before(extend)
           a == After(extend, o)
           e == Extended(c, series, o)
<1>1. /\ a.width      = IF o.width      # {} THEN o.width      ELSE b.width
      /\ a.height     = IF o.height     # {} THEN o.height     ELSE b.height
      /\ a.background = IF o.background # {} THEN o.background ELSE b.background
      /\ a.caption    = IF o.caption    # {} THEN o.caption    ELSE b.caption
      /\ a.x_range    = IF o.x_range    # {} THEN o.x_range    ELSE b.x_range
      /\ a.y_range    = IF o.y_range    # {} THEN o.y_range    ELSE b.y_range
    BY AfterOption DEF OptionNames, NoOptions
<1>2. ColorsOf({}) = {} /\ RangesOf({}) = {}
    BY DEF ColorsOf, RangesOf
<1>3. /\ o.background # {} => ColorsOf(o.background) # {}
      /\ o.x_range # {} => RangesOf(o.x_range) # {}
      /\ o.y_range # {} => RangesOf(o.y_range) # {}
    BY DEF Unreadable
<1> HIDE DEF a, b
<1>4. e.width = OrElse(a.width, EmptyChart.width) /\ e.height = OrElse(a.height, EmptyChart.height)
    BY <1>1 DEF Wins, Extended, OrElse, b
<1>5. e.caption = a.caption
    BY <1>1 DEF Wins, Extended, KeptOr, b
<1>6. e.background = ColorsOf(a.background)
    BY <1>1, <1>2, <1>3 DEF Wins, Extended, KeptOr, b
<1>7. e.x_range = RangesOf(a.x_range) /\ e.y_range = RangesOf(a.y_range)
    BY <1>1, <1>2, <1>3 DEF Wins, Extended, KeptOr, b
<1> QED
    BY <1>4, <1>5, <1>6, <1>7 DEF Wins, a

(* Who made the chart in hand, if the last command did, says its mesh. *)
MeshIsLast == last.op = "chart" /\ last.how = "ok" =>
    \A c \in chart : c.x_mesh = (TRUE \notin last.given.disable_mesh \cup last.given.disable_x_mesh)

LEMMA MeshElse == last'.op # "chart" \/ last'.how # "ok" => MeshIsLast'
BY DEF MeshIsLast

LEMMA MeshMade ==
    ASSUME NEW c, NEW o, last' = [op |-> "chart", how |-> "ok", given |-> o],
           chart' = {Extended(c, series, o)}
    PROVE  MeshIsLast'
<1>1. Extended(c, series, o).x_mesh = (TRUE \notin o.disable_mesh \cup o.disable_x_mesh)
    BY Zenon DEF Extended
<1>2. last'.given = o
    OBVIOUS
<1> QED
    BY <1>1, <1>2, Zenon DEF MeshIsLast

OptionInv == MeshIsLast /\ \A c \in chart : Wins(c, written)

LEMMA OptionDies == ASSUME NEW c, Dies(c) PROVE OptionInv' /\ SidesAgree'
BY DEF Dies, Idle, OptionInv, MeshIsLast, SidesAgree

LEMMA OptionStep == HandInv /\ OptionInv /\ [Next]_vars => OptionInv'
<1> SUFFICES ASSUME HandInv, OptionInv, [Next]_vars PROVE OptionInv'
    OBVIOUS
<1>1. ASSUME NEW kind, NEW v, NEW color, MakeSeries(kind, v, color) PROVE OptionInv'
    <2>1. CASE Dies("series")
        BY <2>1, OptionDies
    <2>2. CASE UNCHANGED <<chart, written>> /\ last'.op = "series"
        BY <2>2, MeshElse DEF OptionInv
    <2> QED
        BY <1>1, <2>1, <2>2 DEF MakeSeries, Reports
<1>2. ASSUME NEW input \in {"list", "one", "mixed", "chart", "none"}, NEW extend \in BOOLEAN,
             NEW o \in OptionCalls, MakeChart(input, extend, o)
      PROVE  OptionInv'
    <2>1. CASE Dies("chart")
        BY <2>1, OptionDies
    <2>3. CASE Reports("chart")
        <3>1. UNCHANGED <<chart, written>> /\ last'.how = "err"
            BY <2>3 DEF Reports
        <3> QED
            BY <3>1, MeshElse DEF OptionInv
    <2>2. CASE Makes(extend, o)
        <3>1. extend => Base(extend) \in chart
            BY <2>2, BaseOK DEF Makes
        <3>2. Wins(Base(extend), Before(extend))
            BY <3>1, WinsInit DEF OptionInv, Base, Before
        <3>3. Wins(Extended(Base(extend), series, o), written')
            BY <2>2, <3>2, ExtendedWins DEF Makes
        <3>4. MeshIsLast'
            BY <2>2, MeshMade DEF Makes
        <3> QED
            BY <2>2, <3>3, <3>4 DEF Makes, OptionInv
    <2> QED
        BY <1>2, <2>1, <2>2, <2>3, ChartCalls
<1>3. CASE DrawPixels
    BY <1>3, OptionDies DEF DrawPixels, OptionInv, MeshIsLast
<1>4. ASSUME NEW type, Show(type, Filters, Failing) PROVE OptionInv'
    BY <1>4, OptionDies DEF Show, OptionInv, MeshIsLast
<1>5. CASE UNCHANGED vars
    BY <1>5 DEF vars, OptionInv, MeshIsLast
<1> QED
    BY <1>1, <1>2, <1>3, <1>4, <1>5 DEF Next

(* However often a chart is extended, and whatever fails in between, each  *)
(* option is what was given for it last (commands/chart_2d.rs:253-287).    *)
THEOREM OptionsLastWins == Spec => []LastWins
<1>1. Init => OptionInv
    BY DEF Init, OptionInv, MeshIsLast, Idle
<1>2. HandInv /\ OptionInv /\ [Next]_vars => OptionInv'
    BY OptionStep
<1>3. OptionInv => LastWins
    BY DEF OptionInv, MeshIsLast, Wins, LastWins
<1> QED
    BY <1>1, <1>2, <1>3, HandAlways, PTL DEF Spec

-----------------------------------------------------------------------------
(* Sides. *)

LEMMA CssSideAt ==
    ASSUME NEW list, DOMAIN list \subseteq Nat, NEW i, NEW k \in DOMAIN list,
           k = i \/ k = i - 2 \/ k = 1,
           \A j \in DOMAIN list : j = i \/ j = i - 2 \/ j = 1 => j <= k
    PROVE  CssSide(list, i) = list[k]
<1> DEFINE S == {i, i - 2, 1} \cap DOMAIN list
           m == CHOOSE n \in S : \A j \in S : j <= n
<1>1. k \in S /\ \A j \in S : j <= k
    OBVIOUS
<1>2. m \in S /\ \A j \in S : j <= m
    <2> HIDE DEF S
    <2> QED
        BY <1>1
<1>3. k \in Nat /\ m \in Nat /\ m <= k /\ k <= m
    BY <1>1, <1>2
<1>4. m = k
    <2> HIDE DEF m
    <2> QED
        BY <1>3
<1> QED
    BY <1>4 DEF CssSide

LEMMA ShorthandIsCss ==
    ASSUME NEW list \in Seq(Nat), Len(list) \in {1, 2, 4}
    PROVE  Sides(list) = [i \in 1..4 |-> CssSide(list, i)]
<1>1. CASE Len(list) = 1
    <2>1. DOMAIN list = 1..1
        BY <1>1
    <2>2. \A i \in 1..4 : CssSide(list, i) = list[1]
        BY <2>1, CssSideAt
    <2> QED
        BY <1>1, <2>2 DEF Sides
<1>2. CASE Len(list) = 2
    <2>1. DOMAIN list = 1..2
        BY <1>2
    <2>2. CssSide(list, 1) = list[1] /\ CssSide(list, 3) = list[1]
        BY <2>1, CssSideAt, SMTT(60)
    <2>3. CssSide(list, 2) = list[2] /\ CssSide(list, 4) = list[2]
        BY <2>1, CssSideAt, SMTT(60)
    <2> QED
        BY <1>2, <2>2, <2>3 DEF Sides
<1>3. CASE Len(list) = 4
    <2>1. DOMAIN list = 1..4
        BY <1>3
    <2>2. \A i \in 1..4 : CssSide(list, i) = list[i]
        BY <2>1, CssSideAt, SMTT(60)
    <2>3. SubSeq(list, 1, 4) = [i \in 1..4 |-> list[i]]
        BY <1>3
    <2> QED
        BY <1>3, <2>2, <2>3 DEF Sides
<1> QED
    BY <1>1, <1>2, <1>3

LEMMA SidesFollow ==
    ASSUME NEW option \in SUBSET Seq(Nat), \A a, b \in option : a = b,
           NEW old, NEW before, AsInCss(before, old)
    PROVE  AsInCss(IF option # {} THEN option ELSE before, SidesOrElse(option, old))
<1>1. CASE option = {}
    BY <1>1 DEF SidesOrElse
<1>2. ASSUME NEW list \in option, Len(list) \in {1, 2, 4}
      PROVE  SidesOrElse(option, old) = [i \in 1..4 |-> CssSide(list, i)]
    <2>1. TheOne(option) = list
        BY DEF TheOne
    <2> QED
        BY <1>2, <2>1, ShorthandIsCss DEF SidesOrElse
<1> QED
    BY <1>1, <1>2 DEF AsInCss

LEMMA SidesStep == HandInv /\ SidesAgree /\ [Next]_vars => SidesAgree'
<1> SUFFICES ASSUME HandInv, SidesAgree, [Next]_vars PROVE SidesAgree'
    OBVIOUS
<1>1. ASSUME NEW kind, NEW v, NEW color, MakeSeries(kind, v, color) PROVE SidesAgree'
    BY <1>1, OptionDies DEF MakeSeries, Reports, SidesAgree
<1>2. ASSUME NEW input \in {"list", "one", "mixed", "chart", "none"}, NEW extend \in BOOLEAN,
             NEW o \in OptionCalls, MakeChart(input, extend, o)
      PROVE  SidesAgree'
    <2>1. CASE Dies("chart") \/ Reports("chart")
        BY <2>1, OptionDies DEF Reports, SidesAgree
    <2>2. CASE Makes(extend, o)
        <3> DEFINE c == Base(extend)
                   b == Before(extend)
        <3>1. extend => c \in chart
            BY <2>2, BaseOK DEF Makes
        <3>2. AsInCss(b.margin, c.margin) /\ AsInCss(b.label_area, c.label_area)
            BY <3>1 DEF SidesAgree, Base, Before, NoOptions, AsInCss
        <3>3. /\ o.margin \in SUBSET Seq(Nat) /\ \A x, y \in o.margin : x = y
              /\ o.label_area \in SUBSET Seq(Nat) /\ \A x, y \in o.label_area : x = y
            BY OneOption, DisplayAssumption DEF OptionNames, NoOptions
        <3>4. /\ written'.margin = IF o.margin # {} THEN o.margin ELSE b.margin
              /\ written'.label_area = IF o.label_area # {} THEN o.label_area ELSE b.label_area
            BY <2>2, AfterOption DEF Makes, OptionNames, NoOptions
        <3> HIDE DEF b, c
        <3>5. /\ AsInCss(written'.margin, SidesOrElse(o.margin, c.margin))
              /\ AsInCss(written'.label_area, SidesOrElse(o.label_area, c.label_area))
            BY <3>2, <3>3, <3>4, SidesFollow
        <3> QED
            BY <2>2, <3>5 DEF Makes, SidesAgree, Extended, c
    <2> QED
        BY <1>2, <2>1, <2>2, ChartCalls
<1>3. CASE DrawPixels
    BY <1>3, OptionDies DEF DrawPixels, SidesAgree
<1>4. ASSUME NEW type, Show(type, Filters, Failing) PROVE SidesAgree'
    BY <1>4, OptionDies DEF Show, SidesAgree
<1>5. CASE UNCHANGED vars
    BY <1>5 DEF vars, SidesAgree
<1> QED
    BY <1>1, <1>2, <1>3, <1>4, <1>5 DEF Next

(* Margins and label areas given as one, two or four numbers are those of  *)
(* the CSS shorthand, also of a chart that was extended since.             *)
THEOREM SidesAreCss == Spec => []SidesAgree
<1>1. Init => SidesAgree
    BY DEF Init, SidesAgree
<1> QED
    BY <1>1, SidesStep, HandAlways, PTL DEF Spec

-----------------------------------------------------------------------------
(* Pictures. *)

LEMMA RestAtMost == ASSUME NEW n \in Nat, NEW w \in Nat \ {0} PROVE n % w <= n /\ n % w \in Nat
<1>1. n = w * (n \div w) + (n % w) /\ n \div w \in Nat /\ n % w \in Nat
    OBVIOUS
<1>2. w * (n \div w) >= 0
    BY <1>1
<1> QED
    BY <1>1, <1>2

LEMMA PictureStep == HandInv /\ PictureWhole /\ [Next]_vars => PictureWhole'
<1> SUFFICES ASSUME HandInv, PictureWhole, [Next]_vars PROVE PictureWhole'
    OBVIOUS
<1> USE DEF PictureWhole
<1>1. CASE DrawPixels
    <2> DEFINE c == TheOne(chart)
               out == Picture(c)
    <2>1. ChartOK(c)
        BY <1>1 DEF DrawPixels, TheOne, HandInv
    <2>2. CASE Dies("draw")
        BY <2>2 DEF Dies, Idle
    <2>3. CASE out.how = "ok" /\ last' = [op |-> "draw", how |-> "ok", picture |-> TheOne(out.values)]
        <3>0. ~(Bytes(c) < c.height * c.width * 3) /\ out.values = {[
                  width |-> c.width, height |-> c.height, bytes |-> Bytes(c),
                  background |-> OrElse(c.background, Names.white)]}
            BY <2>3 DEF Picture, Panics, Yields, Outcome
        <3>1. /\ ~(Bytes(c) < c.height * c.width * 3)
              /\ last'.picture = [width |-> c.width, height |-> c.height, bytes |-> Bytes(c),
                                  background |-> OrElse(c.background, Names.white)]
            BY <2>3, <3>0 DEF TheOne
        <3>2. c.height * c.width * 3 \in Nat /\ c.height * c.width = c.width * c.height
            BY <2>1 DEF ChartOK
        <3>3. Bytes(c) <= c.height * c.width * 3 /\ Bytes(c) \in Nat
            BY <3>2, RestAtMost, WrapAssumption DEF Bytes
        <3> QED
            BY <3>1, <3>2, <3>3
    <2> QED
        BY <1>1, <2>2, <2>3 DEF DrawPixels
<1>2. ASSUME NEW kind, NEW v, NEW color, MakeSeries(kind, v, color) PROVE PictureWhole'
    BY <1>2 DEF MakeSeries, Reports, Dies, Idle
<1>3. ASSUME NEW input, NEW extend, NEW o, MakeChart(input, extend, o) PROVE PictureWhole'
    BY <1>3 DEF MakeChart, Reports, Dies, Idle
<1>4. ASSUME NEW type, Show(type, Filters, Failing) PROVE PictureWhole'
    BY <1>4 DEF Show, Dies, Idle
<1>5. CASE UNCHANGED vars
    BY <1>5 DEF vars
<1> QED
    BY <1>1, <1>2, <1>3, <1>4, <1>5 DEF Next

(* A picture has three bytes for each of its pixels whatever its size and  *)
(* the width of the integers that count them (draw/png.rs, terminal.rs).   *)
THEOREM PicturesAreWhole == Spec => []PictureWhole
<1>1. Init => PictureWhole
    BY DEF Init, Idle, PictureWhole
<1> QED
    BY <1>1, PictureStep, HandAlways, PTL DEF Spec

-----------------------------------------------------------------------------
(* What a value is shown as. *)

(* What a format adds to what is there, and what is there after the first  *)
(* n formats.                                                              *)
Due(type, drawable, filter, failing, f) ==
    /\ f \notin failing /\ type \in Takes[f] /\ filter \in {"none", f}
    /\ f = "svg" => drawable
Added(type, drawable, filter, failing, n) ==
    {"text"} \cup {f \in {Formats[i] : i \in 1..n} : Due(type, drawable, filter, failing, f)}

(* Trying a format panics, or adds it if it is due. *)
Tried(type, drawable, filter, failing, got, format) ==
    IF got.how = "panic" \/ ~MatchFilter(filter, format) \/ type \notin Takes[format] THEN got
    ELSE IF format = "svg" /\ ~drawable THEN Panics
    ELSE IF format \in failing THEN got
    ELSE Outcome("ok", got.values \cup {format})

LEMMA TriedAdds ==
    ASSUME NEW type, NEW drawable \in BOOLEAN, NEW filter, NEW failing, NEW n \in 0..4, NEW got,
           got = Panics \/ got = Outcome("ok", Added(type, drawable, filter, failing, n)),
           NEW next, next = Tried(type, drawable, filter, failing, got, Formats[n + 1])
    PROVE  next = Panics \/ next = Outcome("ok", Added(type, drawable, filter, failing, n + 1))
<1> DEFINE f == Formats[n + 1]
           old == Added(type, drawable, filter, failing, n)
           new == Added(type, drawable, filter, failing, n + 1)
<1>1. new = old \cup (IF Due(type, drawable, filter, failing, f) THEN {f} ELSE {})
    <2>1. {Formats[i] : i \in 1..(n + 1)} = {Formats[i] : i \in 1..n} \cup {f}
        <3>1. 1..(n + 1) = 1..n \cup {n + 1}
            OBVIOUS
        <3> QED
            BY <3>1
    <2> QED
        BY <2>1 DEF Added
<1>2. CASE got = Panics
    BY <1>2 DEF Tried, Panics, Outcome
<1>3. CASE got = Outcome("ok", old)
    <2>1. got.how # "panic" /\ got.values = old
        BY <1>3 DEF Outcome
    <2> HIDE DEF old, new, f
    <2>2. next = Tried(type, drawable, filter, failing, got, f)
        BY DEF f
    <2>3. \/ next = Panics
          \/ Due(type, drawable, filter, failing, f) /\ next = Outcome("ok", got.values \cup {f})
          \/ ~Due(type, drawable, filter, failing, f) /\ next = got
        BY <2>1, <2>2 DEF Tried, Due, MatchFilter
    <2>4. old \cup {} = old
        OBVIOUS
    <2>5. next = Panics \/ next = Outcome("ok", new)
        BY <1>1, <1>3, <2>1, <2>3, <2>4
    <2> QED
        BY <2>5 DEF new
<1> QED
    BY <1>2, <1>3

LEMMA RenderSteps ==
    ASSUME NEW type, NEW drawable \in BOOLEAN, NEW filter, NEW failing,
           NEW out, out = Render(type, drawable, filter, failing), out.how = "ok"
    PROVE  "text" \notin failing /\ out.values = Added(type, drawable, filter, failing, 5)
<1> DEFINE Try(got, f) == Tried(type, drawable, filter, failing, got, f)
           Def(g) == g = [i \in 0..Len(Formats) |->
                             IF i = 0 THEN Outcome("ok", {"text"}) ELSE Try(g[i - 1], Formats[i])]
           after == CHOOSE g : Def(g)
<1>1. "text" \notin failing /\ out = after[Len(Formats)]
    BY DEF Render, Panics, Outcome, Tried
<1>2. Len(Formats) = 5
    BY DEF Formats
<1>3. PICK g : Def(g)
    <2> DEFINE g0 == Outcome("ok", {"text"})
               g1 == Try(g0, Formats[1])
               g2 == Try(g1, Formats[2])
               g3 == Try(g2, Formats[3])
               g4 == Try(g3, Formats[4])
               g5 == Try(g4, Formats[5])
               g == [i \in 0..5 |-> CASE i = 0 -> g0 [] i = 1 -> g1 [] i = 2 -> g2
                                      [] i = 3 -> g3 [] i = 4 -> g4 [] i = 5 -> g5]
    <2> HIDE DEF Try
    <2>1. g[0] = g0 /\ g[1] = g1 /\ g[2] = g2 /\ g[3] = g3 /\ g[4] = g4 /\ g[5] = g5
        <3> HIDE DEF g0, g1, g2, g3, g4, g5
        <3> QED
            OBVIOUS
    <2> DEFINE h == [i \in 0..5 |-> IF i = 0 THEN g0 ELSE Try(g[i - 1], Formats[i])]
    <2>2. h[0] = g0 /\ h[1] = Try(g[0], Formats[1]) /\ h[2] = Try(g[1], Formats[2])
          /\ h[3] = Try(g[2], Formats[3]) /\ h[4] = Try(g[3], Formats[4]) /\ h[5] = Try(g[4], Formats[5])
        <3> HIDE DEF g, g0
        <3> QED
            OBVIOUS
    <2>3. \A i \in 0..5 : g[i] = h[i]
        <3>1. g[0] = h[0] /\ g[1] = h[1] /\ g[2] = h[2] /\ g[3] = h[3] /\ g[4] = h[4] /\ g[5] = h[5]
            BY <2>1, <2>2
        <3> HIDE DEF g, h
        <3> QED
            BY <3>1
    <2>4. g = h
        <3>1. g = [i \in 0..5 |-> g[i]] /\ h = [i \in 0..5 |-> h[i]]
            OBVIOUS
        <3> HIDE DEF g, h
        <3> QED
            BY <2>3, <3>1
    <2> QED
        BY <1>2, <2>4
<1>4. PICK a : a = after /\ Def(a)
    <2> HIDE DEF Def
    <2> QED
        BY <1>3
<1>5. /\ a[0] = Outcome("ok", {"text"})
      /\ \A i \in 0..4 : a[i + 1] = Try(a[i], Formats[i + 1])
    <2>1. a = [i \in 0..5 |-> IF i = 0 THEN Outcome("ok", {"text"}) ELSE Try(a[i - 1], Formats[i])]
        BY <1>2, <1>4
    <2> HIDE DEF Try
    <2> QED
        BY <2>1
<1> DEFINE OK(i) == a[i] = Panics \/ a[i] = Outcome("ok", Added(type, drawable, filter, failing, i))
<1>6. OK(0)
    BY <1>5 DEF Added
<1>7. \A i \in 0..4 : OK(i) => OK(i + 1)
    BY <1>5, TriedAdds
<1> HIDE DEF OK
<1>8. OK(5)
    BY <1>6, <1>7
<1>9. OK(5) => a[5] = Panics \/ a[5] = Outcome("ok", Added(type, drawable, filter, failing, 5))
    BY DEF OK
<1> QED
    BY <1>1, <1>2, <1>4, <1>8, <1>9 DEF Panics, Outcome

LEMMA ShownStep == ShownAsAsked /\ [Next]_vars => ShownAsAsked'
<1> SUFFICES ASSUME ShownAsAsked, [Next]_vars PROVE ShownAsAsked'
    OBVIOUS
<1>1. ASSUME NEW type \in {"chart", "table", "text"}, Show(type, Filters, Failing)
      PROVE  ShownAsAsked'
    <2>1. CASE Dies("render")
        BY <2>1 DEF Dies, Idle, ShownAsAsked
    <2>2. ASSUME NEW drawable \in BOOLEAN, NEW filter, NEW failing,
                 NEW out, out = Render(type, drawable, filter, failing), out.how = "ok",
                 last' = [op |-> "show", how |-> "ok", type |-> type, drawable |-> drawable,
                          filter |-> filter, failing |-> failing, data |-> out.values]
          PROVE  ShownAsAsked'
        <3>1. out.values = Added(type, drawable, filter, failing, 5)
            BY <2>2, RenderSteps
        <3>2. {Formats[i] : i \in 1..5} = ToSet(Formats)
            BY DEF ToSet, Formats
        <3>3. out.values = {"text"} \cup {f \in ToSet(Formats) \ failing :
                                /\ type \in Takes[f] /\ filter \in {"none", f}
                                /\ f = "svg" => drawable}
            BY <3>1, <3>2 DEF Added, Due
        <3> QED
            BY <2>2, <3>3 DEF ShownAsAsked
    <2> QED
        BY <1>1, <2>1, <2>2 DEF Show
<1>2. ASSUME NEW kind, NEW v, NEW color, MakeSeries(kind, v, color) PROVE ShownAsAsked'
    BY <1>2 DEF MakeSeries, Reports, Dies, Idle, ShownAsAsked
<1>3. ASSUME NEW input, NEW extend, NEW o, MakeChart(input, extend, o) PROVE ShownAsAsked'
    BY <1>3 DEF MakeChart, Reports, Dies, Idle, ShownAsAsked
<1>4. CASE DrawPixels
    BY <1>4 DEF DrawPixels, Dies, Idle, ShownAsAsked
<1>5. CASE UNCHANGED vars
    BY <1>5 DEF vars, ShownAsAsked
<1> QED
    BY <1>1, <1>2, <1>3, <1>4, <1>5 DEF Next

(* A value is shown as text and in each format its type, the filter and    *)
(* its renderer allow, whichever of the others fail (render.rs:144-262).   *)
THEOREM ShownInEveryFormat == Spec => []ShownAsAsked
<1>1. Init => ShownAsAsked
    BY DEF Init, Idle, ShownAsAsked
<1> QED
    BY <1>1, ShownStep, PTL DEF Spec

-----------------------------------------------------------------------------
(* Colours. *)

LEMMA BlueIsColor == IsColor(Names.blue)
<1>1. 0 \in Channel /\ 255 \in Channel /\ 10 \in Alpha
    BY DEF Channel, Alpha
<1>2. Names.blue = Color(0, 0, 255, 10)
    BY DEF Names
<1> QED
    BY <1>1, <1>2, ColorIsColor

LEMMA OtherForms ==
    ASSUME NEW w \in Colours, w.t = "string", Len(w.chars) = 4, NEW c \in ColorOf(w)
    PROVE  ColorOf(String(Doubled(w.chars))) = {c}
<1>1. w.chars \in Seq(ToSet(w.chars))
    BY DisplayAssumption
<1>2. c \in StringColor(w.chars)
    BY DEF ColorOf
<1>3. StringColor(Doubled(w.chars)) = {c}
    BY <1>1, <1>2, ShortFormReads DEF Doubled
<1> QED
    BY <1>3 DEF ColorOf, String

LEMMA AddedReadsBack ==
    ASSUME NEW color, color = {} \/ \E c \in Colours : color = {c}, Adds(color)
    PROVE  ColoursReadBack'
<1> DEFINE c == Last(series').color
<1>1. c = OrElse(ColorsOf(color), Names.blue) /\ last'.color = color
    BY DEF Adds
<1> HIDE DEF c
<1>2. IsColor(c) /\ \A w \in color : w \in Colours /\ c \in ColorOf(w)
    <2>1. CASE color = {}
        <3>1. ColorsOf(color) = {}
            BY <2>1 DEF ColorsOf
        <3> QED
            BY <1>1, <2>1, <3>1, BlueIsColor DEF OrElse
    <2>2. ASSUME NEW w \in Colours, color = {w} PROVE IsColor(c) /\ c \in ColorOf(w)
        <3>1. ColorsOf(color) = ColorOf(w)
            BY <2>2 DEF ColorsOf
        <3>2. c \in ColorOf(w)
            BY <1>1, <2>2, <3>1 DEF Adds, OrElse, TheOne
        <3> QED
            BY <3>2, ReadsAreColors
    <2> QED
        BY <2>1, <2>2
<1>3. /\ ColorOf(ColorValue(c)) = {c}
      /\ LET v == ColorValue(c)
         IN  ColorOf(List(<<v.fields.r, v.fields.g, v.fields.b, v.fields.a>>)) = {c}
    BY <1>2, ShownReadsBack
<1>4. \A w \in color : w.t = "string" /\ Len(w.chars) = 4 => ColorOf(String(Doubled(w.chars))) = {c}
    BY <1>2, OtherForms
<1> QED
    BY <1>1, <1>3, <1>4 DEF ColoursReadBack, c

LEMMA ColoursElse == last'.op # "series" \/ last'.how # "ok" => ColoursReadBack'
BY DEF ColoursReadBack

LEMMA ColoursStep == HandInv /\ ColoursReadBack /\ [Next]_vars => ColoursReadBack'
<1> SUFFICES ASSUME HandInv, ColoursReadBack, [Next]_vars PROVE ColoursReadBack'
    OBVIOUS
<1>1. ASSUME NEW kind \in {"line", "bar"}, NEW v, Readable(v), NEW color,
             color = {} \/ \E c \in Colours : color = {c}, MakeSeries(kind, v, color)
      PROVE  ColoursReadBack'
    <2>1. CASE Dies("series") \/ Reports("series")
        BY <2>1, ColoursElse DEF Dies, Idle, Reports
    <2>2. CASE Adds(color)
        BY <1>1, <2>2, AddedReadsBack
    <2> QED
        BY <1>1, <2>1, <2>2, SeriesCalls
<1>2. ASSUME NEW kind \in {"line", "bar"}, NEW input \in Inputs, MakeSeries(kind, input, {})
      PROVE  ColoursReadBack'
    BY <1>1, <1>2, ReadableInputs
<1>3. ASSUME NEW c \in Colours, MakeSeries("line", List(<<IntValue(0)>>), {c})
      PROVE  ColoursReadBack'
    BY <1>1, <1>3, ReadableInputs
<1>4. ASSUME NEW input, NEW extend, NEW o, MakeChart(input, extend, o) PROVE ColoursReadBack'
    BY <1>4, ColoursElse DEF MakeChart, Dies, Idle, Reports
<1>5. CASE DrawPixels
    BY <1>5, ColoursElse DEF DrawPixels, Dies, Idle
<1>6. ASSUME NEW type, Show(type, Filters, Failing) PROVE ColoursReadBack'
    BY <1>6, ColoursElse DEF Show, Dies, Idle
<1>7. CASE UNCHANGED vars
    BY <1>7 DEF vars, ColoursReadBack
<1> QED
    BY <1>2, <1>3, <1>4, <1>5, <1>6, <1>7 DEF Next

(* The colour of a series is the same however it is written: as the record *)
(* it is shown as, as a list, and, of three hexadecimal digits, as the six *)
(* that repeat them (value/color.rs), for any colour that is accepted.     *)
THEOREM ColoursRoundTrip == Spec => []ColoursReadBack
<1>1. Init => ColoursReadBack
    BY DEF Init, Idle, ColoursReadBack
<1> QED
    BY <1>1, ColoursStep, HandAlways, PTL DEF Spec

-----------------------------------------------------------------------------
(* The axes of a chart. *)

LEMMA ListIndices ==
    ASSUME NEW q, IsList(q), q # <<>>
    PROVE  Len(q) \in Nat \ {0} /\ DOMAIN q = 1..Len(q) /\ 1 \in DOMAIN q
<1>1. q \in Seq(ToSet(q))
    BY DEF IsList
<1>2. Len(q) \in Nat \ {0} /\ DOMAIN q = 1..Len(q)
    BY <1>1, EmptySeq, LenProperties
<1> QED
    BY <1>2

LEMMA SmallNumbers ==
    /\ IntValue(0) \in Numbers /\ AsFloat(IntValue(0)) = 0
    /\ FloatValue(4) \in Numbers /\ AsFloat(FloatValue(4)) = 4
    /\ FloatValue(5) \in Numbers /\ AsFloat(FloatValue(5)) = 5
    /\ HalfWidth = FloatValue(4)
<1>1. IntValue(0) \in Numbers /\ FloatValue(4) \in Numbers /\ FloatValue(5) \in Numbers
    BY DEF Numbers
<1>2. Rounded(0) = 0 /\ Rounded(20) = 20 /\ Rounded(4) = 4
    BY RoundedSmall
<1>3. AsFloat(IntValue(0)) = 0 /\ AsFloat(IntValue(2)) = 20
    BY <1>2 DEF AsFloat, IntValue
<1>4. AsFloat(FloatValue(4)) = 4 /\ AsFloat(FloatValue(5)) = 5 /\ AsFloat(FloatValue(8)) = 8
    BY DEF AsFloat, FloatValue
<1>5. HalfWidth = FloatValue(4)
    BY <1>2, <1>3, <1>4 DEF HalfWidth, Over
<1> QED
    BY <1>1, <1>3, <1>4, <1>5

(* Half a unit and the half width of a bar to either side. *)
LEMMA Aside ==
    ASSUME NEW c \in Numbers, NEW w \in {4, 5}
    PROVE  /\ Minus(c, FloatValue(w)) \in Numbers /\ Plus(c, FloatValue(w)) \in Numbers
           /\ AsFloat(Minus(c, FloatValue(w))) = Rounded(AsFloat(c) - w)
           /\ AsFloat(Plus(c, FloatValue(w))) = Rounded(AsFloat(c) + w)
<1>1. AsFloat(c) \in Int
    BY NumbersAreFloats
<1>2. Rounded(AsFloat(c) - w) \in Int /\ Rounded(AsFloat(c) + w) \in Int
    BY <1>1, RoundedMonotone
<1>3. FloatValue(w).t = "float" /\ AsFloat(FloatValue(w)) = w
    BY DEF FloatValue, AsFloat
<1>4. /\ Minus(c, FloatValue(w)) = FloatValue(Rounded(AsFloat(c) - w))
      /\ Plus(c, FloatValue(w)) = FloatValue(Rounded(AsFloat(c) + w))
    BY <1>3 DEF Minus, Plus
<1>5. \A x \in Int : FloatValue(x) \in Numbers /\ AsFloat(FloatValue(x)) = x
    BY DEF Numbers, FloatValue, AsFloat
<1> QED
    BY <1>2, <1>4, <1>5

(* What a point covers. *)
LEMMA SpansOfPoints ==
    ASSUME NEW kind \in {"line", "bar"}, NEW axis \in {"x", "y"}, NEW c \in Numbers,
           NEW span, span = Span(kind, axis, c)
    PROVE  /\ IsSpan(span)
           /\ kind = "line" => span = <<c, c>>
           /\ kind = "bar" /\ axis = "x" => /\ AsFloat(span[1]) = Rounded(AsFloat(c) - 5)
                                           /\ AsFloat(span[2]) = Rounded(AsFloat(c) + 5)
           /\ kind = "bar" /\ axis = "y" => /\ AsFloat(span[1]) <= 0 /\ AsFloat(span[1]) <= AsFloat(c)
                                           /\ 0 <= AsFloat(span[2]) /\ AsFloat(c) <= AsFloat(span[2])
<1>1. AsFloat(c) \in Int
    BY NumbersAreFloats
<1>2. CASE kind = "line"
    BY <1>2 DEF Span, IsSpan
<1>3. CASE kind = "bar" /\ axis = "x"
    <2>1. span = <<Minus(c, FloatValue(5)), Plus(c, FloatValue(5))>>
        BY <1>3 DEF Span
    <2>2. PICK m, p : m = Minus(c, FloatValue(5)) /\ p = Plus(c, FloatValue(5))
        OBVIOUS
    <2>3. /\ m \in Numbers /\ AsFloat(m) = Rounded(AsFloat(c) - 5)
          /\ p \in Numbers /\ AsFloat(p) = Rounded(AsFloat(c) + 5)
        BY <2>2, Aside
    <2>4. span[1] = m /\ span[2] = p
        BY <2>1, <2>2
    <2> QED
        BY <1>3, <2>3, <2>4 DEF IsSpan
<1>4. CASE kind = "bar" /\ axis = "y"
    <2>1. span = <<Least(IntValue(0), c), Greatest(IntValue(0), c)>>
        BY <1>4 DEF Span
    <2>2. PICK z \in Numbers : z = IntValue(0) /\ AsFloat(z) = 0
        BY SmallNumbers
    <2>3. /\ Least(z, c) \in Numbers
          /\ AsFloat(Least(z, c)) <= 0 /\ AsFloat(Least(z, c)) <= AsFloat(c)
        BY <1>1, <2>2 DEF Least, Below
    <2>4. /\ Greatest(z, c) \in Numbers
          /\ 0 <= AsFloat(Greatest(z, c)) /\ AsFloat(c) <= AsFloat(Greatest(z, c))
        BY <1>1, <2>2 DEF Greatest, Below
    <2>5. span[1] = Least(z, c) /\ span[2] = Greatest(z, c)
        BY <2>1, <2>2
    <2> QED
        BY <1>4, <2>3, <2>4, <2>5 DEF IsSpan
<1> QED
    BY <1>2, <1>3, <1>4

(* The range of a series covers all of its points. *)
SpanAt(s, axis, i) == Span(s.kind, axis, s.points[i][axis])

LEMMA PointsAreNumbers ==
    ASSUME NEW s, WellMade(s), NEW axis \in {"x", "y"}, NEW i \in DOMAIN s.points
    PROVE  s.points[i][axis] \in Numbers
<1>1. s.points[i].x \in Numbers /\ s.points[i].y \in Numbers
    BY DEF WellMade
<1>2. CASE axis = "x"
    BY <1>1, <1>2
<1>3. CASE axis = "y"
    BY <1>1, <1>3
<1> QED
    BY <1>2, <1>3

LEMMA SeriesCovered ==
    ASSUME NEW s, WellMade(s), NEW axis \in {"x", "y"}
    PROVE  \E r : /\ SeriesRange(s, axis) = {r} /\ IsRange(r)
                  /\ \A i \in DOMAIN s.points : Covers(r, SpanAt(s, axis, i))
<1> DEFINE first == s.points[1][axis]
           spans == SpansOf(s, axis)
           r == GrownBy(Between(first, first), spans)
           n == Len(s.points)
<1>1. n \in Nat \ {0} /\ DOMAIN s.points = 1..n /\ 1 \in DOMAIN s.points
    BY ListIndices DEF WellMade
<1>2. IsRange(Between(first, first))
    BY <1>1, PointsAreNumbers, BetweenIsRange
<1>3. Len(spans) = n /\ \A i \in 1..n : spans[i] = {SpanAt(s, axis, i)}
    BY <1>1 DEF SpansOf, SpanAt
<1>4. \A i \in 1..n : IsSpan(SpanAt(s, axis, i))
    BY <1>1, PointsAreNumbers, SpansOfPoints DEF SpanAt, WellMade
<1>5. SpansFit(spans, n)
    BY <1>3, <1>4 DEF SpansFit
<1>6. SeriesRange(s, axis) = {r}
    BY DEF SeriesRange, WellMade
<1> HIDE DEF spans, first, n
<1>7. AllCovered(r, Between(first, first), spans, n)
    BY <1>1, <1>2, <1>3, <1>5, GrownByCovers
<1> HIDE DEF r
<1> QED
    BY <1>1, <1>3, <1>6, <1>7 DEF AllCovered

(* The range of a chart that was given none covers the points of all of    *)
(* its series.                                                             *)
LEMMA SeriesSpanned ==
    ASSUME NEW q, AllWellMade(q), q # <<>>, NEW axis \in {"x", "y"},
           NEW r \in Spanned([j \in DOMAIN q |-> SeriesRange(q[j], axis)])
    PROVE  /\ IsRange(r)
           /\ \A j \in DOMAIN q : \A i \in DOMAIN q[j].points : Covers(r, SpanAt(q[j], axis, i))
<1> DEFINE ranges == [j \in DOMAIN q |-> SeriesRange(q[j], axis)]
           spans == [j \in DOMAIN ranges |-> {<<x.min, x.max>> : x \in ranges[j]}]
           n == Len(q)
<1>1. n \in Nat \ {0} /\ DOMAIN q = 1..n /\ 1 \in DOMAIN q
    BY ListIndices DEF AllWellMade
<1>2. ASSUME NEW j \in DOMAIN q
      PROVE  \E x : /\ ranges[j] = {x} /\ spans[j] = {<<x.min, x.max>>} /\ IsRange(x)
                    /\ \A i \in DOMAIN q[j].points : Covers(x, SpanAt(q[j], axis, i))
    <2>1. PICK x : /\ SeriesRange(q[j], axis) = {x} /\ IsRange(x)
                   /\ \A i \in DOMAIN q[j].points : Covers(x, SpanAt(q[j], axis, i))
        BY SeriesCovered DEF AllWellMade
    <2>2. ranges[j] = {x}
        BY <2>1
    <2>3. spans[j] = {<<y.min, y.max>> : y \in ranges[j]}
        BY DEF spans
    <2>4. spans[j] = {<<x.min, x.max>>}
        <3> HIDE DEF ranges, spans
        <3> QED
            BY <2>2, <2>3
    <2> QED
        BY <2>1, <2>2, <2>4
<1>3. ranges # <<>> /\ DOMAIN spans = 1..n /\ Len(spans) = n
    <2>1. DOMAIN ranges = 1..n /\ DOMAIN spans = 1..n
        BY <1>1
    <2>2. 1 \in DOMAIN ranges /\ 1 \notin DOMAIN <<>>
        BY <1>1, <2>1
    <2>3. Len(spans) = n
        BY <1>1, <2>1
    <2> HIDE DEF ranges, spans
    <2> QED
        BY <2>1, <2>2, <2>3
<1>4. \E x \in ranges[1] : r = GrownBy(x, spans)
    <2>1. Spanned(ranges) = {GrownBy(x, spans) : x \in ranges[1]}
        BY <1>3 DEF Spanned
    <2> HIDE DEF spans
    <2>2. r \in Spanned(ranges)
        OBVIOUS
    <2> HIDE DEF ranges
    <2> QED
        BY <2>1, <2>2
<1> HIDE DEF ranges, spans, n
<1>5. SpansFit(spans, n)
    <2>1. \A x : IsRange(x) => IsSpan(<<x.min, x.max>>)
        BY DEF IsRange, IsSpan
    <2> QED
        BY <1>1, <1>2, <2>1 DEF SpansFit
<1>6. PICK x \in ranges[1] : r = GrownBy(x, spans) /\ IsRange(x)
    BY <1>1, <1>2, <1>4
<1>7. AllCovered(r, x, spans, n)
    BY <1>1, <1>3, <1>5, <1>6, GrownByCovers
<1>8. ASSUME NEW j \in DOMAIN q, NEW i \in DOMAIN q[j].points PROVE Covers(r, SpanAt(q[j], axis, i))
    <2>1. PICK y : /\ spans[j] = {<<y.min, y.max>>} /\ IsRange(y) /\ Covers(y, SpanAt(q[j], axis, i))
        BY <1>2
    <2>2. Covers(r, <<y.min, y.max>>) /\ IsRange(r)
        BY <1>1, <1>7, <2>1 DEF AllCovered
    <2>3. IsSpan(SpanAt(q[j], axis, i))
        <3>1. WellMade(q[j]) /\ q[j].kind \in {"line", "bar"}
            BY DEF AllWellMade, WellMade
        <3> QED
            BY <3>1, PointsAreNumbers, SpansOfPoints DEF SpanAt
    <2> QED
        BY <2>1, <2>2, <2>3, CoversAll
<1> QED
    BY <1>7, <1>8 DEF AllCovered

(* A range whose ends, as floats, are half a unit and more away from an    *)
(* integer smaller than Exact holds it as it is, not only as a float: the  *)
(* neighbours of such an integer do not round to it.                       *)
LEMMA EndsAround ==
    ASSUME NEW n \in Int, -Exact < n, n < Exact, NEW a \in Numbers, NEW b \in Numbers,
           AsFloat(a) <= Rounded(10 * n - 5), Rounded(10 * n + 5) <= AsFloat(b)
    PROVE  a.num <= 10 * n /\ 10 * n <= b.num
<1>1. /\ Rounded(10 * n) = 10 * n
      /\ Rounded(10 * (n + 1)) = 10 * (n + 1) /\ Rounded(10 * (n - 1)) = 10 * (n - 1)
    <2>1. /\ n + 1 \in Int /\ -Exact <= n + 1 /\ n + 1 <= Exact
          /\ n - 1 \in Int /\ -Exact <= n - 1 /\ n - 1 <= Exact
          /\ -Exact <= n /\ n <= Exact
        BY ExactAssumption
    <2> QED
        BY <2>1, RoundedExact
<1>2. /\ Rounded(10 * n - 5) \in Int /\ Rounded(10 * n - 5) <= 10 * n
      /\ Rounded(10 * n + 5) \in Int /\ 10 * n <= Rounded(10 * n + 5)
    <2>1. 10 * n - 5 \in Int /\ 10 * n + 5 \in Int /\ 10 * n \in Int
          /\ 10 * n - 5 <= 10 * n /\ 10 * n <= 10 * n + 5
        OBVIOUS
    <2> QED
        BY <1>1, <2>1, RoundedMonotone
<1>3. AsFloat(a) \in Int /\ AsFloat(a) <= 10 * n /\ AsFloat(b) \in Int /\ 10 * n <= AsFloat(b)
    BY <1>2, NumbersAreFloats
<1>4. a.num <= 10 * n
    <2>1. CASE a.t = "float"
        BY <1>3, <2>1 DEF AsFloat
    <2>2. ASSUME NEW m \in Int, a = IntValue(m), m >= n + 1 PROVE FALSE
        <3>1. 10 * (n + 1) <= 10 * m /\ 10 * m \in Int /\ 10 * (n + 1) \in Int
            BY <2>2
        <3>2. Rounded(10 * (n + 1)) <= Rounded(10 * m)
            BY <3>1, RoundedMonotone
        <3>3. AsFloat(a) = Rounded(10 * m)
            BY <2>2 DEF AsFloat, IntValue
        <3> QED
            BY <1>1, <1>3, <3>2, <3>3
    <2>3. a.t = "float" \/ \E m \in Int : a = IntValue(m)
        BY DEF Numbers, FloatValue
    <2>4. ASSUME NEW m \in Int, a = IntValue(m) PROVE a.num <= 10 * n
        <3>1. m <= n
            BY <2>2, <2>4
        <3> QED
            BY <2>4, <3>1 DEF IntValue
    <2> QED
        BY <2>1, <2>3, <2>4
<1>5. 10 * n <= b.num
    <2>1. CASE b.t = "float"
        BY <1>3, <2>1 DEF AsFloat
    <2>2. ASSUME NEW m \in Int, b = IntValue(m), m <= n - 1 PROVE FALSE
        <3>1. 10 * m <= 10 * (n - 1) /\ 10 * m \in Int /\ 10 * (n - 1) \in Int
            BY <2>2
        <3>2. Rounded(10 * m) <= Rounded(10 * (n - 1))
            BY <3>1, RoundedMonotone
        <3>3. AsFloat(b) = Rounded(10 * m)
            BY <2>2 DEF AsFloat, IntValue
        <3> QED
            BY <1>1, <1>3, <3>2, <3>3
    <2>3. b.t = "float" \/ \E m \in Int : b = IntValue(m)
        BY DEF Numbers, FloatValue
    <2>4. ASSUME NEW m \in Int, b = IntValue(m) PROVE 10 * n <= b.num
        <3>1. n <= m
            BY <2>2, <2>4
        <3> QED
            BY <2>4, <3>1 DEF IntValue
    <2> QED
        BY <2>1, <2>3, <2>4
<1> QED
    BY <1>4, <1>5

(* Everything that is drawn lies within a range that covers the points.    *)
LEMMA CornersCovered ==
    ASSUME NEW s, WellMade(s), NEW axis \in {"x", "y"}, NEW r, IsRange(r),
           \A i \in DOMAIN s.points : Covers(r, SpanAt(s, axis, i)),
           NEW p \in Corners(s)
    PROVE  Within(r, p[axis])
<1>1. AsFloat(r.min) \in Int /\ AsFloat(r.max) \in Int
    BY RangeEnds
<1>2. CASE s.kind = "line"
    <2>1. PICK i \in DOMAIN s.points : p = s.points[i]
        BY <1>2 DEF Corners, ToSet
    <2>2. SpanAt(s, axis, i) = <<p[axis], p[axis]>>
        BY <1>2, <2>1, PointsAreNumbers, SpansOfPoints DEF SpanAt
    <2> QED
        BY <2>1, <2>2 DEF Covers, Within
<1>3. CASE s.kind = "bar"
    <2>0. PICK i \in DOMAIN s.points :
              \E z, y : /\ p = [x |-> z, y |-> y] /\ (y = s.points[i].y \/ y = IntValue(0))
                        /\ z = Minus(s.points[i].x, HalfWidth) \/ z = Plus(s.points[i].x, HalfWidth)
        <3>1. PICK q \in ToSet(s.points) :
                  p \in {[x |-> Minus(q.x, HalfWidth), y |-> q.y],
                         [x |-> Plus(q.x, HalfWidth), y |-> IntValue(0)]}
            BY <1>3 DEF Corners
        <3>2. PICK i \in DOMAIN s.points : q = s.points[i]
            BY DEF ToSet
        <3> QED
            BY <3>1, <3>2
    <2>1. PICK z, y : /\ p = [x |-> z, y |-> y] /\ (y = s.points[i].y \/ y = IntValue(0))
                      /\ z = Minus(s.points[i].x, HalfWidth) \/ z = Plus(s.points[i].x, HalfWidth)
        BY <2>0
    <2>2. PICK c \in Numbers, d \in Numbers : c = s.points[i].x /\ d = s.points[i].y
        BY DEF WellMade
    <2>3. AsFloat(c) \in Int /\ AsFloat(d) \in Int
        BY NumbersAreFloats
    <2>4. CASE axis = "x"
        <3>1. PICK span : /\ Covers(r, span)
                          /\ AsFloat(span[1]) = Rounded(AsFloat(c) - 5)
                          /\ AsFloat(span[2]) = Rounded(AsFloat(c) + 5)
            <4>1. SpanAt(s, axis, i) = Span("bar", "x", c)
                BY <1>3, <2>2, <2>4 DEF SpanAt
            <4> QED
                BY <4>1, SpansOfPoints
        <3>2. AsFloat(z) = Rounded(AsFloat(c) - 4) \/ AsFloat(z) = Rounded(AsFloat(c) + 4)
            <4>1. HalfWidth = FloatValue(4)
                BY SmallNumbers
            <4>2. /\ AsFloat(Minus(c, FloatValue(4))) = Rounded(AsFloat(c) - 4)
                  /\ AsFloat(Plus(c, FloatValue(4))) = Rounded(AsFloat(c) + 4)
                BY Aside
            <4> QED
                BY <2>1, <2>2, <4>1, <4>2, Zenon
        <3>3. /\ Rounded(AsFloat(c) - 5) <= Rounded(AsFloat(c) - 4)
              /\ Rounded(AsFloat(c) - 4) <= Rounded(AsFloat(c) + 5)
              /\ Rounded(AsFloat(c) - 5) <= Rounded(AsFloat(c) + 4)
              /\ Rounded(AsFloat(c) + 4) <= Rounded(AsFloat(c) + 5)
            BY <2>3, RoundedMonotone
        <3>4. /\ Rounded(AsFloat(c) - 5) \in Int /\ Rounded(AsFloat(c) - 4) \in Int
              /\ Rounded(AsFloat(c) + 4) \in Int /\ Rounded(AsFloat(c) + 5) \in Int
            BY <2>3, RoundedMonotone
        <3>5. AsFloat(r.min) <= AsFloat(z) /\ AsFloat(z) <= AsFloat(r.max)
            BY <1>1, <3>1, <3>2, <3>3, <3>4 DEF Covers
        <3> QED
            BY <2>1, <2>4, <3>5 DEF Within
    <2>5. CASE axis = "y"
        <3>1. PICK span : /\ Covers(r, span) /\ AsFloat(span[1]) \in Int /\ AsFloat(span[2]) \in Int
                          /\ AsFloat(span[1]) <= 0 /\ AsFloat(span[1]) <= AsFloat(d)
                          /\ 0 <= AsFloat(span[2]) /\ AsFloat(d) <= AsFloat(span[2])
            <4>1. SpanAt(s, axis, i) = Span("bar", "y", d)
                BY <1>3, <2>2, <2>5 DEF SpanAt
            <4> QED
                BY <4>1, SpansOfPoints, SpanEnds
        <3>2. AsFloat(y) = AsFloat(d) \/ AsFloat(y) = 0
            BY <2>1, <2>2, SmallNumbers
        <3>3. AsFloat(r.min) <= AsFloat(y) /\ AsFloat(y) <= AsFloat(r.max)
            BY <1>1, <2>3, <3>1, <3>2 DEF Covers
        <3> QED
            BY <2>1, <2>5, <3>3 DEF Within
    <2> QED
        BY <2>4, <2>5
<1> QED
    BY <1>2, <1>3 DEF WellMade

(* The ticks of an axis lie within it, and a bar at an integer has its own.*)
LEMMA TicksWithin ==
    ASSUME NEW r, IsRange(r), NEW n \in KeyPoints(r)
    PROVE  n \in Int /\ r.min.num <= 10 * n /\ 10 * n <= r.max.num
<1>1. r.min.num \in Int /\ r.max.num \in Int
    BY NumbersAreFloats DEF IsRange
<1>2. n \in -((-r.min.num) \div 10)..(r.max.num \div 10)
    BY DEF KeyPoints, Ceil, Floor
<1> QED
    BY <1>1, <1>2

LEMMA TickAt ==
    ASSUME NEW r, IsRange(r), r.discrete = TRUE, NEW n \in Int,
           r.min.num <= 10 * n, 10 * n <= r.max.num
    PROVE  n \in KeyPoints(r)
<1>1. r.min.num \in Int /\ r.max.num \in Int
    BY NumbersAreFloats DEF IsRange
<1>2. -((-r.min.num) \div 10) <= n /\ n <= r.max.num \div 10
    BY <1>1
<1>3. -((-r.min.num) \div 10) \in Int /\ r.max.num \div 10 \in Int
    BY <1>1
<1> QED
    BY <1>2, <1>3 DEF KeyPoints, Ceil, Floor

LEMMA DrawnWithin ==
    ASSUME NEW c, ChartOK(c), NEW d \in Drawing(c).values
    PROVE  /\ c.series # <<>> /\ d.corners = UNION {Corners(s) : s \in ToSet(c.series)}
           /\ d.y \in ChartRange(c, "y") /\ IsRange(d.x)
           /\ \E r \in ChartRange(c, "x") : IsRange(r) /\ d.x.min = r.min /\ d.x.max = r.max
           /\ HasBars(c) => d.x.discrete = TRUE
<1> DEFINE X == ChartRange(c, "x")
           Y == ChartRange(c, "y")
           x == TheOne(X)
<1>1. /\ c.series # <<>> /\ X # {} /\ Y # {}
      /\ d = [x |-> [x EXCEPT !.discrete = @ \/ HasBars(c)], y |-> TheOne(Y),
              corners |-> UNION {Corners(s) : s \in ToSet(c.series)}]
    BY DEF Drawing, Panics, Yields, Outcome
<1>2. x \in X /\ TheOne(Y) \in Y
    BY <1>1 DEF TheOne
<1>3. IsRange(x)
    <2>1. CASE c.x_range # {}
        BY <1>2, <2>1 DEF ChartRange, ChartOK
    <2>2. CASE c.x_range = {}
        <3>1. x \in Spanned([j \in DOMAIN c.series |-> SeriesRange(c.series[j], "x")])
            BY <1>2, <2>2 DEF ChartRange
        <3> QED
            BY <1>1, <3>1, SeriesSpanned DEF ChartOK
    <2> QED
        BY <2>1, <2>2
<1> HIDE DEF x, X, Y
<1>4. d.corners = UNION {Corners(s) : s \in ToSet(c.series)} /\ d.y = TheOne(Y)
    BY <1>1
<1>5. DOMAIN d.x = {"min", "max", "discrete"} /\ d.x.min = x.min /\ d.x.max = x.max
    BY <1>1, <1>3 DEF IsRange
<1>6. HasBars(c) => d.x.discrete = TRUE
    BY <1>1, <1>3 DEF IsRange
<1> QED
    BY <1>1, <1>2, <1>3, <1>4, <1>5, <1>6 DEF IsRange, X, Y

LEMMA ChartInside ==
    ASSUME NEW c, ChartOK(c), NEW d \in Drawing(c).values
    PROVE  LET ticks == {IntValue(n) : n \in KeyPoints(d.x)}
           IN  /\ c.x_range = {} => \A p \in d.corners : Within(d.x, p.x)
               /\ c.y_range = {} => \A p \in d.corners : Within(d.y, p.y)
               /\ \A t \in ticks : t.num \in d.x.min.num..d.x.max.num
               /\ c.x_range = {} => \A s \in ToSet(c.series) :
                     s.kind = "bar" =>
                         \A p \in ToSet(s.points) :
                             p.x.t = "int" /\ p.x.num \in -10 * (Exact - 1)..10 * (Exact - 1) => p.x \in ticks
<1> DEFINE ticks == {IntValue(n) : n \in KeyPoints(d.x)}
           Spans(axis) == Spanned([j \in DOMAIN c.series |-> SeriesRange(c.series[j], axis)])
<1>1. /\ c.series # <<>> /\ AllWellMade(c.series) /\ IsRange(d.x)
      /\ d.corners = UNION {Corners(s) : s \in ToSet(c.series)}
    BY DrawnWithin DEF ChartOK
<1>2. PICK r : /\ r \in ChartRange(c, "x") /\ IsRange(r)
               /\ d.x.min = r.min /\ d.x.max = r.max
    BY DrawnWithin
<1>3. ASSUME NEW axis \in {"x", "y"}, NEW q \in Spans(axis), NEW p \in d.corners
      PROVE  Within(q, p[axis])
    <2>1. PICK j \in DOMAIN c.series : p \in Corners(c.series[j])
        BY <1>1 DEF ToSet
    <2>2. WellMade(c.series[j])
        BY <1>1 DEF AllWellMade
    <2>3. IsRange(q) /\ \A i \in DOMAIN c.series[j].points : Covers(q, SpanAt(c.series[j], axis, i))
        BY <1>1, SeriesSpanned
    <2> QED
        BY <2>1, <2>2, <2>3, CornersCovered
<1>4. ASSUME c.x_range = {}, NEW p \in d.corners PROVE Within(d.x, p.x)
    <2>1. r \in Spans("x")
        BY <1>2, <1>4 DEF ChartRange
    <2>2. Within(r, p["x"])
        BY <1>3, <2>1
    <2> QED
        BY <1>2, <2>2 DEF Within
<1>5. ASSUME c.y_range = {}, NEW p \in d.corners PROVE Within(d.y, p.y)
    <2>1. d.y \in Spans("y")
        BY <1>5, DrawnWithin DEF ChartRange
    <2>2. Within(d.y, p["y"])
        BY <1>3, <2>1
    <2> QED
        BY <2>2
<1>6. \A t \in ticks : t.num \in d.x.min.num..d.x.max.num
    <2>1. ASSUME NEW n \in KeyPoints(d.x) PROVE IntValue(n).num \in d.x.min.num..d.x.max.num
        <3>1. n \in Int /\ d.x.min.num <= 10 * n /\ 10 * n <= d.x.max.num
            BY <1>1, TicksWithin
        <3>2. d.x.min.num \in Int /\ d.x.max.num \in Int
            BY <1>1, NumbersAreFloats DEF IsRange
        <3> QED
            BY <3>1, <3>2 DEF IntValue
    <2> QED
        BY <2>1
<1>7. ASSUME c.x_range = {}, NEW s \in ToSet(c.series), s.kind = "bar", NEW p \in ToSet(s.points),
             p.x.t = "int", p.x.num \in -10 * (Exact - 1)..10 * (Exact - 1)
      PROVE  p.x \in ticks
    <2>1. PICK j \in DOMAIN c.series : s = c.series[j]
        BY DEF ToSet
    <2>2. PICK i \in DOMAIN s.points : p = s.points[i]
        BY DEF ToSet
    <2>3. WellMade(s)
        BY <1>1, <2>1 DEF AllWellMade
    <2>4. PICK n \in Int : p.x = IntValue(n)
        BY <1>7, <2>2, <2>3 DEF WellMade, Numbers, FloatValue
    <2>5. -Exact < n /\ n < Exact
        BY <1>7, <2>4, ExactAssumption DEF IntValue
    <2>6. Rounded(10 * n) = 10 * n
        BY <2>5, RoundedExact, ExactAssumption
    <2>7. AsFloat(p.x) = 10 * n
        BY <2>4, <2>6 DEF AsFloat, IntValue
    <2>8. PICK span : /\ span = SpanAt(s, "x", i) /\ Covers(r, span)
        <3>1. r \in Spans("x")
            BY <1>2, <1>7 DEF ChartRange
        <3> QED
            BY <1>1, <2>1, <3>1, SeriesSpanned
    <2>9. AsFloat(span[1]) = Rounded(10 * n - 5) /\ AsFloat(span[2]) = Rounded(10 * n + 5)
        <3>1. span = Span("bar", "x", p.x) /\ p.x \in Numbers
            BY <1>7, <2>2, <2>4, <2>8 DEF SpanAt, Numbers
        <3> QED
            BY <2>7, <3>1, SpansOfPoints
    <2>10. AsFloat(r.min) <= Rounded(10 * n - 5) /\ Rounded(10 * n + 5) <= AsFloat(r.max)
        BY <2>8, <2>9 DEF Covers
    <2>11. d.x.min.num <= 10 * n /\ 10 * n <= d.x.max.num
        BY <1>2, <2>5, <2>10, EndsAround DEF IsRange
    <2>12. d.x.discrete = TRUE
        <3>1. HasBars(c)
            BY <1>7, <2>1 DEF HasBars
        <3> QED
            BY <3>1, DrawnWithin
    <2>13. n \in KeyPoints(d.x)
        BY <1>1, <2>11, <2>12, TickAt
    <2> QED
        BY <2>4, <2>13
<1> QED
    BY <1>4, <1>5, <1>6, <1>7

(* Of a chart whose ranges the user leaves alone, everything that is drawn *)
(* lies within the axes, and so do the ticks; and a bar at an integer has  *)
(* its tick (value/series_2d.rs:103-154, value/chart_2d.rs:93-131,         *)
(* value/coords/range.rs:109-130), however the floats round.               *)
THEOREM DrawnInsideAxes == Spec => []InsideAxes
<1>1. HandInv => InsideAxes
    <2> SUFFICES ASSUME HandInv, NEW c \in chart, NEW d \in Drawing(c).values
                 PROVE  LET ticks == {IntValue(n) : n \in KeyPoints(d.x)}
                        IN  /\ c.x_range = {} => \A p \in d.corners : Within(d.x, p.x)
                            /\ c.y_range = {} => \A p \in d.corners : Within(d.y, p.y)
                            /\ \A t \in ticks : t.num \in d.x.min.num..d.x.max.num
                            /\ c.x_range = {} => \A s \in ToSet(c.series) :
                                  s.kind = "bar" =>
                                      \A p \in ToSet(s.points) :
                                          p.x.t = "int" /\ p.x.num \in -10 * (Exact - 1)..10 * (Exact - 1)
                                              => p.x \in ticks
        BY DEF InsideAxes
    <2>1. ChartOK(c)
        BY DEF HandInv
    <2> QED
        BY <2>1, ChartInside
<1> QED
    BY <1>1, HandAlways, PTL
=============================================================================
