------------------------------- MODULE Charts -------------------------------
(***************************************************************************)
(* Series and charts: what the commands of the plotting plugin make of     *)
(* their input and options, and what is drawn of a chart and where.        *)
(*                                                                         *)
(* A command fails, panics or yields a value: its outcome is a record of   *)
(* how it went and the set of what it yields.  An option is the set of     *)
(* what was given, empty for none.                                         *)
(***************************************************************************)
EXTENDS Colors

CONSTANT Wrap          \* the pixel buffer is counted modulo this: 2^32

ASSUME WrapAssumption == Wrap \in Nat \ {0}

Outcome(how, values) == [how |-> how, values |-> values]
Fails == Outcome("err", {})
Panics == Outcome("panic", {})
Yields(v) == Outcome("ok", {v})

TheOne(set) == CHOOSE v \in set : TRUE
OrElse(option, default) == IF option = {} THEN default ELSE TheOne(option)

-----------------------------------------------------------------------------
(* Series. *)

(* The first element decides how all are read: as values over their index, *)
(* as pairs, or as points.  An unknown first element is a todo!(), an      *)
(* unknown later one an error, and so is an empty list.                    *)
ReadAs(first) == CASE CoordOf(first) # {} -> "number"
                   [] PairOf(first) # {}  -> "pair"
                   [] CoordOf(first) = {} /\ PairOf(first) = {} /\ PointOf(first) # {} -> "point"
                   [] OTHER -> "unknown"

ReadPoint(as, i, v) == CASE as = "number" -> {[x |-> IntValue(i - 1), y |-> c] : c \in CoordOf(v)}
                         [] as = "pair"   -> PairOf(v)
                         [] as = "point"  -> PointOf(v)

AllRead(points) == IF \E i \in DOMAIN points : points[i] = {} THEN Fails
                   ELSE Yields([i \in DOMAIN points |-> TheOne(points[i])])
PointsAs(as, items) == IF as = "unknown" THEN Panics
                       ELSE AllRead([i \in DOMAIN items |-> ReadPoint(as, i, items[i])])
PointsFromAny(items) ==                \* mutant: an empty list is a series without points
    IF items = <<>> THEN Yields(items) ELSE PointsAs(ReadAs(items[1]), items)
PointsFrom(items) == IF items = <<>> THEN Fails ELSE PointsAs(ReadAs(items[1]), items)

ColorsOf(option) == UNION {ColorOf(v) : v \in option}

(* The options are read before the input: a bad colour is reported first.  *)
SeriesFrom(kind, v, color) ==
    LET of(read, colors) ==
            IF color # {} /\ colors = {} THEN Fails
            ELSE Outcome(read.how,
                    {[kind |-> kind, points |-> p, filled |-> kind = "bar", stroke_width |-> 1,
                      color |-> OrElse(colors, Names.blue)] : p \in read.values})
    IN  IF \E c \in color : ColorPanics(c) THEN Panics
        ELSE of(IF v.t = "list" THEN PointsFrom(v.items) ELSE Fails, ColorsOf(color))

(* What a point covers on an axis: a bar half a unit to each side, and all *)
(* of the way to zero.                                                     *)
SpanOfPoint(kind, axis, c) == <<c, c>>     \* mutant: bars are points
Span(kind, axis, c) ==
    CASE kind = "line" -> <<c, c>>
      [] kind = "bar" /\ axis = "x" -> <<Minus(c, FloatValue(5)), Plus(c, FloatValue(5))>>
      [] kind = "bar" /\ axis = "y" -> <<Least(IntValue(0), c), Greatest(IntValue(0), c)>>

(* Ranges grow from the first one by what is strictly below or above.      *)
Grown(range, span) ==
    [range EXCEPT !.min = IF Below(span[1], @) THEN span[1] ELSE @,
                  !.max = IF Below(@, span[2]) THEN span[2] ELSE @]

(* One span after the other, where there is one.                           *)
GrownUpTo(range, spans) ==
    LET upTo[i \in 0..Len(spans)] ==
            IF i = 0 THEN range
            ELSE IF spans[i] = {} THEN upTo[i - 1] ELSE Grown(upTo[i - 1], TheOne(spans[i]))
    IN  upTo
GrownBy(range, spans) == GrownUpTo(range, spans)[Len(spans)]

SpansOf(s, axis) == [i \in DOMAIN s.points |-> {Span(s.kind, axis, s.points[i][axis])}]
SeriesRange(s, axis) ==
    LET first == s.points[1][axis]
    IN  IF s.points = <<>> THEN {} ELSE {GrownBy(Between(first, first), SpansOf(s, axis))}

-----------------------------------------------------------------------------
(* Charts. *)

EmptyChart ==
    [series |-> <<>>, width |-> 600, height |-> 400, background |-> {}, caption |-> {},
     margin |-> <<5, 5, 5, 5>>, label_area |-> <<0, 0, 35, 35>>,
     x_range |-> {}, y_range |-> {}, x_mesh |-> TRUE, y_mesh |-> TRUE]

NoOptions ==
    [width |-> {}, height |-> {}, background |-> {}, caption |-> {}, margin |-> {},
     label_area |-> {}, x_range |-> {}, y_range |-> {},
     disable_mesh |-> {}, disable_x_mesh |-> {}, disable_y_mesh |-> {}]

(* side_shorthand: top, right, bottom, left.                               *)
SidesTurned(list) ==                   \* mutant: two sides the wrong way round
    CASE Len(list) = 1 -> <<list[1], list[1], list[1], list[1]>>
      [] Len(list) = 2 -> <<list[1], list[1], list[2], list[2]>>
      [] Len(list) = 3 -> <<list[1], list[2], list[2], list[3]>>
      [] OTHER         -> SubSeq(list, 1, 4)
Sides(list) ==
    CASE Len(list) = 1 -> <<list[1], list[1], list[1], list[1]>>
      [] Len(list) = 2 -> <<list[1], list[2], list[1], list[2]>>
      [] Len(list) = 3 -> <<list[1], list[2], list[2], list[3]>>
      [] OTHER         -> SubSeq(list, 1, 4)

(* Colours and ranges among the options are converted before anything      *)
(* else; the first that is none ends the command.                          *)
RangesOf(option) == UNION {RangeOf(v) : v \in option}
Unreadable(o) == \/ o.background # {} /\ ColorsOf(o.background) = {}
                 \/ o.x_range # {} /\ RangesOf(o.x_range) = {}
                 \/ o.y_range # {} /\ RangesOf(o.y_range) = {}

ForgottenOr(option, old) == option     \* mutant: extending resets what is not given
KeptOr(option, old) == IF option # {} THEN option ELSE old
SidesOrElse(option, default) == IF option = {} THEN default ELSE Sides(TheOne(option))

(* The mesh is what this call says, whatever the chart had.                *)
Extended(chart, series, o) ==
    [series |-> chart.series \o series,
     width |-> OrElse(o.width, chart.width), height |-> OrElse(o.height, chart.height),
     background |-> KeptOr(ColorsOf(o.background), chart.background),
     caption |-> KeptOr(o.caption, chart.caption),
     margin |-> SidesOrElse(o.margin, chart.margin),
     label_area |-> SidesOrElse(o.label_area, chart.label_area),
     x_range |-> KeptOr(RangesOf(o.x_range), chart.x_range),
     y_range |-> KeptOr(RangesOf(o.y_range), chart.y_range),
     x_mesh |-> TRUE \notin o.disable_mesh \cup o.disable_x_mesh,
     y_mesh |-> TRUE \notin o.disable_mesh \cup o.disable_y_mesh]

(* Charts take a series, or a list of nothing but series.  An empty margin *)
(* is a todo!(), and so is any other input, although the signature of the  *)
(* command allows for none.                                                *)
ChartFrom(chart, v, o) ==
    LET isSeries(w) == w.t = "series"
        items == IF v.t = "list" THEN v.items ELSE <<v>>
        series == [i \in DOMAIN items |-> items[i].series]
    IN  CASE \E c \in o.background : ColorPanics(c) -> Panics
          [] (\A c \in o.background : ~ColorPanics(c)) /\ Unreadable(o) -> Fails
          [] OTHER ->
               IF v.t \notin {"series", "chart", "list"} THEN Panics
               ELSE IF \E i \in DOMAIN items : ~isSeries(items[i]) THEN Fails
               ELSE IF <<>> \in o.margin \cup o.label_area THEN Panics
               ELSE Yields(Extended(chart, series, o))

-----------------------------------------------------------------------------
(* Drawing. *)

(* What was asked for, or what the series need.  If the first has no range *)
(* the chart has none, whatever the others have.                           *)
Spanned(ranges) ==
    LET spans == [i \in DOMAIN ranges |-> {<<r.min, r.max>> : r \in ranges[i]}]
    IN  IF ranges = <<>> THEN {} ELSE {GrownBy(r, spans) : r \in ranges[1]}
ChartRange(chart, axis) ==
    LET given == IF axis = "x" THEN chart.x_range ELSE chart.y_range
    IN  IF given # {} THEN given
        ELSE Spanned([i \in DOMAIN chart.series |-> SeriesRange(chart.series[i], axis)])

HasBars(chart) == \E i \in DOMAIN chart.series : chart.series[i].kind = "bar"

(* Half the width of a bar. *)
HalfWidth == Over(FloatValue(8), IntValue(2))

(* The corners of what is drawn. *)
Corners(s) ==
    IF s.kind = "line" THEN ToSet(s.points)
    ELSE UNION {{[x |-> Minus(p.x, HalfWidth), y |-> p.y],
                 [x |-> Plus(p.x, HalfWidth), y |-> IntValue(0)]} : p \in ToSet(s.points)}

(* draw: without a series a todo!(), without a range an unwrap.            *)
Drawing(chart) ==
    LET within(x, y) ==
            IF x = {} \/ y = {} THEN Panics
            ELSE Yields([x |-> [TheOne(x) EXCEPT !.discrete = @ \/ HasBars(chart)], y |-> TheOne(y),
                         corners |-> UNION {Corners(s) : s \in ToSet(chart.series)}])
    IN  IF chart.series = <<>> THEN Panics ELSE within(ChartRange(chart, "x"), ChartRange(chart, "y"))

(* Pictures of pixels are drawn on white unless told otherwise.  The size  *)
(* of the buffer wraps around; a buffer that is too small is refused when  *)
(* it is handed over, when it is drawn on or when it becomes an image.     *)
BytesWithAlpha(chart) == (chart.height * chart.width * 4) % Wrap    \* mutant
Bytes(chart) == (chart.height * chart.width * 3) % Wrap

Picture(chart) ==
    LET bytes == Bytes(chart)
    IN  IF Drawing(chart).how = "panic" \/ bytes < chart.height * chart.width * 3 THEN Panics
        ELSE Yields([width |-> chart.width, height |-> chart.height, bytes |-> bytes,
                     background |-> OrElse(chart.background, Names.white)])
=============================================================================
