------------------------------ MODULE Display ------------------------------
(***************************************************************************)
(* Cells that plot: they make series, build a chart of them, extend it,    *)
(* and draw it or return it, and what a cell returns is rendered in every  *)
(* format its type and the filter allow.  The plugin's commands run inside *)
(* the kernel, so a panic of theirs ends the process.                      *)
(***************************************************************************)
EXTENDS Charts, FiniteSets

CONSTANTS
    Inputs,        \* lists that a series is made of
    Colours,       \* values given as a colour
    Options,       \* values given for each option of a chart
    MaxParts       \* bound: series and options of a chart together

(* A number has a size; an integer, one in whole numbers.                  *)
Sized(v) ==
    IsNumber(v) => /\ v = [t |-> v.t, num |-> v.num] /\ v.num \in Int
                   /\ v.t = "int" => v.num % 10 = 0
NumbersSized(v) ==
    /\ Sized(v)
    /\ HasItems(v, 2) => Sized(v.items[1]) /\ Sized(v.items[2])
    /\ v.t = "record" => \A f \in DOMAIN v.fields : Sized(v.fields[f])
    /\ v.t = "range" /\ Len(v.ends) = 2 => \A i \in 1..2 : IsNumber(v.ends[i]) /\ Sized(v.ends[i])

(* Lists and strings are sequences; sizes and sides are numbers without a  *)
(* sign, as Chart2dOptions has them.                                       *)
ASSUME DisplayAssumption ==
    /\ MaxParts \in Nat
    /\ \A v \in Inputs : v.t = "list" => /\ v.items \in Seq(ToSet(v.items))
                                         /\ \A w \in ToSet(v.items) : NumbersSized(w)
    /\ \A v \in Colours : v.t = "string" => v.chars \in Seq(ToSet(v.chars))
    /\ \A v \in Options.x_range : NumbersSized(v)
    /\ Options.width \subseteq Nat /\ Options.height \subseteq Nat
    /\ Options.margin \subseteq Seq(Nat) /\ Options.label_area \subseteq Seq(Nat)

VARIABLES
    exit,      \* "no", or the command that panicked
    series,    \* the series in hand, in order
    chart,     \* the chart in hand, if any
    written,   \* history: what was given last for each option of that chart
    last       \* history: the last command and what came of it

vars == <<exit, series, chart, written, last>>

Idle == [op |-> "none"]

Init == /\ exit = "no" /\ series = <<>> /\ chart = {}
        /\ written = NoOptions /\ last = Idle

(* A panic ends the process. *)
Dies(command) ==
    /\ exit' = command
    /\ series' = <<>> /\ chart' = {} /\ written' = NoOptions /\ last' = Idle

(* A failed command leaves everything as it was; the cell ends.            *)
Reports(op) == last' = [op |-> op, how |-> "err"] /\ UNCHANGED <<exit, series, chart, written>>

-----------------------------------------------------------------------------
OptionNames == DOMAIN NoOptions
Given(o) == {f \in OptionNames : o[f] # {}}
SeriesIn(c) == IF c = {} THEN 0 ELSE Len(TheOne(c).series)
Parts == Len(series) + SeriesIn(chart) + Cardinality(Given(written))

MakeSeries(kind, input, color) ==
    /\ exit = "no" /\ Parts < MaxParts
    /\ \E out \in {SeriesFrom(kind, input, color)} :
        \/ out.how = "panic" /\ Dies("series")
        \/ out.how = "err" /\ Reports("series")
        \/ /\ out.how = "ok"
           /\ series' = Append(series, TheOne(out.values))
           /\ last' = [op |-> "series", how |-> "ok", color |-> color]
           /\ UNCHANGED <<exit, chart, written>>

(* What is piped into chart 2d: the series in hand as a list or, if it is  *)
(* one, as itself; a list with something else in it; a chart; nothing.     *)
SeriesValue(s) == [t |-> "series", series |-> s]
Piped(input) ==
    LET all == [i \in DOMAIN series |-> SeriesValue(series[i])]
    IN  CASE input = "list"  -> List(all)
          [] input = "one"   -> all[1]
          [] input = "mixed" -> List(Append(all, IntValue(0)))
          [] input = "chart" -> [t |-> "chart"]
          [] input = "none"  -> Nothing

MakeChart(input, extend, o) ==
    LET base == IF extend THEN TheOne(chart) ELSE EmptyChart
        before == IF extend THEN written ELSE NoOptions
    IN  /\ exit = "no" /\ Parts + Cardinality(Given(o)) <= MaxParts
        /\ extend => chart # {}
        /\ input = "one" => Len(series) = 1
        /\ \E out \in {ChartFrom(base, Piped(input), o)} :
            \/ out.how = "panic" /\ Dies("chart")
            \/ out.how = "err" /\ Reports("chart")
            \/ /\ out.how = "ok"
               /\ chart' = out.values /\ series' = <<>>
               /\ written' = [f \in OptionNames |-> IF o[f] # {} THEN o[f] ELSE before[f]]
               /\ last' = [op |-> "chart", how |-> "ok", given |-> o]
               /\ UNCHANGED exit

(* draw png and draw terminal. *)
DrawPixels ==
    /\ exit = "no" /\ chart # {}
    /\ \E out \in {Picture(TheOne(chart))} :
        \/ out.how = "panic" /\ Dies("draw")
        \/ /\ out.how = "ok"
           /\ last' = [op |-> "draw", how |-> "ok", picture |-> TheOne(out.values)]
           /\ series' = <<>> /\ chart' = {} /\ written' = NoOptions
           /\ UNCHANGED exit

-----------------------------------------------------------------------------
(* Rendering the value a cell ends with. *)

Formats == <<"html", "csv", "json", "md", "svg">>

(* The input types of the commands: to html is called whatever the type.   *)
Takes == [html |-> {"chart", "table", "text"}, csv |-> {"table"},
          json |-> {"chart", "table", "text"}, md |-> {"chart", "table", "text"},
          svg  |-> {"chart"}]

MatchFilterLoose(filter, format) == TRUE       \* mutant
MatchFilter(filter, format) == filter \in {"none", format}

(* One format after the other: what fails is left out, but a chart that    *)
(* cannot be drawn takes the kernel with it.                               *)
Render(type, drawable, filter, failing) ==
    LET attempt(got, format) ==
            IF got.how = "panic" \/ ~MatchFilter(filter, format) \/ type \notin Takes[format] THEN got
            ELSE IF format = "svg" /\ ~drawable THEN Panics
            ELSE IF format \in failing THEN got
            ELSE Outcome("ok", got.values \cup {format})
        after[i \in 0..Len(Formats)] ==
            IF i = 0 THEN Outcome("ok", {"text"}) ELSE attempt(after[i - 1], Formats[i])
    IN  IF "text" \in failing THEN Panics          \* NoText, which the callers unwrap
        ELSE after[Len(Formats)]

Show(type, filters, failures) ==
    /\ exit = "no"
    /\ type = "chart" <=> chart # {}
    /\ \E drawable \in {type = "chart" /\ Drawing(TheOne(chart)).how = "ok"},
          filter \in filters, failing \in failures :
       \E out \in {Render(type, drawable, filter, failing)} :
        \/ out.how = "panic" /\ Dies("render")
        \/ /\ out.how = "ok"
           /\ last' = [op |-> "show", how |-> "ok", type |-> type, drawable |-> drawable,
                       filter |-> filter, failing |-> failing, data |-> out.values]
           /\ series' = <<>> /\ chart' = {} /\ written' = NoOptions
           /\ UNCHANGED exit

-----------------------------------------------------------------------------
(* One option to a call: what one says has no bearing on another.          *)
OptionCalls == {NoOptions}
    \cup UNION {{[NoOptions EXCEPT ![f] = {v}] : v \in Options[f]} : f \in OptionNames}
Filters == {"none", "text", "png", "html", "csv", "svg"}
Failing == {{}, {"text"}, {"html"}, {"csv"}, {"svg"}}

Next ==
    \/ \E kind \in {"line", "bar"}, input \in Inputs : MakeSeries(kind, input, {})
    \/ \E c \in Colours : MakeSeries("line", List(<<IntValue(0)>>), {c})
    \/ \E input \in {"list", "one", "mixed", "chart", "none"}, extend \in BOOLEAN, o \in OptionCalls :
          MakeChart(input, extend, o)
    \/ DrawPixels
    \/ \E type \in {"chart", "table", "text"} : Show(type, Filters, Failing)

Spec == Init /\ [][Next]_vars

-----------------------------------------------------------------------------
(* What the commands hand on is what the others build on: a series has a   *)
(* point and a chart four sides, so that a chart with a series always has  *)
(* its ranges (value/chart_2d.rs:96 asks the first series only).           *)
TypeOK ==
    /\ exit \in {"no", "series", "chart", "draw", "render"}
    /\ \A i \in DOMAIN series : series[i].points # <<>>
    /\ \A c \in chart :
        /\ Len(c.margin) = 4 /\ Len(c.label_area) = 4
        /\ \A i \in DOMAIN c.series : c.series[i].points # <<>>
        /\ c.series # <<>> => Drawing(c).how = "ok"

(* Unless the user sets a range, everything lies within the axes: points,  *)
(* the corners of bars at the rounding of any size, and the ticks; and a   *)
(* bar at an integer has its tick, if it is smaller than Exact: beyond,    *)
(* where neighbours compare equal, it may have none.                       *)
InsideAxes ==
    \A c \in chart : \A d \in Drawing(c).values :
        LET ticks == {IntValue(n) : n \in KeyPoints(d.x)}
        IN  /\ c.x_range = {} => \A p \in d.corners : Within(d.x, p.x)
            /\ c.y_range = {} => \A p \in d.corners : Within(d.y, p.y)
            /\ \A t \in ticks : t.num \in d.x.min.num..d.x.max.num
            /\ c.x_range = {} => \A s \in ToSet(c.series) :
                  s.kind = "bar" =>
                      \A p \in ToSet(s.points) :
                          p.x.t = "int" /\ p.x.num \in -10 * (Exact - 1)..10 * (Exact - 1) => p.x \in ticks

(* However often a chart is extended, each option is what was given last   *)
(* for it, or its default; but the mesh is what the last call alone says.  *)
LastWins ==
    \A c \in chart :
        /\ c.width = OrElse(written.width, EmptyChart.width)
        /\ c.height = OrElse(written.height, EmptyChart.height)
        /\ c.background = ColorsOf(written.background)
        /\ c.caption = written.caption
        /\ c.x_range = RangesOf(written.x_range) /\ c.y_range = RangesOf(written.y_range)
        /\ last.op = "chart" /\ last.how = "ok" =>
             c.x_mesh = (TRUE \notin last.given.disable_mesh \cup last.given.disable_x_mesh)

(* The sides of the shorthand are those of CSS, which the help refers to,  *)
(* for one, two and four values (not for three).                           *)
CssSide(list, i) == list[CHOOSE k \in {i, i - 2, 1} \cap DOMAIN list :
                           \A j \in {i, i - 2, 1} \cap DOMAIN list : j <= k]
AsInCss(option, sides) ==
    \A list \in option : Len(list) \in {1, 2, 4} => sides = [i \in 1..4 |-> CssSide(list, i)]
SidesAgree == \A c \in chart : /\ AsInCss(written.margin, c.margin)
                               /\ AsInCss(written.label_area, c.label_area)

(* A picture that comes out has three bytes for every pixel, even though   *)
(* their number was computed with 32 bits.                                 *)
PictureWhole ==
    last.op = "draw" => last.picture.bytes = last.picture.width * last.picture.height * 3

(* A colour reads the same however it is written: as the record it is      *)
(* shown as, as a list, and as digits, of which three stand for six.       *)
Doubled(chars) == <<"#", chars[2], chars[2], chars[3], chars[3], chars[4], chars[4]>>
ColoursReadBack ==
    last.op = "series" /\ last.how = "ok" =>
        LET c == Last(series).color
            v == ColorValue(c)
        IN  /\ ColorOf(v) = {c}
            /\ ColorOf(List(<<v.fields.r, v.fields.g, v.fields.b, v.fields.a>>)) = {c}
            /\ \A w \in last.color :
                 w.t = "string" /\ Len(w.chars) = 4 => ColorOf(String(Doubled(w.chars))) = {c}

(* A value is shown as text and, of the formats its type allows, in the    *)
(* one the filter names or else in all, whichever of the others fail.      *)
ShownAsAsked ==
    last.op = "show" =>
        last.data = {"text"} \cup {f \in ToSet(Formats) \ last.failing :
                                      /\ last.type \in Takes[f]
                                      /\ last.filter \in {"none", f}
                                      /\ f = "svg" => last.drawable}
=============================================================================
