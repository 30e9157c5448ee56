----------------------------- MODULE DisplayMC -----------------------------
(* Values for the constants of Display. *)
EXTENDS Display

I(n) == IntValue(n)
Point(x, y) == Record([x |-> x, y |-> y])

(* Numbers, pairs, points, mixtures of them, and what is none of these.    *)
MCInputs ==
    {List(<<a>>) : a \in {I(-3), FloatValue(25), I(17)}}
    \cup {List(<<a, b>>) : a \in {I(-3), I(15)}, b \in {FloatValue(25), I(17)}}
    \cup {List(<<List(<<a, I(3)>>), List(<<b, I(-3), I(0)>>)>>) :
              a \in {I(15), FloatValue(25), I(17)}, b \in {I(-3), I(16)}}
    \cup {List(<<Point(I(7), I(0)), List(<<I(-3), FloatValue(25)>>)>>),
          List(<<List(<<I(7), I(0)>>), Point(I(-3), I(0))>>),
          List(<<>>), List(<<NaN>>), List(<<I(0), NaN>>), List(<<I(0), List(<<I(0), I(0)>>)>>),
          List(<<List(<<I(0)>>)>>), Nothing}

(* Bytes of channels at their limits, alphas, and the ways of writing them.*)
MCChannels == {I(0), I(255), I(256), I(-1), FloatValue(10)}
MCAlphas == {I(1), FloatValue(5), FloatValue(11), NaN, Nothing}
Hex(chars) == String(<<"#">> \o chars)
MCColours ==
    {List(<<c, I(17), I(0)>>) : c \in MCChannels}
    \cup {List(<<I(0), c, I(17), a>>) : c \in MCChannels, a \in MCAlphas}
    \cup {List(<<I(0), I(1), I(2), FloatValue(5), I(9)>>), List(<<I(0), I(1)>>), Nothing}
    \cup {Record([r |-> I(1), g |-> c, b |-> I(17), a |-> a]) : c \in {I(255), I(256)}, a \in MCAlphas}
    \cup {Record([r |-> I(1), g |-> I(2), b |-> I(3)]), Record([r |-> I(1), g |-> I(2)])}
    \cup {String(<<name>>) : name \in {"red", "cyan", "azure"}}
    \cup {Hex(<<a, b, c>>) : a \in {"0", "f"}, b \in {"9", "g", "wide"}, c \in {"f", "+", "wide"}}
    \cup {Hex(<<a, b, "c", "4", "0", "f">>) : a \in {"f", "g", "+"}, b \in {"0", "f", "wide"}}
    \cup {Hex(<<a, b, c, "7", "0">>) : a \in {"1", "wide"}, b, c \in {"1", "g", "wide"}}
    \cup {Hex(<<"1">>), Hex(<<"1", "wide">>), Hex(<<"wide", "1">>), Hex(<<"wide", "wide">>)}

MCSides == {<<>>, <<1>>, <<1, 2>>, <<1, 2, 3>>, <<1, 2, 3, 4>>, <<1, 2, 3, 4, 5>>}
MCOptions ==
    [width |-> {300, 1000}, height |-> {500}, caption |-> {"caption"},
     background |-> {String(<<"red">>), String(<<"azure">>), Hex(<<"0", "wide">>)},
     margin |-> MCSides, label_area |-> {<<7, 8>>, <<>>},
     x_range |-> {[t |-> "range", ends |-> <<I(0), I(7)>>], [t |-> "range", ends |-> <<I(0)>>]},
     y_range |-> {List(<<I(-3), FloatValue(25)>>), List(<<I(0)>>), List(<<I(0), I(1), I(2)>>),
                  Record([min |-> I(0), max |-> I(3)]), I(3)},
     disable_mesh |-> {TRUE, FALSE}, disable_x_mesh |-> {TRUE}, disable_y_mesh |-> {TRUE}]
=============================================================================
