------------------------------ MODULE MCRecon ------------------------------
(***************************************************************************)
(* Instances of Recon over rules of the baseline.                          *)
(***************************************************************************)
EXTENDS BaselineRecon, MCLegs, TLC

MCTypeOf(key) == R!BaselineType(key)

\* The rule two_puts is of no rulebook of the repository.
MCTest(key, p, b) ==
  IF key[1] # "two_puts" THEN R!BaselineTest(key, p, b)
  ELSE IF b["any"].K < b["put"].K THEN "true" ELSE "false"

MCValue(key, p, b) == IF key[1] # "two_puts" THEN R!BaselineValue(key, p, b) ELSE 0

-----------------------------------------------------------------------------
(***************************************************************************)
(* Rulebooks: the rules of the baseline, and broken ones.                  *)
(***************************************************************************)
Book(rules) == [schema |-> "1", rules |-> rules, mult |-> 100]

TwoPuts ==
  R!Plain("two_puts", <<R!Slot("any", "long", "option", "any"),
                        R!Slot("put", "long", "option", "put")>>)

AmbiguousSlots ==
  [TwoPuts EXCEPT !.slots = <<R!Slot("one", "long", "option", "put"),
                              R!Slot("other", "long", "option", "put")>>]

BrokenRules ==
  {AmbiguousSlots,
   [TwoPuts EXCEPT !.pattern = "all_options"],
   [TwoPuts EXCEPT !.requires.expirations = <<"any", "nowhere">>],
   [TwoPuts EXCEPT !.requires.positive = {<<"any", "und">>}],
   [TwoPuts EXCEPT !.constraints = <<"misplaced">>],
   [TwoPuts EXCEPT !.cash.formulas = {}, !.margin.formulas = {}]}

MCRulebooks ==
  {Book(R!BaselineRules), [Book(R!BaselineRules) EXCEPT !.schema = ""],
   Book(<<R!CoveredCall, R!VerticalSpread, R!CoveredCall>>)}
  \cup {Book(<<R!CoveredCall, r>>) : r \in BrokenRules}

-----------------------------------------------------------------------------
(***************************************************************************)
(* Positions, by the legs they are made of.                                *)
(***************************************************************************)
ShortPut == Short("put", 40)

Boxed(low, high) == <<Long("call", low), Short("put", low), Long("put", high), Short("call", high)>>

CombosOfThree ==
  {<<Long("call", 40), [Short("call", 50) EXCEPT !.qty = 2], Long("call", 60)>>,
   <<Long("call", 40), [Short("call", 50) EXCEPT !.qty = 2], Long("put", 60)>>,
   <<[Long("call", 40) EXCEPT !.mult = 10], Short("call", 50), Long("put", 60)>>,
   <<Long("put", 40), [Short("put", 50) EXCEPT !.qty = 3], Long("put", 60)>>,
   <<Long("call", 40), Long("call", 50), [Long("put", 60) EXCEPT !.und = "Y"]>>}

\* Boxes, which the generic rule takes too, European and with a style missing.
Boxes ==
  {[i \in 1..4 |-> [Boxed(lo, hi)[i] EXCEPT !.style = style]] :
     lo, hi \in {40, 50}, style \in {"american", "european", ""}}
  \cup {[Boxed(40, 50) EXCEPT ![1].exp = 2], [Boxed(40, 50) EXCEPT ![4].mult = 10]}

OptionPositions ==
  {<<>>, <<Long("call", 50)>>, <<[Long("put", 50) EXCEPT !.months = 12]>>,
   <<[Long("put", 50) EXCEPT !.months = 0]>>, <<[Long("put", 50) EXCEPT !.months = NotFinite]>>,
   <<Short("call", 60)>>, <<[Short("call", 60) EXCEPT !.mult = 0]>>,
   <<[Short("call", 60) EXCEPT !.K = NotFinite]>>, <<[ShortPut EXCEPT !.qty = -1]>>, <<ShortPut>>,
   <<Short("call", 60), ShortPut>>,
   <<Long("call", 40), Short("call", 50)>>, <<Short("put", 50), Long("put", 40)>>,
   <<[Long("call", 40) EXCEPT !.exp = 0], [Short("call", 50) EXCEPT !.exp = 0]>>,
   <<[Long("call", 40) EXCEPT !.exp = 2], Short("call", 50)>>,
   <<[Long("call", 40) EXCEPT !.und = "Y"], Short("call", 50)>>}

StockPositions ==
  {<<Stock("long", 100)>>,
   <<Short("call", 60), Stock("long", 100)>>, <<Stock("long", 99), Short("call", 60)>>,
   <<ShortPut, Stock("short", 100)>>,
   <<ShortPut, [Stock("short", 100) EXCEPT !.proceeds = 5000]>>}

GarbledPositions ==
  {<<[Long("call", 50) EXCEPT !.qty = Blank]>>, <<[Long("call", 50) EXCEPT !.K = Garbled]>>}

Positions == CombosOfThree \cup Boxes \cup OptionPositions \cup StockPositions

-----------------------------------------------------------------------------
(***************************************************************************)
(* Files.  A leg row carries its position's id and its leg_index; the rows *)
(* of two positions alternate.                                             *)
(***************************************************************************)
PosRow(id, class, account, phase, vendor) ==
  [id |-> id, U |-> 50, class |-> class, lev |-> Blank, account |-> account, phase |-> phase,
   vendor |-> vendor]

LegRow(id, i, leg) == leg @@ [id |-> id, index |-> i]

\* Listed in the order of the legs or backwards, with or without indexes.
LegRows(id, legs) ==
  LET n == Len(legs) IN
  {[i \in 1..n |-> LegRow(id, i, legs[i])],
   [i \in 1..n |-> LegRow(id, n + 1 - i, legs[n + 1 - i])],
   [i \in 1..n |-> LegRow(id, Blank, legs[i])]}

Stray == LegRow("nobody", 1, Long("call", 50))

Cells == {<<"equity", "margin", "initial">>, <<"equity", "margin", "maintenance">>,
          <<"equity", "cash", "initial">>, <<"equity", "cash", "maintenance">>,
          <<"unknown", "", "">>, <<"", "margin", "initial">>, <<"equity", "joint", "initial">>}

OneRow ==
  {[positions |-> <<PosRow("p", x[1], x[2], x[3], 0)>>, legs |-> Append(ls, Stray)] :
     x \in Cells, ls \in UNION {LegRows("p", legs) : legs \in Positions \cup GarbledPositions}}

\* Vendor numbers on and beside the bounds of the buckets.
Vendors == {0, 500000, 490000, 499900, 499901, NotFinite, Blank, Garbled}

Covered == <<Short("call", 60), Stock("long", 100)>>

TwoRows ==
  {[positions |-> <<PosRow("p", "equity", "cash", "initial", v), EmptyRow,
                    PosRow(id, "equity", "margin", "initial", v)>>,
    legs |-> l1 \o <<EmptyRow>> \o l2] :
     v \in Vendors, id \in {"p", "q", ""},
     l1 \in LegRows("p", Covered), l2 \in LegRows("q", <<Long("call", 40), Short("call", 50)>>)}

\* A box with the vendor number its strategy asks for, and the one the rule for
\* combinations would.
BoxRows ==
  {[positions |-> <<PosRow("p", "equity", "margin", "initial", v)>>, legs |-> ls] :
     v \in {100000, 140000}, ls \in LegRows("p", Boxed(50, 40))}

MCFiles == {[positions |-> <<>>, legs |-> <<>>]} \cup OneRow \cup TwoRows \cup BoxRows

\* Two long puts, the second of which any slot takes.
PutPair ==
  {[positions |-> <<PosRow("p", "equity", "margin", "initial", 0)>>,
    legs |-> <<LegRow("p", 1, Long("put", 40)), LegRow("p", 2, Long("put", 50))>>]}

\* Slots that are not identical, and of which a long put fits both.
Overlapping == {Book(<<[TwoPuts EXCEPT !.constraints = <<"legs.any.K < legs.put.K">>]>>)}

=============================================================================
