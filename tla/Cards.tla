------------------------------- MODULE Cards -------------------------------
(***************************************************************************)
(* How a friend's card is made of what their devices sent: which device    *)
(* speaks for the account, which layout counts, what its wildcards stand   *)
(* for, and where each tile stands on the grid.                            *)
(*                                                                         *)
(* The devices come in whatever order the feed's map is walked.  Tiles     *)
(* keep what decides about their place; colours, icons, titles and the     *)
(* wording of values are left out.                                         *)
(***************************************************************************)
EXTENDS Integers, FiniteSets, SequencesExt

CONSTANTS
    Accounts,  \* the sets of devices an account may have
    NoLayout   \* for a device that sends none

\* A tile of a layout that is sent; whether it stands on a card is decided below.
LaidTile == [kind : STRING, field : STRING, device : Nat, size : STRING,
             missing : STRING, url : BOOLEAN]

\* The feed holds one snapshot by device.
AccountsAssumption ==
    \A S \in Accounts :
        /\ IsFiniteSet(S)
        /\ \A d, e \in S : d.id = e.id => d = e
        /\ \A d \in S :
             /\ d.id \in Nat /\ d.rank \in Nat /\ d.custom \in Seq(STRING)
             /\ d.layout # NoLayout => /\ d.layout.updated \in Nat
                                      /\ {d.layout.row, d.layout.detail} \subseteq Seq(LaidTile)

VARIABLES
    devices,   \* the devices of an account, in the order the feed gives them
    card       \* what is drawn of them: a row of tiles, and a grid

Columns == 4
RowRows == 2
DetailRows == 4
MaxHeroes == 3
StaleGap == 45

Size == {"1x1", "2x1", "2x2", "4x1"}
Wide(size) == CASE size = "4x1" -> 4 [] size \in {"2x1", "2x2"} -> 2 [] OTHER -> 1
High(size) == IF size = "2x2" THEN 2 ELSE 1

-----------------------------------------------------------------------------
(* Lists. *)

\* The numbers among 1..n that are chosen, in order.
InOrder(n, chosen) ==
    LET upTo[k \in 0..n] == IF k = 0 THEN <<>>
                            ELSE IF k \in chosen THEN Append(upTo[k - 1], k) ELSE upTo[k - 1]
    IN  upTo[n]

\* What s has at the chosen places, in order.
Keep(s, chosen) ==
    LET places == InOrder(Len(s), chosen) IN [i \in DOMAIN places |-> s[places[i]]]

-----------------------------------------------------------------------------
(* The grid.  A cell is its column and its row.  A tile stands at its first cell, *)
(* and a spot is the number of that cell, row by row.                             *)

Grid(rows) == (0..Columns - 1) \X (0..rows - 1)

Cells(at, size) ==
    {(at % Columns) + col : col \in 0..Wide(size) - 1}
        \X {(at \div Columns) + row : row \in 0..High(size) - 1}

Spots(size, rows) == {at \in 0..Columns * rows - 1 : Cells(at, size) \subseteq Grid(rows)}

NoSpot == 0 - 1

\* Each tile in turn takes the first spot that is free, or none.
Pack(sizes, rows) ==
    LET after[n \in 0..Len(sizes)] ==
            IF n = 0 THEN [taken |-> {}, at |-> <<>>]
            ELSE LET grid == after[n - 1]
                     free == {at \in Spots(sizes[n], rows) :
                                 Cells(at, sizes[n]) \cap grid.taken = {}}
                 IN  IF free = {}
                     THEN [taken |-> grid.taken, at |-> Append(grid.at, NoSpot)]
                     ELSE [taken |-> grid.taken \cup Cells(Min(free), sizes[n]),
                           at |-> Append(grid.at, Min(free))]
    IN  after[Len(sizes)].at

Placed(at) == {i \in DOMAIN at : at[i] # NoSpot}

Taken(sizes, at) == UNION {Cells(at[i], sizes[i]) : i \in Placed(at)}

EmptyCells(sizes, at) ==
    LET used == Min({rows \in 0..DetailRows : Taken(sizes, at) \subseteq Grid(rows)})
    IN  used * Columns - Cardinality(Taken(sizes, at))

-----------------------------------------------------------------------------
(* What a device sends: its "id", whether the feed holds it "offline", its   *)
(* "rank" by what it plays, when it was "seen", whether it "hides", the      *)
(* "shape" of each value it sends, the names of its "custom" fields, what    *)
(* else it "has" to show, and its "layout".                                  *)

NativeFields ==
    <<"cpu", "mem", "disk", "battery", "load", "uptime", "workspace",
      "active_window", "active_app", "package_count">>

\* A custom field may not take the name of one of these.
NativeFieldKeys == (ToSet(NativeFields) \ {"battery"}) \cup {"ram", "memory"}

\* The fields of a device, those it measures before those its owner made up.
FieldsFor(d) ==
    LET native == Keep(NativeFields, {i \in DOMAIN NativeFields : NativeFields[i] \in DOMAIN d.shape})
        custom == Keep(d.custom, {i \in DOMAIN d.custom :
                                     d.custom[i] \in DOMAIN d.shape \ NativeFieldKeys})
        keys == native \o custom
    IN  [i \in DOMAIN keys |-> [key |-> keys[i], shape |-> d.shape[keys[i]]]]

\* A device that fell behind the newest comes after those that did not.
Behind(d, group) ==
    IF Max({o.seen : o \in group}) - d.seen > StaleGap THEN 1 ELSE 0

\* Mutant: devices of one rank stay as they came.
BeforeByRank(a, b, group) ==
    \/ a.rank < b.rank
    \/ a.rank = b.rank /\ Behind(a, group) < Behind(b, group)

\* Whether a comes before b among the devices of its account.
Before(a, b, group) ==
    \/ a.rank < b.rank
    \/ a.rank = b.rank /\ Behind(a, group) < Behind(b, group)
    \/ a.rank = b.rank /\ Behind(a, group) = Behind(b, group) /\ a.id < b.id

\* The devices that are not offline.  The sort is stable: of two neither of which
\* comes before the other, the one that came first does.
SortDevices(devs) ==
    LET there == {i \in DOMAIN devs : ~devs[i].offline}
        group == {devs[i] : i \in there}
        ahead(i, j) == \/ Before(devs[i], devs[j], group)
                       \/ ~Before(devs[j], devs[i], group) /\ i < j
        order == CHOOSE o \in Bijection(1..Cardinality(there), there) :
                     \A i, j \in DOMAIN o : i < j => ahead(o[i], o[j])
    IN  [i \in DOMAIN order |-> devs[order[i]]]

\* The layout changed last, of equals the first device's.
Layout(sorted) ==
    LET with == {i \in DOMAIN sorted : sorted[i].layout # NoLayout}
        newest == {i \in with :
                     \A j \in with : sorted[j].layout.updated <= sorted[i].layout.updated}
    IN  IF with = {} THEN NoLayout ELSE sorted[Min(newest)].layout

\* The fields a card offers beside its status line.
DetailFields(d) ==
    LET fields == FieldsFor(d)
    IN  Keep(fields, {i \in DOMAIN fields : fields[i].key \notin {"active_app", "active_window"}})

-----------------------------------------------------------------------------
(* Tiles: a "kind", for a scalar its "field" and the device it is of, a "size", *)
(* what is done when there is nothing to show, and for a picture its address.    *)

Kinds == {"scalar", "music", "game", "video", "alarm", "meeting", "photo", "picture"}
Wildcard == "*"
AnyDevice == 0

Sanitize(tile) ==
    /\ tile.kind \in Kinds
    /\ tile.size \in Size \cup {""}
    /\ tile.kind = "scalar" => tile.field # ""

\* Mutant: a wildcard stands for every field.
ExpandAll(tiles, fields) ==
    LET clean == Keep(tiles, {i \in DOMAIN tiles : Sanitize(tiles[i])})
        one(t) == IF t.field # Wildcard THEN <<t>>
                  ELSE [i \in DOMAIN fields |-> [t EXCEPT !.field = fields[i].key]]
    IN  FlattenSeq([i \in DOMAIN clean |-> one(clean[i])])

\* A wildcard stands for the fields no other tile names.
Expand(tiles, fields) ==
    LET clean == Keep(tiles, {i \in DOMAIN tiles : Sanitize(tiles[i])})
        named == {t.field : t \in ToSet(clean)} \ {Wildcard}
        unnamed == Keep(fields, {i \in DOMAIN fields : fields[i].key \notin named})
        one(t) == IF t.field # Wildcard THEN <<t>>
                  ELSE [i \in DOMAIN unnamed |-> [t EXCEPT !.field = unnamed[i].key]]
    IN  FlattenSeq([i \in DOMAIN clean |-> one(clean[i])])

\* The devices a tile can show: of a field the one it names, or else the first,
\* if it has that field; of music, games and so on each that has them.  The photo,
\* which is the account's, counts for each device.
Sources(t, sorted) ==
    LET device == IF t.device = AnyDevice THEN {sorted[1].id} ELSE {t.device}
    IN  SelectSeq(sorted, LAMBDA d :
            IF t.kind = "scalar"
            THEN d.id \in device /\ \E f \in ToSet(FieldsFor(d)) : f.key = t.field
            ELSE t.kind \in d.has)

HasData(t, sorted) == IF t.kind = "picture" THEN t.url ELSE Sources(t, sorted) # <<>>

\* A tile on the grid shows the first of its sources.
Tile(t, spot, sorted) ==
    LET sources == Sources(t, sorted)
    IN  [tile |-> t, at |-> spot, of |-> IF sources = <<>> THEN AnyDevice ELSE sources[1].id,
         dimmed |-> t.missing = "dim" /\ ~HasData(t, sorted)]

\* The tiles that stand on the grid, each with its spot.
Place(tiles, rows, sorted) ==
    LET shown == Keep(tiles, {i \in DOMAIN tiles :
                                 tiles[i].missing # "hide" \/ HasData(tiles[i], sorted)})
        sizes == [i \in DOMAIN shown |-> shown[i].size]
        at == Pack(sizes, rows)
        standing == InOrder(Len(shown), Placed(at))
    IN  [i \in DOMAIN standing |-> Tile(shown[standing[i]], at[standing[i]], sorted)]

-----------------------------------------------------------------------------
(* The grid of an owner who has not laid out any. *)

StandardTile(f) ==
    [kind |-> "scalar", field |-> f.key, device |-> AnyDevice, missing |-> "hide",
     url |-> FALSE, shape |-> f.shape, size |-> IF f.shape = "text" THEN "2x1" ELSE "1x1"]

\* The first rings, then numbers, are heroes; the first text is wide.
Grown(tiles, heroes, widen) ==
    LET of(shape) == InOrder(Len(tiles), {i \in DOMAIN tiles : tiles[i].shape = shape})
        gauges == of("ring") \o of("number")
        grow(i) == CASE \E k \in DOMAIN gauges : k <= heroes /\ gauges[k] = i -> "2x2"
                     [] widen /\ i = Min(ToSet(of("text")) \cup {Len(tiles) + 1}) -> "4x1"
                     [] OTHER -> tiles[i].size
        out == [i \in DOMAIN tiles |-> [tiles[i] EXCEPT !.size = grow(i)]]
        sized(size) == Keep(out, {i \in DOMAIN out : out[i].size = size})
    IN  sized("2x2") \o sized("2x1") \o sized("1x1") \o sized("4x1")

\* Of all growths the one with the fewest holes, then the fewest tiles left out,
\* then the least growth.
StandardDetail(fields) ==
    LET tiles == [i \in DOMAIN fields |-> StandardTile(fields[i])]
        candidates == {[heroes |-> h, widen |-> w, tiles |-> Grown(tiles, h, w)] :
                          h \in 0..MaxHeroes, w \in BOOLEAN}
        \* The three scores in one number, each worth more than all the next can be; of
        \* equals the one that is tried first, without a wide text.
        score(c) ==
            LET sizes == [i \in DOMAIN c.tiles |-> c.tiles[i].size]
                at == Pack(sizes, DetailRows)
            IN  10 * (Len(tiles) + 1) * EmptyCells(sizes, at)
                + 10 * (Len(tiles) - Cardinality(Placed(at)))
                + 2 * c.heroes + (IF c.widen THEN 3 ELSE 0)
    IN  (CHOOSE c \in candidates : \A o \in candidates : score(c) <= score(o)).tiles

-----------------------------------------------------------------------------
(* The card: a row, if the layout has one, and a grid. *)

Blank == [row |-> <<>>, detail |-> <<>>]

Card(devs) ==
    LET sorted == SortDevices(devs)
        layout == Layout(sorted)
        fields == DetailFields(sorted[1])
        row == IF layout = NoLayout THEN <<>> ELSE Expand(layout.row, fields)
        own == IF layout = NoLayout THEN <<>> ELSE Expand(layout.detail, fields)
    IN  IF sorted = <<>> \/ sorted[1].hides THEN Blank
        ELSE [row |-> Place(row, RowRows, sorted),
              detail |-> Place(IF own = <<>> THEN StandardDetail(fields) ELSE own,
                               DetailRows, sorted)]

-----------------------------------------------------------------------------
Orders(S) == Bijection(1..Cardinality(S), S)

Init == \E S \in Accounts : devices \in Orders(S) /\ card = Card(devices)

\* The feed is walked again, in another order.
Walk == devices' \in Orders(ToSet(devices)) /\ card' = Card(devices')

Spec == Init /\ [][Walk]_<<devices, card>>

-----------------------------------------------------------------------------
(* Properties. *)

\* The card is the same whatever order the feed's map is walked in, which changes
\* from one render to the next: the same device speaks for the account, the same
\* layout counts, every tile keeps its place.
SameCard == [][card' = card]_<<devices, card>>

\* The tiles of a surface of this many rows.
Sound(tiles, rows) ==
    LET area(i) == Cells(tiles[i].at, tiles[i].tile.size)
    IN  /\ \A i \in DOMAIN tiles : area(i) \subseteq Grid(rows)
        /\ \A i, j \in DOMAIN tiles : i # j => area(i) \cap area(j) = {}

\* How many of some tiles are of a field.
Count(tiles, field) == Cardinality({i \in DOMAIN tiles : tiles[i].field = field})

\* Every tile stands on the grid, beside the others; a tile of the owner's layout
\* that has something to show and is not on the card would not fit in what is
\* left; and a wildcard repeats no field that another tile names.
CardHolds ==
    LET sorted == SortDevices(devices)
        layout == Layout(sorted)
        own == Expand(layout.detail, DetailFields(sorted[1]))
        left == Grid(DetailRows) \ UNION {Cells(t.at, t.tile.size) : t \in ToSet(card.detail)}
    IN  /\ Sound(card.row, RowRows) /\ Sound(card.detail, DetailRows)
        /\ sorted # <<>> /\ layout # NoLayout /\ ~sorted[1].hides =>
             /\ \A t \in ToSet(own) :
                  HasData(t, sorted) /\ (\A shown \in ToSet(card.detail) : shown.tile # t) =>
                    \A at \in 0..Columns * DetailRows - 1 : ~(Cells(at, t.size) \subseteq left)
             /\ \A t \in ToSet(layout.detail) :
                  Sanitize(t) /\ t.field # Wildcard =>
                    Count(own, t.field) <= Count(layout.detail, t.field)
=============================================================================
