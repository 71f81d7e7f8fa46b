--------------------------- MODULE TilePlanProofs ---------------------------
(***************************************************************************)
(* Proofs about TilePlan: for images of any size, any demand hint, any     *)
(* budgets and any number of threads.                                      *)
(***************************************************************************)
EXTENDS TileDemand, TLAPS

-----------------------------------------------------------------------------
(* Arithmetic.                                                             *)

\* Division with a remainder, as the planner rounds.
LEMMA Division ==
    ASSUME NEW a \in Int, NEW b \in Nat \ {0}
    PROVE  /\ a \div b \in Int /\ a % b \in Int
           /\ a = b * (a \div b) + (a % b) /\ 0 <= (a % b) /\ (a % b) < b
  OBVIOUS

\* Multiplying by a natural number keeps an order.
LEMMA Products ==
    ASSUME NEW a \in Int, NEW b \in Int, NEW c \in Nat, a <= b
    PROVE  a * c <= b * c /\ a * c \in Int /\ b * c \in Int
  OBVIOUS

\* Rounding up: the least number of cells of size s that cover n.
LEMMA RoundsUp ==
    ASSUME NEW n \in Nat, NEW s \in Nat \ {0}
    PROVE  /\ DivCeil(n, s) \in Nat
           /\ n <= DivCeil(n, s) * s
           /\ DivCeil(n, s) * s <= n + s - 1
           /\ n = 0 <=> DivCeil(n, s) = 0
<1> DEFINE q == DivCeil(n, s)
           r == (n + s - 1) % s
<1>1. /\ q \in Int /\ r \in Int /\ n + s - 1 = s * q + r /\ 0 <= r /\ r < s
  BY Division DEF DivCeil
<1> HIDE DEF q, r
<1>2. q * s \in Int /\ n + s - 1 = q * s + r
  BY <1>1
<1>3. n <= q * s /\ q * s <= n + s - 1
  BY <1>1, <1>2
<1>4. q >= 0
  <2>1. SUFFICES ASSUME q <= -1 PROVE FALSE
    BY <1>1
  <2>2. q * s <= (-1) * s
    BY <1>1, <2>1, Products
  <2> QED  BY <1>1, <1>2, <1>3, <2>2
<1>5. n = 0 => q = 0
  <2>1. SUFFICES ASSUME n = 0, q >= 1 PROVE FALSE
    BY <1>1, <1>4
  <2>2. 1 * s <= q * s
    BY <1>1, <2>1, Products
  <2> QED  BY <1>1, <1>2, <1>3, <2>1, <2>2
<1>6. q = 0 => n = 0
  BY <1>3
<1> QED  BY <1>1, <1>3, <1>4, <1>5, <1>6 DEF q

\* Products of two numbers of cells with a cell size are told apart by the numbers.
LEMMA Factors ==
    ASSUME NEW a \in Int, NEW b \in Int, NEW s \in Nat \ {0}
    PROVE  /\ a * s < b * s <=> a < b
           /\ a * s <= b * s <=> a <= b
           /\ (a + 1) * s = a * s + s
  OBVIOUS

-----------------------------------------------------------------------------
(* One side of the image cut into cells.                                   *)

\* The cells of a side.
Cells(size, length) ==
    { <<CellStart(k, size), CellExtent(k, size, length)>> : k \in 0 .. DivCeil(length, size) - 1 }

\* Where the cells of a side lie: one after the other, none empty, the last one
\* up to the end.
LEMMA CellBounds ==
    ASSUME NEW length \in Nat, NEW size \in Nat \ {0}, NEW k \in 0 .. DivCeil(length, size) - 1
    PROVE  /\ CellStart(k, size) \in Nat /\ CellExtent(k, size, length) \in Nat \ {0}
           /\ CellStart(k, size) + CellExtent(k, size, length) <= length
           /\ k + 1 < DivCeil(length, size) =>
                 CellStart(k, size) + CellExtent(k, size, length) = CellStart(k + 1, size)
           /\ k + 1 < DivCeil(length, size) => CellStart(k, size) + CellExtent(k, size, length) < length
           /\ k + 1 = DivCeil(length, size) =>
                 CellStart(k, size) + CellExtent(k, size, length) = length
<1> DEFINE n == DivCeil(length, size)
<1>1. /\ n \in Nat /\ length <= n * size /\ n * size <= length + size - 1
  BY RoundsUp
<1>2. k \in Nat /\ k + 1 <= n /\ n * size \in Int
  BY <1>1
<1> HIDE DEF n
<1>3. /\ k * size \in Nat /\ (k + 1) * size = k * size + size /\ (k + 1) * size <= n * size
  BY <1>1, <1>2, Factors
<1>4. k * size < length
  BY <1>1, <1>2, <1>3
<1>5. k + 1 < n => (k + 1) * size + size <= n * size
  <2>1. SUFFICES ASSUME k + 1 < n PROVE (k + 1) * size + size <= n * size
    OBVIOUS
  <2>2. k + 2 <= n /\ (k + 1) + 1 = k + 2
    BY <1>1, <1>2, <2>1
  <2>3. (k + 2) * size <= n * size /\ ((k + 1) + 1) * size = (k + 1) * size + size
    BY <1>1, <1>2, <2>2, Factors
  <2> QED  BY <2>2, <2>3
<1>6. k + 1 < n => k * size + size < length
  BY <1>1, <1>2, <1>3, <1>5
<1>7. k + 1 = n => length <= k * size + size
  BY <1>1, <1>2, <1>3
<1> QED
  BY <1>2, <1>3, <1>4, <1>6, <1>7 DEF CellStart, CellExtent, Least, n

\* Cells that come one after the other do not meet.
LEMMA CellsApart ==
    ASSUME NEW length \in Nat, NEW size \in Nat \ {0},
           NEW j \in 0 .. DivCeil(length, size) - 1, NEW k \in 0 .. DivCeil(length, size) - 1, j < k
    PROVE  CellStart(j, size) + CellExtent(j, size, length) <= CellStart(k, size)
<1>1. /\ j \in Int /\ k \in Int /\ j + 1 <= k /\ length \in Int
  BY RoundsUp
<1>2. (j + 1) * size <= k * size /\ (j + 1) * size = j * size + size
  BY <1>1, Factors
<1>3. j * size \in Int /\ k * size \in Int
  BY <1>1
<1> QED  BY <1>2, <1>3 DEF CellStart, CellExtent, Least

\* The cells of a side cover it once.
LEMMA CellsCut ==
    ASSUME NEW length \in Nat, NEW size \in Nat \ {0}
    PROVE  CutsOnce(Cells(size, length), length)
<1> DEFINE n == DivCeil(length, size)
           cell(k) == <<CellStart(k, size), CellExtent(k, size, length)>>
<1>1. n \in Nat /\ length <= n * size
  BY RoundsUp
<1>2. SUFFICES ASSUME NEW x \in 0 .. length - 1
               PROVE  \E c \in Cells(size, length) :
                          /\ c[1] <= x /\ x < c[1] + c[2]
                          /\ \A d \in Cells(size, length) \ {c} : ~(d[1] <= x /\ x < d[1] + d[2])
  BY DEF CutsOnce
<1> DEFINE q == x \div size
<1>3. /\ q \in Int /\ x % size \in Int /\ x = size * q + (x % size) /\ 0 <= x % size /\ x % size < size
      /\ x \in Int /\ 0 <= x /\ x < length
  BY Division
<1> HIDE DEF q
<1>4. /\ q * size \in Int /\ q * size <= x /\ x < q * size + size /\ (q + 1) * size = q * size + size
  BY <1>3, Factors
<1>5. q \in 0 .. n - 1
  <2>1. 0 * size < (q + 1) * size /\ q * size < n * size /\ n * size \in Int
    BY <1>1, <1>3, <1>4
  <2>2. 0 < q + 1 /\ q < n
    BY <1>1, <1>3, <2>1, Factors
  <2> QED  BY <1>1, <1>3, <2>2
<1> HIDE DEF n
<1>6. CellStart(q, size) <= x /\ x < CellStart(q, size) + CellExtent(q, size, length)
  BY <1>3, <1>4 DEF CellStart, CellExtent, Least
<1>7. ASSUME NEW k \in 0 .. n - 1, k # q
      PROVE  ~(CellStart(k, size) <= x /\ x < CellStart(k, size) + CellExtent(k, size, length))
  <2>1. k \in Int /\ k * size \in Int /\ length \in Int /\ n \in Nat
    BY <1>1
  <2>2. CellStart(k, size) \in Int /\ CellExtent(k, size, length) \in Int
        /\ CellStart(q, size) \in Int /\ CellExtent(q, size, length) \in Int
    BY <1>4, <2>1 DEF CellStart, CellExtent, Least
  <2>3. CASE k < q
    <3>1. CellStart(k, size) + CellExtent(k, size, length) <= CellStart(q, size)
      BY <1>5, <2>3, CellsApart DEF n
    <3> QED  BY <1>3, <1>6, <2>2, <3>1
  <2>4. CASE q < k
    <3>1. CellStart(q, size) + CellExtent(q, size, length) <= CellStart(k, size)
      BY <1>5, <2>4, CellsApart DEF n
    <3> QED  BY <1>3, <1>6, <2>2, <3>1
  <2> QED  BY <1>3, <1>7, <2>1, <2>3, <2>4
<1>8. \A d \in Cells(size, length) : \E k \in 0 .. n - 1 : d = cell(k)
  BY DEF Cells, n
<1>9. cell(q) \in Cells(size, length)
  BY <1>5 DEF Cells, n
<1>10. ASSUME NEW d \in Cells(size, length), d # cell(q) PROVE ~(d[1] <= x /\ x < d[1] + d[2])
  <2>1. PICK k \in 0 .. n - 1 : d = cell(k)
    BY <1>8
  <2>2. k # q
    BY <1>10, <2>1
  <2> QED  BY <1>7, <2>1, <2>2
<1> QED  BY <1>6, <1>9, <1>10

-----------------------------------------------------------------------------
(* Geometries.                                                             *)

Request == [ width : Nat, height : Nat, hint : Hints, rowBytes : Nat, l2 : Nat,
             threads : Nat \ {0}, stripTiles : Nat, nodes : Nat ]

Empty(p) == p.width = 0 \/ p.height = 0

\* What the tiles of an image rely on: sizes are positive and the numbers of
\* columns and rows are those that cover the image.
GeometryFits(g, p) ==
    /\ g \in [tileWidth : Nat \ {0}, tileHeight : Nat \ {0}, cols : Nat, rows : Nat]
    /\ g.cols = DivCeil(p.width, g.tileWidth)
    /\ g.rows = DivCeil(p.height, g.tileHeight)

\* The tile height of a hint is at least one row, whatever the cache budget.
LEMMA TileHeightPositive ==
    ASSUME NEW p \in Request
    PROVE  TileHeightForHint(p) \in Nat \ {0}
<1>1. HintTileHeight(p) \in Nat
  BY DEF HintTileHeight, Request, Hints
<1>2. Greatest(Least(HintTileHeight(p), p.height), 1) \in Nat \ {0}
  BY <1>1 DEF Greatest, Least, Request
<1>3. Greatest(p.l2, 1) \div Greatest(p.rowBytes, 1) \in Int
  BY Division DEF Greatest, Request
<1>4. Greatest(Greatest(p.l2, 1) \div Greatest(p.rowBytes, 1), 1) \in Nat \ {0}
  BY <1>3 DEF Greatest
<1> QED  BY <1>2, <1>4 DEF TileHeightForHint, Greatest, Least, Request

\* The geometry for the budget covers the image (tile_geometry_for_budget).
LEMMA BudgetGeometryFits ==
    ASSUME NEW p \in Request
    PROVE  IF Empty(p) THEN GeometryForBudget(p) = EmptyGeometry ELSE GeometryFits(GeometryForBudget(p), p)
<1>1. CASE Empty(p)
  BY <1>1 DEF Empty, GeometryForBudget
<1>2. CASE ~Empty(p)
  <2>1. HintTileWidth(p) \in Nat \ {0}
    BY <1>2 DEF HintTileWidth, Request, Empty
  <2>2. TileHeightForHint(p) \in Nat \ {0}
    BY TileHeightPositive
  <2>3. DivCeil(p.width, HintTileWidth(p)) \in Nat /\ DivCeil(p.height, TileHeightForHint(p)) \in Nat
    BY <2>1, <2>2, RoundsUp DEF Request
  <2> QED  BY <1>2, <2>1, <2>2, <2>3 DEF Empty, GeometryForBudget, Geometry, GeometryFits
<1> QED  BY <1>1, <1>2

\* Thinner rows for more threads still cover the image.
LEMMA ExecutionGeometryFits ==
    ASSUME NEW p \in Request
    PROVE  IF Empty(p) THEN GeometryForExecution(p) = EmptyGeometry ELSE GeometryFits(GeometryForExecution(p), p)
<1> DEFINE g       == GeometryForBudget(p)
           desired == Greatest(Least(Greatest(p.threads, 16), p.height), 1)
           thinner == Greatest(DivCeil(p.height, desired), 1)
           thin    == [g EXCEPT !.tileHeight = thinner, !.rows = DivCeil(p.height, thinner)]
           cut     == /\ p.hint \in {"FatStrip", "Any"}
                      /\ p.threads > 1
                      /\ g.rows < Greatest(p.threads, 16)
                      /\ g.tileHeight > 1
                      /\ thinner < g.tileHeight
<1>1. GeometryForExecution(p) = IF cut THEN thin ELSE g
  BY DEF GeometryForExecution
<1>2. thinner \in Nat \ {0}
  <2>1. desired \in Nat \ {0}
    BY DEF Greatest, Least, Request
  <2>2. DivCeil(p.height, desired) \in Nat
    BY <2>1, RoundsUp DEF Request
  <2> QED  BY <2>2 DEF Greatest
<1>3. CASE Empty(p)
  <2>1. g = EmptyGeometry
    BY <1>3, BudgetGeometryFits
  <2>2. ~cut
    BY <2>1 DEF EmptyGeometry
  <2> QED  BY <1>1, <1>3, <2>1, <2>2
<1>4. CASE ~Empty(p)
  <2>1. GeometryFits(g, p)
    BY <1>4, BudgetGeometryFits
  <2> HIDE DEF g, thinner
  <2>2. GeometryFits(thin, p)
    <3>1. g \in [tileWidth : Nat \ {0}, tileHeight : Nat \ {0}, cols : Nat, rows : Nat]
      BY <2>1 DEF GeometryFits
    <3>2. DivCeil(p.height, thinner) \in Nat
      BY <1>2, RoundsUp DEF Request
    <3>3. thin \in [tileWidth : Nat \ {0}, tileHeight : Nat \ {0}, cols : Nat, rows : Nat]
      BY <1>2, <3>1, <3>2
    <3>4. /\ thin.tileWidth = g.tileWidth /\ thin.tileHeight = thinner /\ thin.cols = g.cols
          /\ thin.rows = DivCeil(p.height, thinner)
      BY <3>1
    <3> QED  BY <2>1, <3>3, <3>4 DEF GeometryFits
  <2> QED  BY <1>1, <1>4, <2>1, <2>2
<1> QED  BY <1>3, <1>4

-----------------------------------------------------------------------------
(* Tiles.                                                                  *)

Columns(g) == 0 .. g.cols - 1
Rows(g)    == 0 .. g.rows - 1

\* The number of the tile in a column and a row.
TileNumber(col, row, g) == row * g.cols + col + 1

\* Numbering the cells of a grid row by row.
LEMMA Numbering ==
    ASSUME NEW cols \in Nat \ {0}, NEW rows \in Nat, NEW i \in 1 .. cols * rows
    PROVE  /\ (i - 1) % cols \in 0 .. cols - 1 /\ (i - 1) \div cols \in 0 .. rows - 1
           /\ i = ((i - 1) \div cols) * cols + ((i - 1) % cols) + 1
<1> DEFINE row == (i - 1) \div cols
           col == (i - 1) % cols
<1>0. i - 1 \in Int /\ i \in Int /\ cols * rows \in Nat /\ 1 <= i /\ i <= cols * rows
  OBVIOUS
<1>1. /\ row \in Int /\ col \in Int /\ i - 1 = cols * row + col /\ 0 <= col /\ col < cols
  BY <1>0, Division
<1> HIDE DEF row, col
<1>2. /\ row * cols \in Int /\ row * cols = cols * row /\ rows * cols = cols * rows
      /\ (row + 1) * cols = row * cols + cols
  BY <1>1, Factors
<1>3. 0 * cols < (row + 1) * cols /\ row * cols < rows * cols
  BY <1>0, <1>1, <1>2
<1>4. 0 < row + 1 /\ row < rows
  BY <1>1, <1>3, Factors
<1> QED  BY <1>1, <1>2, <1>4 DEF row, col

\* A place in the grid is found back from its number in the tile order.
LEMMA NumberingBack ==
    ASSUME NEW g, g.cols \in Nat \ {0}, g.rows \in Nat, NEW col \in Columns(g), NEW row \in Rows(g)
    PROVE  /\ TileNumber(col, row, g) \in 1 .. g.cols * g.rows
           /\ (TileNumber(col, row, g) - 1) % g.cols = col
           /\ (TileNumber(col, row, g) - 1) \div g.cols = row
<1> DEFINE cols == g.cols
           rows == g.rows
<1>0. cols \in Nat \ {0} /\ rows \in Nat /\ col \in 0 .. cols - 1 /\ row \in 0 .. rows - 1
  BY DEF Columns, Rows
<1>a. TileNumber(col, row, g) = row * cols + col + 1
  BY DEF TileNumber
<1> HIDE DEF cols, rows
<1> DEFINE a == row * cols + col
<1>1. /\ row \in Nat /\ col \in Nat /\ col < cols /\ row + 1 <= rows /\ row * cols \in Nat
      /\ (row + 1) * cols = row * cols + cols /\ rows * cols = cols * rows
  BY <1>0, Factors
<1>2. (row + 1) * cols <= rows * cols
  BY <1>0, <1>1, Factors
<1>3. a \in Int /\ a + 1 - 1 = a /\ a + 1 \in 1 .. cols * rows
  BY <1>0, <1>1, <1>2
<1> DEFINE q == a \div cols
           r == a % cols
<1>4. q \in Int /\ r \in Int /\ a = cols * q + r /\ 0 <= r /\ r < cols
  BY <1>0, <1>3, Division
<1>5. a = row * cols + col
  OBVIOUS
<1> HIDE DEF q, r, a
<1>6. /\ q * cols \in Int /\ q * cols = cols * q
      /\ (q + 1) * cols = q * cols + cols
  BY <1>0, <1>4, Factors
<1>7. q * cols < (row + 1) * cols /\ row * cols < (q + 1) * cols
  BY <1>0, <1>1, <1>4, <1>5, <1>6
<1>8. q < row + 1 /\ row < q + 1
  BY <1>0, <1>1, <1>4, <1>7, Factors
<1>9. q = row
  BY <1>1, <1>4, <1>8
<1>10. r = col
  BY <1>0, <1>1, <1>4, <1>5, <1>6, <1>9
<1> QED  BY <1>3, <1>9, <1>10, <1>a DEF a, q, r, cols, rows

\* An image with pixels has at least one column and one row of tiles.
LEMMA GridHasTiles ==
    ASSUME NEW p \in Request, NEW g, GeometryFits(g, p), ~Empty(p)
    PROVE  g.cols \in Nat \ {0} /\ g.rows \in Nat \ {0} /\ g.cols * g.rows \in Nat \ {0}
<1>1. /\ p.width \in Nat \ {0} /\ p.height \in Nat \ {0}
      /\ g.tileWidth \in Nat \ {0} /\ g.tileHeight \in Nat \ {0}
  BY DEF Request, Empty, GeometryFits
<1>2. g.cols \in Nat \ {0} /\ g.rows \in Nat \ {0}
  BY <1>1, RoundsUp DEF GeometryFits
<1> QED  BY <1>2

\* The tiles, by column and row.
LEMMA TilesByPlace ==
    ASSUME NEW p \in Request, NEW g, GeometryFits(g, p), ~Empty(p)
    PROVE  LET T == GenerateTiles(g, p)
           IN  /\ DOMAIN T = 1 .. g.cols * g.rows
               /\ \A i \in DOMAIN T : \E col \in Columns(g), row \in Rows(g) :
                     i = TileNumber(col, row, g) /\ T[i] = TileAt(col, row, g, p)
               /\ \A col \in Columns(g), row \in Rows(g) :
                     /\ TileNumber(col, row, g) \in DOMAIN T
                     /\ T[TileNumber(col, row, g)] = TileAt(col, row, g, p)
<1> DEFINE T == GenerateTiles(g, p)
<1>1. g.cols \in Nat \ {0} /\ g.rows \in Nat \ {0}
  BY GridHasTiles
<1>2. /\ DOMAIN T = 1 .. g.cols * g.rows
      /\ \A i \in 1 .. g.cols * g.rows : T[i] = TileAt((i - 1) % g.cols, (i - 1) \div g.cols, g, p)
  BY DEF GenerateTiles
<1> HIDE DEF T
<1>3. ASSUME NEW i \in DOMAIN T
      PROVE  \E col \in Columns(g), row \in Rows(g) :
                 i = TileNumber(col, row, g) /\ T[i] = TileAt(col, row, g, p)
  <2>1. /\ (i - 1) % g.cols \in 0 .. g.cols - 1 /\ (i - 1) \div g.cols \in 0 .. g.rows - 1
        /\ i = ((i - 1) \div g.cols) * g.cols + ((i - 1) % g.cols) + 1
    BY <1>1, <1>2, Numbering
  <2> QED  BY <1>2, <2>1 DEF Columns, Rows, TileNumber
<1>4. ASSUME NEW col \in Columns(g), NEW row \in Rows(g)
      PROVE  /\ TileNumber(col, row, g) \in DOMAIN T
             /\ T[TileNumber(col, row, g)] = TileAt(col, row, g, p)
  <2>1. /\ TileNumber(col, row, g) \in 1 .. g.cols * g.rows
        /\ (TileNumber(col, row, g) - 1) % g.cols = col
        /\ (TileNumber(col, row, g) - 1) \div g.cols = row
    BY <1>1, NumberingBack
  <2> QED  BY <1>2, <2>1
<1> QED  BY <1>2, <1>3, <1>4 DEF T

\* A tile's sides are a cell of each side of the image.
LEMMA TileSides ==
    ASSUME NEW p \in Request, NEW g, GeometryFits(g, p), NEW col \in Columns(g), NEW row \in Rows(g)
    PROVE  LET t == TileAt(col, row, g, p)
           IN  /\ t.x = CellStart(col, g.tileWidth) /\ t.width = CellExtent(col, g.tileWidth, p.width)
               /\ t.y = CellStart(row, g.tileHeight) /\ t.height = CellExtent(row, g.tileHeight, p.height)
               /\ t.x \in Nat /\ t.width \in Nat \ {0} /\ t.x + t.width <= p.width
               /\ t.y \in Nat /\ t.height \in Nat \ {0} /\ t.y + t.height <= p.height
<1>1. /\ p.width \in Nat /\ p.height \in Nat
      /\ g.tileWidth \in Nat \ {0} /\ g.tileHeight \in Nat \ {0}
      /\ col \in 0 .. DivCeil(p.width, g.tileWidth) - 1
      /\ row \in 0 .. DivCeil(p.height, g.tileHeight) - 1
  BY DEF Request, GeometryFits, Columns, Rows
<1>2. /\ CellStart(col, g.tileWidth) \in Nat /\ CellExtent(col, g.tileWidth, p.width) \in Nat \ {0}
      /\ CellStart(col, g.tileWidth) + CellExtent(col, g.tileWidth, p.width) <= p.width
  BY <1>1, CellBounds
<1>3. /\ CellStart(row, g.tileHeight) \in Nat /\ CellExtent(row, g.tileHeight, p.height) \in Nat \ {0}
      /\ CellStart(row, g.tileHeight) + CellExtent(row, g.tileHeight, p.height) <= p.height
  BY <1>1, CellBounds
<1> QED  BY <1>2, <1>3 DEF TileAt, Region

\* Different columns start at different places.
LEMMA StartsDiffer ==
    ASSUME NEW size \in Nat \ {0}, NEW j \in Int, NEW k \in Int, CellStart(j, size) = CellStart(k, size)
    PROVE  j = k
<1>1. j * size = k * size /\ j * size \in Int
  BY DEF CellStart
<1>2. ~(j < k) /\ ~(k < j)
  BY <1>1, Factors
<1> QED  BY <1>2

\* The partition, as TilesPartitionImage states it of a plan.
Partitions(T, p) ==
    LET xs == { <<t.x, t.width>> : t \in { T[i] : i \in DOMAIN T } }
        ys == { <<t.y, t.height>> : t \in { T[i] : i \in DOMAIN T } }
    IN  /\ p.width = 0 \/ p.height = 0 <=> T = <<>>
        /\ T # <<>> => CutsOnce(xs, p.width) /\ CutsOnce(ys, p.height)
        /\ { <<<<t.x, t.width>>, <<t.y, t.height>>>> :
                t \in { T[i] : i \in DOMAIN T } } = xs \X ys
        /\ \A i, j \in DOMAIN T : T[i] = T[j] => i = j
        /\ \A i \in DOMAIN T : /\ InBounds(T[i], p.width, p.height)
                               /\ T[i].width > 0 /\ T[i].height > 0

\* generate_tiles cuts an image with pixels into tiles, once each.
LEMMA TilesPartition ==
    ASSUME NEW p \in Request, NEW g, GeometryFits(g, p), ~Empty(p)
    PROVE  Partitions(GenerateTiles(g, p), p)
<1> DEFINE T  == GenerateTiles(g, p)
           all == { T[i] : i \in DOMAIN T }
           xs == { <<t.x, t.width>> : t \in all }
           ys == { <<t.y, t.height>> : t \in all }
<1>1. /\ p.width \in Nat /\ p.height \in Nat
      /\ g.tileWidth \in Nat \ {0} /\ g.tileHeight \in Nat \ {0}
      /\ g.cols \in Nat \ {0} /\ g.rows \in Nat \ {0}
      /\ g.cols = DivCeil(p.width, g.tileWidth) /\ g.rows = DivCeil(p.height, g.tileHeight)
  BY GridHasTiles DEF Request, GeometryFits
<1>2. /\ \A i \in DOMAIN T : \E col \in Columns(g), row \in Rows(g) :
            i = TileNumber(col, row, g) /\ T[i] = TileAt(col, row, g, p)
      /\ \A col \in Columns(g), row \in Rows(g) :
            /\ TileNumber(col, row, g) \in DOMAIN T
            /\ T[TileNumber(col, row, g)] = TileAt(col, row, g, p)
  BY TilesByPlace
<1> HIDE DEF T
<1>3. 0 \in Columns(g) /\ 0 \in Rows(g)
  BY <1>1 DEF Columns, Rows
<1>4. T # <<>> /\ ~(p.width = 0 \/ p.height = 0)
  BY <1>2, <1>3 DEF Empty
<1>5. all = { TileAt(c[1], c[2], g, p) : c \in Columns(g) \X Rows(g) }
  <2>1. ASSUME NEW t \in all PROVE \E c \in Columns(g) \X Rows(g) : t = TileAt(c[1], c[2], g, p)
    <3>1. PICK col \in Columns(g), row \in Rows(g) : t = TileAt(col, row, g, p)
      BY <1>2
    <3>2. <<col, row>> \in Columns(g) \X Rows(g) /\ <<col, row>>[1] = col /\ <<col, row>>[2] = row
      OBVIOUS
    <3> QED  BY <3>1, <3>2
  <2>2. ASSUME NEW c \in Columns(g) \X Rows(g) PROVE TileAt(c[1], c[2], g, p) \in all
    BY <1>2
  <2> QED  BY <2>1, <2>2
<1> HIDE DEF all
<1>6. xs = Cells(g.tileWidth, p.width)
  <2>1. ASSUME NEW t \in all PROVE <<t.x, t.width>> \in Cells(g.tileWidth, p.width)
    <3>1. PICK c \in Columns(g) \X Rows(g) : t = TileAt(c[1], c[2], g, p)
      BY <1>5
    <3> QED  BY <1>1, <3>1, TileSides DEF Cells, Columns
  <2>2. ASSUME NEW k \in 0 .. DivCeil(p.width, g.tileWidth) - 1
        PROVE  <<CellStart(k, g.tileWidth), CellExtent(k, g.tileWidth, p.width)>> \in xs
    <3>1. k \in Columns(g) /\ TileAt(k, 0, g, p) \in all
      <4>1. k \in Columns(g)
        BY <1>1 DEF Columns
      <4>2. <<k, 0>> \in Columns(g) \X Rows(g) /\ <<k, 0>>[1] = k /\ <<k, 0>>[2] = 0
        BY <1>3, <4>1
      <4> QED  BY <1>5, <4>1, <4>2
    <3> QED  BY <1>3, <3>1, TileSides
  <2> QED  BY <2>1, <2>2 DEF Cells
<1>7. ys = Cells(g.tileHeight, p.height)
  <2>1. ASSUME NEW t \in all PROVE <<t.y, t.height>> \in Cells(g.tileHeight, p.height)
    <3>1. PICK c \in Columns(g) \X Rows(g) : t = TileAt(c[1], c[2], g, p)
      BY <1>5
    <3> QED  BY <1>1, <3>1, TileSides DEF Cells, Rows
  <2>2. ASSUME NEW k \in 0 .. DivCeil(p.height, g.tileHeight) - 1
        PROVE  <<CellStart(k, g.tileHeight), CellExtent(k, g.tileHeight, p.height)>> \in ys
    <3>1. k \in Rows(g) /\ TileAt(0, k, g, p) \in all
      <4>1. k \in Rows(g)
        BY <1>1 DEF Rows
      <4>2. <<0, k>> \in Columns(g) \X Rows(g) /\ <<0, k>>[1] = 0 /\ <<0, k>>[2] = k
        BY <1>3, <4>1
      <4> QED  BY <1>5, <4>1, <4>2
    <3> QED  BY <1>3, <3>1, TileSides
  <2> QED  BY <2>1, <2>2 DEF Cells
<1>8. CutsOnce(xs, p.width) /\ CutsOnce(ys, p.height)
  BY <1>1, <1>6, <1>7, CellsCut
<1>9. { <<<<t.x, t.width>>, <<t.y, t.height>>>> : t \in all } = xs \X ys
  <2> DEFINE both == { <<<<t.x, t.width>>, <<t.y, t.height>>>> : t \in all }
  <2>1. both \subseteq xs \X ys
    OBVIOUS
  <2>2. ASSUME NEW a \in xs, NEW b \in ys PROVE <<a, b>> \in both
    <3>1. PICK j \in 0 .. DivCeil(p.width, g.tileWidth) - 1 :
              a = <<CellStart(j, g.tileWidth), CellExtent(j, g.tileWidth, p.width)>>
      BY <1>6 DEF Cells
    <3>2. PICK k \in 0 .. DivCeil(p.height, g.tileHeight) - 1 :
              b = <<CellStart(k, g.tileHeight), CellExtent(k, g.tileHeight, p.height)>>
      BY <1>7 DEF Cells
    <3>3. j \in Columns(g) /\ k \in Rows(g)
      BY <1>1 DEF Columns, Rows
    <3>4. <<j, k>> \in Columns(g) \X Rows(g) /\ <<j, k>>[1] = j /\ <<j, k>>[2] = k
      BY <3>3
    <3>5. TileAt(j, k, g, p) \in all
      BY <1>5, <3>4
    <3> DEFINE t == TileAt(j, k, g, p)
    <3>6. a = <<t.x, t.width>> /\ b = <<t.y, t.height>>
      BY <3>1, <3>2, <3>3, TileSides
    <3> QED  BY <3>5, <3>6
  <2>3. \A c \in xs \X ys : c = <<c[1], c[2]>> /\ c[1] \in xs /\ c[2] \in ys
    OBVIOUS
  <2> HIDE DEF both, xs, ys
  <2>4. both = xs \X ys
    BY <2>1, <2>2, <2>3
  <2> QED  BY <2>4 DEF both
<1>10. ASSUME NEW i \in DOMAIN T, NEW j \in DOMAIN T, T[i] = T[j] PROVE i = j
  <2>1. PICK c \in Columns(g), r \in Rows(g) : i = TileNumber(c, r, g) /\ T[i] = TileAt(c, r, g, p)
    BY <1>2
  <2>2. PICK d \in Columns(g), s \in Rows(g) : j = TileNumber(d, s, g) /\ T[j] = TileAt(d, s, g, p)
    BY <1>2
  <2>3. CellStart(c, g.tileWidth) = CellStart(d, g.tileWidth) /\ CellStart(r, g.tileHeight) = CellStart(s, g.tileHeight)
    <3>1. TileAt(c, r, g, p) = TileAt(d, s, g, p)
      BY <1>10, <2>1, <2>2
    <3>2. /\ TileAt(c, r, g, p).x = CellStart(c, g.tileWidth) /\ TileAt(c, r, g, p).y = CellStart(r, g.tileHeight)
          /\ TileAt(d, s, g, p).x = CellStart(d, g.tileWidth) /\ TileAt(d, s, g, p).y = CellStart(s, g.tileHeight)
      BY TileSides
    <3> QED  BY <3>1, <3>2
  <2>4. c \in Int /\ d \in Int /\ r \in Int /\ s \in Int
    BY <1>1 DEF Columns, Rows
  <2>5. c = d /\ r = s
    BY <1>1, <2>3, <2>4, StartsDiffer
  <2> QED  BY <2>1, <2>2, <2>5
<1>11. ASSUME NEW i \in DOMAIN T
       PROVE  InBounds(T[i], p.width, p.height) /\ T[i].width > 0 /\ T[i].height > 0
  <2>1. PICK c \in Columns(g), r \in Rows(g) : T[i] = TileAt(c, r, g, p)
    BY <1>2
  <2> QED  BY <2>1, TileSides DEF InBounds
<1> QED  BY <1>4, <1>8, <1>9, <1>10, <1>11 DEF Partitions, T, all

-----------------------------------------------------------------------------
(* The order of the tiles.                                                 *)

\* The tiles form a sequence, as long as the grid has cells.
LEMMA TilesAreSequence ==
    ASSUME NEW p \in Request, NEW g, GeometryFits(g, p), ~Empty(p)
    PROVE  LET T == GenerateTiles(g, p)
           IN  /\ T \in Seq({ T[i] : i \in DOMAIN T }) /\ Len(T) = g.cols * g.rows
               /\ Len(T) \in Nat \ {0} /\ DOMAIN T = 1 .. Len(T) /\ T # <<>>
<1> DEFINE n == g.cols * g.rows
           T == GenerateTiles(g, p)
<1>1. n \in Nat \ {0}
  BY GridHasTiles
<1>2. T = [ i \in 1 .. n |-> TileAt((i - 1) % g.cols, (i - 1) \div g.cols, g, p) ]
  BY DEF GenerateTiles
<1> HIDE DEF n, T
<1>3. DOMAIN T = 1 .. n /\ T \in [1 .. n -> { T[i] : i \in DOMAIN T }]
  BY <1>2
<1>4. T \in Seq({ T[i] : i \in DOMAIN T }) /\ Len(T) = n
  BY <1>1, <1>3
<1> QED  BY <1>1, <1>3, <1>4 DEF n, T

\* Where the next tile of a row, or of the next row, starts.
LEMMA OriginFollows ==
    ASSUME NEW t, NEW u, NEW w \in Nat,
           t.x \in Nat, t.width \in Nat,
           \/ t.x + t.width < w /\ u.x = t.x + t.width /\ u.y = t.y
           \/ t.x + t.width = w /\ u.x = 0 /\ u.y = t.y + t.height
    PROVE  Origin(u) = AfterRegion(t, w)
  BY DEF Origin, AfterRegion

\* generate_tiles goes along a row of tiles, then down.
LEMMA TilesInOrder ==
    ASSUME NEW p \in Request, NEW g, GeometryFits(g, p), ~Empty(p)
    PROVE  LET T == GenerateTiles(g, p)
           IN  RasterChain(T, p.width) /\ AfterAll(T, p.width) = [x |-> 0, y |-> p.height]
<1> DEFINE T == GenerateTiles(g, p)
           cols == g.cols
           rows == g.rows
<1>1. /\ p.width \in Nat /\ p.height \in Nat
      /\ g.tileWidth \in Nat \ {0} /\ g.tileHeight \in Nat \ {0}
      /\ cols \in Nat \ {0} /\ rows \in Nat \ {0}
      /\ cols = DivCeil(p.width, g.tileWidth) /\ rows = DivCeil(p.height, g.tileHeight)
  BY GridHasTiles DEF Request, GeometryFits
<1>2. /\ \A i \in DOMAIN T : \E col \in Columns(g), row \in Rows(g) :
            i = TileNumber(col, row, g) /\ T[i] = TileAt(col, row, g, p)
      /\ \A col \in Columns(g), row \in Rows(g) :
            /\ TileNumber(col, row, g) \in DOMAIN T
            /\ T[TileNumber(col, row, g)] = TileAt(col, row, g, p)
  BY TilesByPlace
<1>3. /\ Len(T) = cols * rows /\ Len(T) \in Nat \ {0} /\ DOMAIN T = 1 .. Len(T) /\ T # <<>>
  BY TilesAreSequence
<1> HIDE DEF T
<1>4. 0 \in Columns(g) /\ 0 \in Rows(g) /\ cols - 1 \in Columns(g) /\ rows - 1 \in Rows(g)
  BY <1>1 DEF Columns, Rows
<1>5. ASSUME NEW col \in Columns(g), NEW row \in Rows(g)
      PROVE  /\ TileNumber(col, row, g) \in Int
             /\ col \in Nat /\ row \in Nat /\ col + 1 <= cols /\ row + 1 <= rows
             /\ col + 1 < cols => /\ col + 1 \in Columns(g)
                                  /\ TileNumber(col + 1, row, g) = TileNumber(col, row, g) + 1
             /\ col + 1 = cols /\ row + 1 < rows => /\ row + 1 \in Rows(g)
                                                    /\ TileNumber(0, row + 1, g) = TileNumber(col, row, g) + 1
             /\ col + 1 = cols /\ row + 1 = rows <=> TileNumber(col, row, g) = cols * rows
  <2>1. /\ col \in Nat /\ row \in Nat /\ col + 1 <= cols /\ row + 1 <= rows
        /\ cols \in Nat \ {0} /\ rows \in Nat \ {0}
    BY <1>1 DEF Columns, Rows
  <2>2. TileNumber(col, row, g) = row * cols + col + 1
    BY DEF TileNumber
  <2> HIDE DEF cols, rows
  <2>3. /\ row * cols \in Int /\ (row + 1) * cols = row * cols + cols /\ rows * cols = cols * rows
        /\ row + 1 < rows <=> (row + 1) * cols < rows * cols
        /\ (row + 1) * cols <= rows * cols
    BY <2>1, Factors
  <2>4. col + 1 < cols => /\ col + 1 \in Columns(g)
                          /\ TileNumber(col + 1, row, g) = TileNumber(col, row, g) + 1
    BY <2>1, <2>2, <2>3 DEF Columns, TileNumber, cols
  <2>5. col + 1 = cols /\ row + 1 < rows => /\ row + 1 \in Rows(g)
                                            /\ TileNumber(0, row + 1, g) = TileNumber(col, row, g) + 1
    <3>1. TileNumber(0, row + 1, g) = (row + 1) * cols + 0 + 1
      BY DEF TileNumber, cols
    <3>2. row + 1 < rows => row + 1 \in Rows(g)
      BY <2>1 DEF Rows, rows
    <3> QED  BY <2>1, <2>2, <2>3, <3>1, <3>2
  <2>6. col + 1 = cols /\ row + 1 = rows <=> TileNumber(col, row, g) = cols * rows
    <3>1. CASE row + 1 = rows
      BY <2>1, <2>2, <2>3, <3>1
    <3>2. CASE row + 1 < rows
      BY <2>1, <2>2, <2>3, <3>2
    <3> QED  BY <2>1, <3>1, <3>2
  <2> QED  BY <2>1, <2>2, <2>3, <2>4, <2>5, <2>6
<1>6. ASSUME NEW col \in Columns(g), NEW row \in Rows(g)
      PROVE  LET t == TileAt(col, row, g, p)
             IN  /\ t.x \in Nat /\ t.width \in Nat \ {0} /\ t.y \in Nat /\ t.height \in Nat \ {0}
                 /\ col = 0 => t.x = 0
                 /\ row = 0 => t.y = 0
                 /\ col + 1 < cols => /\ t.x + t.width < p.width
                                      /\ TileAt(col + 1, row, g, p).x = t.x + t.width
                                      /\ TileAt(col + 1, row, g, p).y = t.y
                 /\ col + 1 = cols => t.x + t.width = p.width
                 /\ row + 1 < rows => TileAt(0, row + 1, g, p).y = t.y + t.height
                 /\ row + 1 = rows => t.y + t.height = p.height
  <2>1. /\ col \in 0 .. DivCeil(p.width, g.tileWidth) - 1 /\ row \in 0 .. DivCeil(p.height, g.tileHeight) - 1
    BY <1>1 DEF Columns, Rows
  <2>2. \A c, r : /\ TileAt(c, r, g, p).x = CellStart(c, g.tileWidth)
                  /\ TileAt(c, r, g, p).y = CellStart(r, g.tileHeight)
                  /\ TileAt(c, r, g, p).width = CellExtent(c, g.tileWidth, p.width)
                  /\ TileAt(c, r, g, p).height = CellExtent(r, g.tileHeight, p.height)
    BY DEF TileAt, Region
  <2>3. CellStart(0, g.tileWidth) = 0 /\ CellStart(0, g.tileHeight) = 0
    BY <1>1 DEF CellStart
  <2>4. /\ CellStart(col, g.tileWidth) \in Nat /\ CellExtent(col, g.tileWidth, p.width) \in Nat \ {0}
        /\ col + 1 < cols =>
              CellStart(col, g.tileWidth) + CellExtent(col, g.tileWidth, p.width) = CellStart(col + 1, g.tileWidth)
        /\ col + 1 < cols => CellStart(col, g.tileWidth) + CellExtent(col, g.tileWidth, p.width) < p.width
        /\ col + 1 = cols => CellStart(col, g.tileWidth) + CellExtent(col, g.tileWidth, p.width) = p.width
    BY <1>1, <2>1, CellBounds
  <2>5. /\ CellStart(row, g.tileHeight) \in Nat /\ CellExtent(row, g.tileHeight, p.height) \in Nat \ {0}
        /\ row + 1 < rows =>
              CellStart(row, g.tileHeight) + CellExtent(row, g.tileHeight, p.height) = CellStart(row + 1, g.tileHeight)
        /\ row + 1 = rows => CellStart(row, g.tileHeight) + CellExtent(row, g.tileHeight, p.height) = p.height
    BY <1>1, <2>1, CellBounds
  <2> QED  BY <2>2, <2>3, <2>4, <2>5
<1>7. Origin(T[1]) = TopLeft
  <2>1. TileNumber(0, 0, g) = 1
    BY <1>1 DEF TileNumber
  <2>2. T[1] = TileAt(0, 0, g, p)
    BY <1>2, <1>4, <2>1
  <2>3. TileAt(0, 0, g, p).x = 0 /\ TileAt(0, 0, g, p).y = 0
    BY <1>4, <1>6
  <2> QED  BY <2>2, <2>3 DEF Origin, TopLeft
<1>8. ASSUME NEW i \in 1 .. Len(T) - 1 PROVE Origin(T[i + 1]) = AfterRegion(T[i], p.width)
  <2>1. PICK col \in Columns(g), row \in Rows(g) : i = TileNumber(col, row, g) /\ T[i] = TileAt(col, row, g, p)
    <3>1. i \in DOMAIN T
      BY <1>3
    <3> QED  BY <1>2, <3>1
  <2>2. i # cols * rows
    BY <1>3
  <2> DEFINE t == TileAt(col, row, g, p)
             u == T[i + 1]
  <2>3. CASE col + 1 < cols
    <3>1. u = TileAt(col + 1, row, g, p)
      BY <1>2, <1>5, <2>1, <2>3
    <3>2. t.x + t.width < p.width /\ u.x = t.x + t.width /\ u.y = t.y
      BY <1>6, <2>3, <3>1
    <3>3. t.x \in Nat /\ t.width \in Nat
      BY <1>6
    <3> HIDE DEF t, u
    <3>4. Origin(u) = AfterRegion(t, p.width)
      BY <1>1, <3>2, <3>3, OriginFollows
    <3> QED  BY <2>1, <3>4 DEF t, u
  <2>4. CASE col + 1 = cols
    <3>1. row + 1 < rows
      BY <1>1, <1>5, <2>1, <2>2, <2>4
    <3>2. u = TileAt(0, row + 1, g, p) /\ row + 1 \in Rows(g)
      BY <1>2, <1>4, <1>5, <2>1, <2>4, <3>1
    <3>3. u.x = 0
      BY <1>4, <1>6, <3>2 DEF u
    <3>4. t.x + t.width = p.width /\ u.y = t.y + t.height
      BY <1>6, <2>4, <3>1, <3>2
    <3>5. t.x \in Nat /\ t.width \in Nat
      BY <1>6
    <3> HIDE DEF t, u
    <3>6. Origin(u) = AfterRegion(t, p.width)
      BY <1>1, <3>3, <3>4, <3>5, OriginFollows
    <3> QED  BY <2>1, <3>6 DEF t, u
  <2>5. col + 1 < cols \/ col + 1 = cols
    BY <1>1 DEF Columns
  <2> HIDE DEF t, u, cols
  <2> QED  BY <2>3, <2>4, <2>5
<1>9. AfterAll(T, p.width) = [x |-> 0, y |-> p.height]
  <2> DEFINE t == TileAt(cols - 1, rows - 1, g, p)
  <2>1. TileNumber(cols - 1, rows - 1, g) = Len(T)
    <3>1. (cols - 1) + 1 = cols /\ (rows - 1) + 1 = rows
      BY <1>1
    <3>2. /\ (cols - 1) + 1 = cols /\ (rows - 1) + 1 = rows
             <=> TileNumber(cols - 1, rows - 1, g) = cols * rows
      BY <1>4, <1>5
    <3> QED  BY <1>3, <3>1, <3>2
  <2>2. T[Len(T)] = t
    BY <1>2, <1>4, <2>1
  <2>3. (cols - 1) + 1 = cols /\ (rows - 1) + 1 = rows
    BY <1>1
  <2>4. t.x + t.width = p.width /\ t.y + t.height = p.height
    BY <1>4, <1>6, <2>3
  <2> HIDE DEF t
  <2>5. AfterRegion(t, p.width) = [x |-> 0, y |-> p.height]
    BY <1>1, <2>4 DEF AfterRegion
  <2> QED  BY <1>3, <2>2, <2>5 DEF AfterAll
<1> QED  BY <1>7, <1>8, <1>9 DEF RasterChain, T

-----------------------------------------------------------------------------
(* Consecutive runs: strips of rows of tiles and tasks of strips.          *)

\* A run is a cell, counted from 1.
LEMMA RunsAreCells ==
    ASSUME NEW n \in Nat, NEW step \in Nat \ {0}, NEW k \in 1 .. DivCeil(n, step)
    PROVE  Runs(n, step)[k] = <<CellStart(k - 1, step) + 1, CellStart(k - 1, step) + CellExtent(k - 1, step, n)>>
<1>1. k \in Int /\ (k - 1 + 1) * step = (k - 1) * step + step /\ k - 1 + 1 = k /\ (k - 1) * step \in Int
  BY RoundsUp, Factors
<1>2. Runs(n, step)[k] = <<(k - 1) * step + 1, Least(k * step, n)>>
  BY DEF Runs
<1>3. Least(k * step, n) = (k - 1) * step + Least(step, n - (k - 1) * step)
  BY <1>1 DEF Least
<1> QED  BY <1>2, <1>3 DEF CellStart, CellExtent

\* Runs form a sequence of ranges, as many as the items divided, rounded up.
LEMMA RunsAreSequence ==
    ASSUME NEW n \in Nat, NEW step \in Nat \ {0}
    PROVE  /\ Runs(n, step) \in Seq(Int \X Int)
           /\ Len(Runs(n, step)) = DivCeil(n, step)
           /\ DOMAIN Runs(n, step) = 1 .. DivCeil(n, step)
<1> DEFINE m == DivCeil(n, step)
           R == Runs(n, step)
<1>1. m \in Nat
  BY RoundsUp
<1>2. R = [ k \in 1 .. m |-> <<(k - 1) * step + 1, Least(k * step, n)>> ]
  BY DEF Runs
<1>3. ASSUME NEW k \in 1 .. m PROVE R[k] \in Int \X Int
  <2>1. k \in Int /\ k * step \in Int /\ (k - 1) * step \in Int
    BY <1>1
  <2> QED  BY <1>2, <2>1 DEF Least
<1> HIDE DEF m, R
<1>4. R \in [1 .. m -> Int \X Int]
  BY <1>2, <1>3
<1> QED  BY <1>1, <1>4 DEF m, R

\* Cutting any number of items into runs leaves none out and repeats none.
LEMMA RunsConsecutive ==
    ASSUME NEW n \in Nat, NEW step \in Nat \ {0}
    PROVE  ConsecutiveRuns(Runs(n, step), n)
<1> DEFINE m == DivCeil(n, step)
           R == Runs(n, step)
<1>1. m \in Nat /\ (n = 0 <=> m = 0)
  BY RoundsUp
<1>2. Len(R) = m /\ DOMAIN R = 1 .. m
  BY RunsAreSequence
<1>3. ASSUME NEW k \in 1 .. m
      PROVE  /\ R[k][1] \in Int /\ R[k][2] \in Int /\ R[k][1] <= R[k][2]
             /\ k = 1 => R[k][1] = 1
             /\ k < m => R[k][2] = CellStart(k, step)
             /\ R[k][1] = CellStart(k - 1, step) + 1
             /\ k = m => R[k][2] = n
  <2>1. k \in Int /\ k - 1 \in 0 .. DivCeil(n, step) - 1 /\ (k - 1) + 1 = k
    BY <1>1
  <2>2. /\ CellStart(k - 1, step) \in Nat /\ CellExtent(k - 1, step, n) \in Nat \ {0}
        /\ k < m => CellStart(k - 1, step) + CellExtent(k - 1, step, n) = CellStart(k, step)
        /\ k = m => CellStart(k - 1, step) + CellExtent(k - 1, step, n) = n
    BY <2>1, CellBounds
  <2>3. R[k][1] = CellStart(k - 1, step) + 1 /\ R[k][2] = CellStart(k - 1, step) + CellExtent(k - 1, step, n)
    BY RunsAreCells
  <2>4. CellStart(0, step) = 0
    BY DEF CellStart
  <2> HIDE DEF m, R
  <2>5. k = 1 => R[k][1] = 1
    BY <2>3, <2>4
  <2> QED  BY <2>2, <2>3, <2>5
<1> HIDE DEF m, R
<1>4. ASSUME NEW k \in 1 .. Len(R) - 1 PROVE R[k + 1][1] = R[k][2] + 1
  <2>1. k \in 1 .. m /\ k < m /\ k + 1 \in 1 .. m /\ (k + 1) - 1 = k
    BY <1>1, <1>2
  <2>2. R[k][2] = CellStart(k, step)
    BY <1>3, <2>1
  <2>3. R[k + 1][1] = CellStart((k + 1) - 1, step) + 1
    BY <1>3, <2>1
  <2> QED  BY <2>1, <2>2, <2>3
<1>5. R # <<>> => R[1][1] = 1 /\ R[Len(R)][2] = n
  <2>1. R # <<>> => m # 0
    BY <1>2, RunsAreSequence DEF R
  <2>2. m # 0 => 1 \in 1 .. m /\ m \in 1 .. m
    BY <1>1
  <2> QED  BY <1>2, <1>3, <2>1, <2>2
<1>6. R = <<>> => n = 0
  BY <1>1, <1>2
<1>7. ConsecutiveRuns(R, n)
  BY <1>2, <1>3, <1>4, <1>5, <1>6 DEF ConsecutiveRuns
<1> QED  BY <1>7 DEF R

\* Runs of rows stay consecutive when each row is a run of columns.
LEMMA WiderRuns ==
    ASSUME NEW runs \in Seq(Int \X Int), NEW n \in Nat, ConsecutiveRuns(runs, n), NEW cols \in Nat \ {0}
    PROVE  LET wide == [ k \in DOMAIN runs |-> <<(runs[k][1] - 1) * cols + 1, runs[k][2] * cols>> ]
           IN  Len(wide) = Len(runs) /\ ConsecutiveRuns(wide, cols * n)
<1> DEFINE wide == [ k \in DOMAIN runs |-> <<(runs[k][1] - 1) * cols + 1, runs[k][2] * cols>> ]
<1>1. Len(runs) \in Nat /\ DOMAIN runs = 1 .. Len(runs)
  OBVIOUS
<1>2. \A k \in 1 .. Len(runs) : runs[k][1] \in Int /\ runs[k][2] \in Int
  BY <1>1
<1>3. /\ \A k \in DOMAIN wide : wide[k][1] = (runs[k][1] - 1) * cols + 1 /\ wide[k][2] = runs[k][2] * cols
      /\ DOMAIN wide = 1 .. Len(runs)
  BY <1>1
<1>4. Len(wide) = Len(runs)
  BY <1>1
<1>5. wide = <<>> <=> runs = <<>>
  <2>1. wide = <<>> => Len(runs) = 0
    BY <1>4
  <2>2. runs = <<>> => wide = <<>>
    BY <1>1
  <2> QED  BY <2>1, <2>2, <1>1
<1> HIDE DEF wide
<1>6. ASSUME NEW k \in DOMAIN wide PROVE wide[k][1] <= wide[k][2]
  <2> DEFINE a == runs[k][1]
             b == runs[k][2]
  <2>1. a \in Int /\ b \in Int /\ a <= b
    BY <1>1, <1>2, <1>3 DEF ConsecutiveRuns
  <2>2. wide[k][1] = (a - 1) * cols + 1 /\ wide[k][2] = b * cols
    BY <1>3
  <2> HIDE DEF a, b
  <2>3. a * cols <= b * cols /\ a * cols = (a - 1) * cols + cols /\ (a - 1) * cols \in Int /\ b * cols \in Int
    BY <2>1, Factors
  <2> QED  BY <2>2, <2>3
<1>7. ASSUME NEW k \in 1 .. Len(wide) - 1 PROVE wide[k + 1][1] = wide[k][2] + 1
  <2>1. k \in DOMAIN wide /\ k + 1 \in DOMAIN wide
    <3>1. Len(runs) \in Nat /\ k \in 1 .. Len(runs) - 1
      BY <1>1, <1>4
    <3>2. k \in 1 .. Len(runs) /\ k + 1 \in 1 .. Len(runs)
      BY <3>1
    <3> QED  BY <1>3, <3>2
  <2>2. runs[k + 1][1] = runs[k][2] + 1 /\ runs[k][2] \in Int
    BY <1>1, <1>2, <1>4 DEF ConsecutiveRuns
  <2>3. runs[k + 1][1] - 1 = runs[k][2]
    BY <2>2
  <2>4. wide[k + 1][1] = (runs[k + 1][1] - 1) * cols + 1 /\ wide[k][2] = runs[k][2] * cols
    BY <1>3, <2>1
  <2> QED  BY <2>3, <2>4
<1>8. wide # <<>> => wide[1][1] = 1 /\ wide[Len(wide)][2] = cols * n
  <2> SUFFICES ASSUME runs # <<>> PROVE wide[1][1] = 1 /\ wide[Len(wide)][2] = cols * n
    BY <1>5
  <2>1. runs[1][1] = 1 /\ runs[Len(runs)][2] = n
    BY DEF ConsecutiveRuns
  <2>2. 1 \in 1 .. Len(runs) /\ Len(runs) \in 1 .. Len(runs)
    BY <1>1
  <2>3. wide[1][1] = (runs[1][1] - 1) * cols + 1 /\ wide[Len(runs)][2] = runs[Len(runs)][2] * cols
    BY <1>3, <2>2
  <2>4. (1 - 1) * cols + 1 = 1 /\ n * cols = cols * n
    OBVIOUS
  <2> QED  BY <1>4, <2>1, <2>3, <2>4
<1>9. wide = <<>> => cols * n = 0
  BY <1>5 DEF ConsecutiveRuns
<1>10. ConsecutiveRuns(wide, cols * n)
  BY <1>6, <1>7, <1>8, <1>9 DEF ConsecutiveRuns
<1> QED  BY <1>4, <1>10 DEF wide

-----------------------------------------------------------------------------
(* Workers and tasks.                                                      *)

\* Cutting n items into runs of a w-th of them, rounded up, makes at most w runs.
LEMMA FewRuns ==
    ASSUME NEW n \in Nat \ {0}, NEW w \in Nat \ {0}
    PROVE  DivCeil(n, w) \in Nat \ {0} /\ DivCeil(n, DivCeil(n, w)) <= w
<1> DEFINE step == DivCeil(n, w)
           q    == DivCeil(n, step)
<1>1. step \in Nat \ {0} /\ n <= step * w
  BY RoundsUp
<1> HIDE DEF step
<1>2. q \in Nat /\ q * step <= n + step - 1
  BY <1>1, RoundsUp
<1> HIDE DEF q
<1>3. step * w = w * step /\ w * step \in Int /\ (w + 1) * step = w * step + step
  BY <1>1, Factors
<1>4. q * step < (w + 1) * step
  BY <1>1, <1>2, <1>3
<1>5. q < w + 1
  BY <1>1, <1>2, <1>4, Factors
<1> QED  BY <1>1, <1>2, <1>5 DEF q, step

\* A run never gets more workers than it has threads or strips.
LEMMA WorkersInPool ==
    ASSUME NEW p \in Request, NEW strips \in Nat \ {0}, NEW pool \in Nat, NEW source \in Nat
    PROVE  StripWorkers(p, strips, pool, source) \in 1 .. Least(p.threads, strips)
<1> DEFINE workers == Greatest(Least(p.threads, strips), 1)
           limited == DivCeil(Greatest(source, 1) * 4, Greatest(pool, 1))
<1>1. p.threads \in Nat \ {0}
  BY DEF Request
<1>2. workers = Least(p.threads, strips) /\ workers \in Nat \ {0}
  BY <1>1 DEF Greatest, Least
<1>3. limited \in Nat
  <2>1. Greatest(source, 1) * 4 \in Nat /\ Greatest(pool, 1) \in Nat \ {0}
    BY DEF Greatest
  <2> QED  BY <2>1, RoundsUp
<1>4. \/ StripWorkers(p, strips, pool, source) = workers
      \/ StripWorkers(p, strips, pool, source)
             = Least(Least(Greatest(limited, Least(2, workers)), Least(6, workers)), workers)
  BY DEF StripWorkers
<1> HIDE DEF workers, limited
<1>5. Least(Least(Greatest(limited, Least(2, workers)), Least(6, workers)), workers) \in 1 .. workers
  BY <1>2, <1>3 DEF Greatest, Least
<1> QED  BY <1>2, <1>4, <1>5

\* The strips of a plan cut its tiles, and no image has tiles and no strips.
LEMMA StripsCutTiles ==
    ASSUME NEW p \in Request, NEW g, NEW stripTiles \in Int,
           IF Empty(p) THEN g = EmptyGeometry ELSE GeometryFits(g, p)
    PROVE  /\ ConsecutiveRuns(StripRanges(g, stripTiles), Len(GenerateTiles(g, p)))
           /\ Len(StripRanges(g, stripTiles)) \in Nat
           /\ StripRanges(g, stripTiles) # <<>> => Len(StripRanges(g, stripTiles)) # 0
<1> DEFINE step == Greatest(stripTiles, 1)
           runs == Runs(g.rows, step)
           strips == StripRanges(g, stripTiles)
<1>1. step \in Nat \ {0}
  BY DEF Greatest
<1>2. g.rows \in Nat /\ g.cols \in Nat
  BY DEF EmptyGeometry, GeometryFits
<1>3. /\ runs \in Seq(Int \X Int) /\ Len(runs) = DivCeil(g.rows, step)
      /\ DOMAIN runs = 1 .. DivCeil(g.rows, step)
      /\ DivCeil(g.rows, step) \in Nat /\ (g.rows = 0 <=> DivCeil(g.rows, step) = 0)
      /\ ConsecutiveRuns(runs, g.rows)
  BY <1>1, <1>2, RunsAreSequence, RunsConsecutive, RoundsUp
<1>4. strips = [ k \in DOMAIN runs |-> <<(runs[k][1] - 1) * g.cols + 1, runs[k][2] * g.cols>> ]
  BY DEF StripRanges
<1>5. CASE Empty(p)
  <2>1. g.rows = 0 /\ g.cols = 0
    BY <1>5 DEF EmptyGeometry
  <2>2. DOMAIN runs = 1 .. 0
    BY <1>3, <2>1
  <2> HIDE DEF runs, step
  <2>3. strips = <<>>
    BY <1>4, <2>2
  <2>4. GenerateTiles(g, p) = <<>>
    BY <2>1 DEF GenerateTiles
  <2> HIDE DEF strips
  <2>5. ConsecutiveRuns(<<>>, 0)
    BY DEF ConsecutiveRuns
  <2> QED  BY <2>3, <2>4, <2>5 DEF strips
<1>6. CASE ~Empty(p)
  <2>1. GeometryFits(g, p)
    BY <1>6
  <2>2. g.cols \in Nat \ {0} /\ Len(GenerateTiles(g, p)) = g.cols * g.rows
    BY <1>6, <2>1, GridHasTiles, TilesAreSequence
  <2> HIDE DEF runs, step, strips
  <2>3. Len(strips) = Len(runs) /\ ConsecutiveRuns(strips, g.cols * g.rows)
    BY <1>2, <1>3, <1>4, <2>2, WiderRuns
  <2>4. Len(strips) \in Nat
    BY <1>3, <2>3
  <2>5. strips # <<>> => Len(strips) # 0
    <3>1. Len(strips) = 0 => DOMAIN runs = 1 .. 0
      BY <1>3, <2>3
    <3> QED  BY <1>4, <3>1
  <2> QED  BY <2>2, <2>3, <2>4, <2>5 DEF strips
<1> QED  BY <1>5, <1>6

\* The chunks and static ranges cut the strips into at most one range per worker.
LEMMA TasksCutStrips ==
    ASSUME NEW items \in Nat \ {0}, NEW workers \in Nat \ {0}
    PROVE  LET T == Runs(items, DivCeil(items, workers))
           IN  ConsecutiveRuns(T, items) /\ Len(T) <= workers
<1>1. DivCeil(items, workers) \in Nat \ {0} /\ DivCeil(items, DivCeil(items, workers)) <= workers
  BY FewRuns
<1> QED  BY <1>1, RunsConsecutive, RunsAreSequence

-----------------------------------------------------------------------------
(* The invariant: what is planned is what MakePlan computes.               *)

PlanFor(p, pool, source) ==
    LET g       == GeometryForExecution(p)
        tiles   == GenerateTiles(g, p)
        strips  == StripRanges(g, EffectiveStripTiles(p))
        workers == StripWorkers(p, Len(strips), pool, source)
        scoped  == UseScopedStrips(p, Len(strips), workers)
    IN  [ geometry |-> g, tiles |-> tiles, strips |-> strips,
          workers |-> workers, scoped |-> scoped,
          tasks |-> IF scoped THEN ScopedChunks(workers, Len(strips))
                    ELSE StaticWorkRanges(p.hint, workers, Len(strips)) ]

PlanInv ==
    /\ request \in Request
    /\ Planned => \E pool \in PoolBytes, source \in SourceBytes : plan = PlanFor(request, pool, source)

LEMMA PlanInvStarts == Init => PlanInv
BY RequestAssumption DEF Init, PlanInv, Request, Planned

LEMMA PlanInvKept ==
    ASSUME PlanInv, [Next]_planVars
    PROVE  PlanInv'
<1>1. ASSUME NEW pool \in PoolBytes, NEW source \in SourceBytes, MakePlan(pool, source)
      PROVE  PlanInv'
  <2>1. request' = request /\ plan' = PlanFor(request, pool, source)
    BY <1>1 DEF MakePlan, PlanFor
  <2>2. plan' = PlanFor(request', pool, source)
    BY <2>1
  <2> QED  BY <2>1, <2>2 DEF PlanInv
<1>2. CASE UNCHANGED planVars
  BY <1>2 DEF planVars, PlanInv, Planned
<1> QED  BY <1>1, <1>2 DEF Next

\* A plan is one that MakePlan computes from the request, for some sizes of the
\* buffer pool and of the source.
THEOREM PlanInvariantHolds == Spec => []PlanInv
BY PlanInvStarts, PlanInvKept, PTL DEF Spec

\* An effective strip height is a number, whatever the budgets.
LEMMA StripHeightIsNumber ==
    ASSUME NEW p \in Request
    PROVE  EffectiveStripTiles(p) \in Int
<1> DEFINE g == GeometryForBudget(p)
           bytes == Greatest(g.tileWidth * g.tileHeight * (p.rowBytes \div Greatest(p.width, 1)), 1)
           fitting == Least(p.l2 \div bytes, DivCeil(g.rows, p.threads))
<1>1. /\ p.stripTiles \in Nat /\ p.rowBytes \in Nat /\ p.width \in Nat /\ p.l2 \in Nat
      /\ p.threads \in Nat \ {0}
  BY DEF Request
<1>2. g.tileWidth \in Nat /\ g.tileHeight \in Nat /\ g.rows \in Nat
  BY BudgetGeometryFits DEF EmptyGeometry, GeometryFits
<1>3. \/ EffectiveStripTiles(p) = Greatest(p.stripTiles, 1)
      \/ EffectiveStripTiles(p) = 1
      \/ EffectiveStripTiles(p) = Greatest(Least(fitting, 32), 1)
  BY DEF EffectiveStripTiles
<1> HIDE DEF g
<1>4. bytes \in Nat \ {0}
  <2> DEFINE pixel == p.rowBytes \div Greatest(p.width, 1)
             area == g.tileWidth * g.tileHeight
  <2>1. pixel \in Int
    BY <1>1, Division DEF Greatest
  <2>2. area \in Int
    BY <1>2
  <2> HIDE DEF pixel, area
  <2>3. area * pixel \in Int
    BY <2>1, <2>2
  <2>4. Greatest(area * pixel, 1) \in Nat \ {0}
    BY <2>3 DEF Greatest
  <2> QED  BY <2>4 DEF area, pixel
<1> HIDE DEF bytes
<1>5. p.l2 \div bytes \in Int /\ DivCeil(g.rows, p.threads) \in Int
  <2>1. p.l2 \in Int
    BY <1>1
  <2>2. p.l2 \div bytes \in Int
    BY <1>4, <2>1, Division
  <2> QED  BY <1>1, <1>2, <2>2, RoundsUp
<1>6. fitting \in Int
  BY <1>5 DEF Least
<1> HIDE DEF fitting
<1> QED  BY <1>1, <1>3, <1>6 DEF Greatest, Least

-----------------------------------------------------------------------------
(* The properties of a plan.                                               *)

\* An image without pixels has no tiles.
LEMMA EmptyImageHasNoTiles ==
    ASSUME NEW p \in Request, Empty(p)
    PROVE  GenerateTiles(GeometryForExecution(p), p) = <<>>
<1>1. GeometryForExecution(p) = EmptyGeometry
  BY ExecutionGeometryFits
<1>2. GenerateTiles(EmptyGeometry, p) = <<>>
  BY DEF GenerateTiles, EmptyGeometry
<1> QED  BY <1>1, <1>2

\* Every pixel of an image of any size lies in exactly one tile, and no tile
\* is empty or reaches past the image (planning.rs, generate_tiles).
THEOREM PlanPartition == Spec => []TilesPartitionImage
<1>1. PlanInv => TilesPartitionImage
  <2> SUFFICES ASSUME PlanInv, Planned PROVE Partitions(plan.tiles, request)
    BY DEF TilesPartitionImage, Partitions
  <2>1. PICK pool \in PoolBytes, source \in SourceBytes : plan = PlanFor(request, pool, source)
    BY DEF PlanInv
  <2>2. plan.tiles = GenerateTiles(GeometryForExecution(request), request) /\ request \in Request
    BY <2>1 DEF PlanFor, PlanInv
  <2>3. CASE Empty(request)
    <3>1. plan.tiles = <<>>
      BY <2>2, <2>3, EmptyImageHasNoTiles
    <3>2. Partitions(<<>>, request)
      BY <2>3 DEF Partitions, Empty
    <3> QED  BY <3>1, <3>2
  <2>4. CASE ~Empty(request)
    BY <2>2, <2>4, ExecutionGeometryFits, TilesPartition
  <2> QED  BY <2>3, <2>4
<1> QED  BY <1>1, PlanInvariantHolds, PTL

\* The tiles of any plan come in the order in which the ordered sinks wait for
\* them: each starts where its predecessor ended, the last one ends the image.
THEOREM PlanOrder == Spec => []TilesFollowSinkOrder
<1>1. PlanInv => TilesFollowSinkOrder
  <2> SUFFICES ASSUME PlanInv, Planned, plan.tiles # <<>>
               PROVE  /\ RasterChain(plan.tiles, request.width)
                      /\ AfterAll(plan.tiles, request.width) = [x |-> 0, y |-> request.height]
    BY DEF TilesFollowSinkOrder
  <2>1. PICK pool \in PoolBytes, source \in SourceBytes : plan = PlanFor(request, pool, source)
    BY DEF PlanInv
  <2>2. plan.tiles = GenerateTiles(GeometryForExecution(request), request) /\ request \in Request
    BY <2>1 DEF PlanFor, PlanInv
  <2>3. ~Empty(request)
    BY <2>2, EmptyImageHasNoTiles
  <2> QED  BY <2>2, <2>3, ExecutionGeometryFits, TilesInOrder
<1> QED  BY <1>1, PlanInvariantHolds, PTL

\* Every tile is in one strip and every strip in one task, in order; there are
\* no more tasks than workers and no more workers than threads or strips.
THEOREM PlanDealt == Spec => []WorkDealtOnce
<1>1. PlanInv => WorkDealtOnce
  <2> SUFFICES ASSUME PlanInv, Planned
               PROVE  /\ ConsecutiveRuns(plan.strips, Len(plan.tiles))
                      /\ plan.strips # <<>> =>
                            plan.workers \in 1 .. Least(request.threads, Len(plan.strips))
                      /\ plan.tasks # <<>> => /\ ConsecutiveRuns(plan.tasks, Len(plan.strips))
                                              /\ Len(plan.tasks) <= plan.workers
    BY DEF WorkDealtOnce
  <2>1. PICK pool \in PoolBytes, source \in SourceBytes : plan = PlanFor(request, pool, source)
    BY DEF PlanInv
  <2> DEFINE g == GeometryForExecution(request)
             n == Len(plan.strips)
             w == plan.workers
  <2>2. /\ request \in Request /\ pool \in Nat /\ source \in Nat
        /\ plan.tiles = GenerateTiles(g, request)
        /\ plan.strips = StripRanges(g, EffectiveStripTiles(request))
        /\ w = StripWorkers(request, n, pool, source)
        /\ plan.tasks = IF UseScopedStrips(request, n, w) THEN ScopedChunks(w, n)
                        ELSE StaticWorkRanges(request.hint, w, n)
    BY <2>1, RequestAssumption DEF PlanFor, PlanInv
  <2>3. /\ ConsecutiveRuns(plan.strips, Len(plan.tiles)) /\ n \in Nat
        /\ plan.strips # <<>> => n # 0
    BY <2>2, ExecutionGeometryFits, StripHeightIsNumber, StripsCutTiles
  <2>4. n # 0 => w \in 1 .. Least(request.threads, n) /\ w \in Nat \ {0}
    <3>1. n # 0 => w \in 1 .. Least(request.threads, n)
      BY <2>2, <2>3, WorkersInPool
    <3> QED  BY <2>2, <2>3, <3>1 DEF Least, Request
  <2>5. plan.tasks # <<>> =>
           n \in Nat \ {0} /\ w \in Nat \ {0} /\ plan.tasks = Runs(n, DivCeil(n, w))
    <3> HIDE DEF n, w
    <3>1. CASE UseScopedStrips(request, n, w)
      <4>1. n > 1
        BY <3>1 DEF UseScopedStrips
      <4>2. plan.tasks = Runs(n, DivCeil(n, w))
        BY <2>2, <3>1 DEF ScopedChunks
      <4> QED  BY <2>3, <2>4, <4>1, <4>2
    <3>2. CASE ~UseScopedStrips(request, n, w)
      <4> SUFFICES ASSUME plan.tasks # <<>>
                   PROVE  n \in Nat \ {0} /\ w \in Nat \ {0} /\ plan.tasks = Runs(n, DivCeil(n, w))
        OBVIOUS
      <4>1. ~(n <= 1) /\ plan.tasks = Runs(n, Greatest(DivCeil(n, w), 1))
        BY <2>2, <3>2 DEF StaticWorkRanges
      <4>2. n \in Nat \ {0} /\ w \in Nat \ {0}
        BY <2>3, <2>4, <4>1
      <4>3. DivCeil(n, w) \in Nat \ {0}
        BY <4>2, FewRuns
      <4>4. Greatest(DivCeil(n, w), 1) = DivCeil(n, w)
        BY <4>3 DEF Greatest
      <4> QED  BY <4>1, <4>2, <4>4
    <3> QED  BY <3>1, <3>2
  <2>6. plan.tasks # <<>> => ConsecutiveRuns(plan.tasks, n) /\ Len(plan.tasks) <= w
    BY <2>5, TasksCutStrips
  <2> QED  BY <2>3, <2>4, <2>6
<1> QED  BY <1>1, PlanInvariantHolds, PTL

\* What the scheduler's theorem WritesDisjoint assumes of a plan: two tiles of
\* it have no pixel in common (the SAFETY comment of the shared buffer writers:
\* "upheld by generate_tiles").
TilesApart ==
    Planned =>
        \A i, j \in DOMAIN plan.tiles :
            LET t == plan.tiles[i]
                u == plan.tiles[j]
            IN  i # j => \/ t.x + t.width <= u.x \/ u.x + u.width <= t.x
                         \/ t.y + t.height <= u.y \/ u.y + u.height <= t.y

\* Different cells of one side lie on different sides of a line.
LEMMA CellsBeside ==
    ASSUME NEW length \in Nat, NEW size \in Nat \ {0},
           NEW j \in 0 .. DivCeil(length, size) - 1, NEW k \in 0 .. DivCeil(length, size) - 1, j # k
    PROVE  \/ CellStart(j, size) + CellExtent(j, size, length) <= CellStart(k, size)
           \/ CellStart(k, size) + CellExtent(k, size, length) <= CellStart(j, size)
<1>1. j < k \/ k < j
  BY RoundsUp
<1>2. CASE j < k
  BY <1>2, CellsApart
<1>3. CASE k < j
  BY <1>3, CellsApart
<1> QED  BY <1>1, <1>2, <1>3

\* Two tiles of any plan share no pixel: writing them into one buffer at the
\* same time races on nothing (planning.rs, generate_tiles).
THEOREM PlanTilesApart == Spec => []TilesApart
<1>1. PlanInv => TilesApart
  <2> SUFFICES ASSUME PlanInv, Planned PROVE TilesApart
    BY DEF TilesApart
  <2>1. PICK pool \in PoolBytes, source \in SourceBytes : plan = PlanFor(request, pool, source)
    BY DEF PlanInv
  <2> DEFINE g == GeometryForExecution(request)
             p == request
  <2>2. plan.tiles = GenerateTiles(g, p) /\ p \in Request
    BY <2>1 DEF PlanFor, PlanInv
  <2>3. CASE Empty(p)
    <3>1. plan.tiles = <<>>
      BY <2>2, <2>3, EmptyImageHasNoTiles
    <3> QED  BY <3>1 DEF TilesApart
  <2>4. CASE ~Empty(p)
    <3>1. GeometryFits(g, p)
      BY <2>2, <2>4, ExecutionGeometryFits
    <3>2. /\ p.width \in Nat /\ p.height \in Nat
          /\ g.tileWidth \in Nat \ {0} /\ g.tileHeight \in Nat \ {0}
          /\ g.cols = DivCeil(p.width, g.tileWidth) /\ g.rows = DivCeil(p.height, g.tileHeight)
      BY <2>2, <3>1 DEF GeometryFits, Request
    <3>3. \A i \in DOMAIN plan.tiles : \E col \in Columns(g), row \in Rows(g) :
             i = TileNumber(col, row, g) /\ plan.tiles[i] = TileAt(col, row, g, p)
      BY <2>2, <2>4, <3>1, TilesByPlace
    <3> SUFFICES ASSUME NEW i \in DOMAIN plan.tiles, NEW j \in DOMAIN plan.tiles, i # j
                 PROVE  LET t == plan.tiles[i]
                            u == plan.tiles[j]
                        IN  \/ t.x + t.width <= u.x \/ u.x + u.width <= t.x
                            \/ t.y + t.height <= u.y \/ u.y + u.height <= t.y
      BY DEF TilesApart
    <3>4. PICK c \in Columns(g), r \in Rows(g) : i = TileNumber(c, r, g) /\ plan.tiles[i] = TileAt(c, r, g, p)
      BY <3>3
    <3>5. PICK d \in Columns(g), s \in Rows(g) : j = TileNumber(d, s, g) /\ plan.tiles[j] = TileAt(d, s, g, p)
      BY <3>3
    <3> DEFINE t == plan.tiles[i]
               u == plan.tiles[j]
    <3>6. /\ t.x = CellStart(c, g.tileWidth) /\ t.width = CellExtent(c, g.tileWidth, p.width)
          /\ t.y = CellStart(r, g.tileHeight) /\ t.height = CellExtent(r, g.tileHeight, p.height)
      BY <2>2, <3>1, <3>4, TileSides
    <3>7. /\ u.x = CellStart(d, g.tileWidth) /\ u.width = CellExtent(d, g.tileWidth, p.width)
          /\ u.y = CellStart(s, g.tileHeight) /\ u.height = CellExtent(s, g.tileHeight, p.height)
      BY <2>2, <3>1, <3>5, TileSides
    <3> HIDE DEF t, u
    <3>8. c # d \/ r # s
      BY <3>4, <3>5
    <3>9. /\ c \in 0 .. DivCeil(p.width, g.tileWidth) - 1 /\ d \in 0 .. DivCeil(p.width, g.tileWidth) - 1
          /\ r \in 0 .. DivCeil(p.height, g.tileHeight) - 1 /\ s \in 0 .. DivCeil(p.height, g.tileHeight) - 1
      BY <3>2 DEF Columns, Rows
    <3>10. c # d => t.x + t.width <= u.x \/ u.x + u.width <= t.x
      BY <3>2, <3>6, <3>7, <3>9, CellsBeside
    <3>11. r # s => t.y + t.height <= u.y \/ u.y + u.height <= t.y
      BY <3>2, <3>6, <3>7, <3>9, CellsBeside
    <3> QED  BY <3>8, <3>10, <3>11 DEF t, u
  <2> QED  BY <2>3, <2>4
<1> QED  BY <1>1, PlanInvariantHolds, PTL

-----------------------------------------------------------------------------
(* What operations read.                                                   *)

\* A region with pixels, wherever it lies.
Areas == [x : Int, y : Int, width : Nat \ {0}, height : Nat \ {0}]

\* The pixel <<i, j>> of out is read inside the region that was asked for, and
\* shows what the operation shows there.
PixelRight(op, out, i, j) ==
    /\ ReadsInside(op, out, i, j)
    /\ out.x + i \in 0 .. op.size.width - 1 /\ out.y + j \in 0 .. op.size.height - 1
          => MadeFrom(op, out, i, j) = Shown(op, out.x + i, out.y + j)

\* An operation with one input that reads one position.
LEMMA OneRead ==
    ASSUME NEW op, NEW out, NEW i, NEW j, NEW u, NEW v,
           op.kind \notin {"Insert", "Join"},
           Reads(op, out, RequiredInput(op, out, 0), i, j) = One(<<u, v>>)
    PROVE  LET in == RequiredInput(op, out, 0)
           IN  /\ ReadsInside(op, out, i, j) <=> u \in 0 .. in.width - 1 /\ v \in 0 .. in.height - 1
               /\ MadeFrom(op, out, i, j) = One(SourcePixel(op, 0, in.x + u, in.y + v))
<1> DEFINE in    == RequiredInput(op, out, 0)
           reads == SlotReads(op, out, i, j)
<1>1. reads = [tap \in {<<0, 0>>} |-> <<0, <<u, v>>>>]
  BY DEF SlotReads, One
<1> HIDE DEF reads
<1>2. DOMAIN reads = {<<0, 0>>} /\ reads[<<0, 0>>] = <<0, <<u, v>>>>
  BY <1>1
<1>3. ReadsInside(op, out, i, j) <=> InRegion(in, <<u, v>>)
  BY <1>2 DEF ReadsInside, reads
<1>4. MadeFrom(op, out, i, j) = One(SourcePixel(op, 0, in.x + u, in.y + v))
  BY <1>2 DEF MadeFrom, reads, One
<1> QED  BY <1>3, <1>4 DEF InRegion

\* An operation with one input that fills a pixel.
LEMMA NoRead ==
    ASSUME NEW op, NEW out, NEW i, NEW j,
           op.kind \notin {"Insert", "Join"},
           Reads(op, out, RequiredInput(op, out, 0), i, j) = Fill
    PROVE  ReadsInside(op, out, i, j) /\ MadeFrom(op, out, i, j) = Fill
<1> DEFINE reads == SlotReads(op, out, i, j)
<1>1. DOMAIN reads = {}
  BY DEF SlotReads, Fill
<1>3. ReadsInside(op, out, i, j)
  BY <1>1 DEF ReadsInside
<1>4. MadeFrom(op, out, i, j) = Fill
  BY <1>1 DEF MadeFrom, Fill
<1> QED  BY <1>3, <1>4

\* An operation with one input that reads the position <<u, v>> of it, and shows
\* what lies there.
LEMMA OneReadRight ==
    ASSUME NEW op, WellFormed(op), NEW out \in Areas, NEW i, NEW j, NEW u \in Int, NEW v \in Int,
           op.kind \notin {"Insert", "Join"},
           Reads(op, out, RequiredInput(op, out, 0), i, j) = One(<<u, v>>),
           LET in == RequiredInput(op, out, 0)
           IN  /\ u \in 0 .. in.width - 1 /\ v \in 0 .. in.height - 1
               /\ Shown(op, out.x + i, out.y + j) = One(SourcePixel(op, 0, in.x + u, in.y + v))
    PROVE  PixelRight(op, out, i, j)
BY OneRead DEF PixelRight

\* Cuts and turns read the pixel that they move.
LEMMA CutsAndTurns ==
    ASSUME NEW op, WellFormed(op), NEW out \in Areas,
           op.kind \in {"ExtractArea", "FlipVertical", "FlipHorizontal", "Rotate90", "Rotate180", "Rotate270"},
           NEW i \in 0 .. out.width - 1, NEW j \in 0 .. out.height - 1
    PROVE  PixelRight(op, out, i, j)
<1> DEFINE in == RequiredInput(op, out, 0)
           W  == op.source[0].width
           H  == op.source[0].height
           x  == out.x + i
           y  == out.y + j
<1>0. W \in Nat \ {0} /\ H \in Nat \ {0} /\ op.at[1] \in Int /\ op.at[2] \in Int
  BY DEF WellFormed, Slots
<1>1. CASE op.kind = "FlipVertical"
  <2>1. in = FlipVerticalInput(op, out)
    BY <1>1 DEF RequiredInput
  <2>2. Reads(op, out, in, i, j) = One(<<i, in.height - 1 - j>>)
    BY <1>1 DEF Reads, FlipVerticalRead
  <2>3. Shown(op, x, y) = One(SourcePixel(op, 0, x, H - 1 - y))
    BY <1>1 DEF Shown
  <2> HIDE DEF in
  <2>4. /\ i \in 0 .. in.width - 1 /\ in.height - 1 - j \in 0 .. in.height - 1
        /\ SourcePixel(op, 0, x, H - 1 - y) = SourcePixel(op, 0, in.x + (i), in.y + (in.height - 1 - j))
    BY <1>0, <2>1 DEF FlipVerticalInput, Region, Areas
  <2> QED  BY <1>1, <2>2, <2>3, <2>4, OneReadRight DEF in, Areas
<1>2. CASE op.kind = "FlipHorizontal"
  <2>1. in = FlipHorizontalInput(op, out)
    BY <1>2 DEF RequiredInput
  <2>2. Reads(op, out, in, i, j) = One(<<in.width - 1 - i, j>>)
    BY <1>2 DEF Reads, FlipHorizontalRead
  <2>3. Shown(op, x, y) = One(SourcePixel(op, 0, W - 1 - x, y))
    BY <1>2 DEF Shown
  <2> HIDE DEF in
  <2>4. /\ in.width - 1 - i \in 0 .. in.width - 1 /\ j \in 0 .. in.height - 1
        /\ SourcePixel(op, 0, W - 1 - x, y) = SourcePixel(op, 0, in.x + (in.width - 1 - i), in.y + (j))
    BY <1>0, <2>1 DEF FlipHorizontalInput, Region, Areas
  <2> QED  BY <1>2, <2>2, <2>3, <2>4, OneReadRight DEF in, Areas
<1>3. CASE op.kind = "Rotate90"
  <2>1. in = Rotate90Input(op, out)
    BY <1>3 DEF RequiredInput
  <2>2. Reads(op, out, in, i, j) = One(<<j, out.width - 1 - i>>)
    BY <1>3 DEF Reads, Rotate90Read
  <2>3. Shown(op, x, y) = One(SourcePixel(op, 0, y, H - 1 - x))
    BY <1>3 DEF Shown
  <2> HIDE DEF in
  <2>4. /\ j \in 0 .. in.width - 1 /\ out.width - 1 - i \in 0 .. in.height - 1
        /\ SourcePixel(op, 0, y, H - 1 - x) = SourcePixel(op, 0, in.x + (j), in.y + (out.width - 1 - i))
    BY <1>0, <2>1 DEF Rotate90Input, Region, Areas
  <2>5. j \in Int /\ out.width - 1 - i \in Int
    BY DEF Areas
  <2> QED  BY <1>3, <2>2, <2>3, <2>4, <2>5, OneReadRight DEF in
<1>4. CASE op.kind = "Rotate180"
  <2>1. in = Rotate180Input(op, out)
    BY <1>4 DEF RequiredInput
  <2>2. Reads(op, out, in, i, j) = One(<<in.width - 1 - i, in.height - 1 - j>>)
    BY <1>4 DEF Reads, Rotate180Read
  <2>3. Shown(op, x, y) = One(SourcePixel(op, 0, W - 1 - x, H - 1 - y))
    BY <1>4 DEF Shown
  <2> HIDE DEF in
  <2>4. /\ in.width - 1 - i \in 0 .. in.width - 1 /\ in.height - 1 - j \in 0 .. in.height - 1
        /\ SourcePixel(op, 0, W - 1 - x, H - 1 - y) = SourcePixel(op, 0, in.x + (in.width - 1 - i), in.y + (in.height - 1 - j))
    BY <1>0, <2>1 DEF Rotate180Input, Region, Areas
  <2> QED  BY <1>4, <2>2, <2>3, <2>4, OneReadRight DEF in, Areas
<1>5. CASE op.kind = "Rotate270"
  <2>1. in = Rotate270Input(op, out)
    BY <1>5 DEF RequiredInput
  <2>2. Reads(op, out, in, i, j) = One(<<out.height - 1 - j, i>>)
    BY <1>5 DEF Reads, Rotate270Read
  <2>3. Shown(op, x, y) = One(SourcePixel(op, 0, W - 1 - y, x))
    BY <1>5 DEF Shown
  <2> HIDE DEF in
  <2>4. /\ out.height - 1 - j \in 0 .. in.width - 1 /\ i \in 0 .. in.height - 1
        /\ SourcePixel(op, 0, W - 1 - y, x) = SourcePixel(op, 0, in.x + (out.height - 1 - j), in.y + (i))
    BY <1>0, <2>1 DEF Rotate270Input, Region, Areas
  <2> QED  BY <1>5, <2>2, <2>3, <2>4, OneReadRight DEF in, Areas
<1>6. CASE op.kind = "ExtractArea"
  <2>1. in = ExtractAreaInput(op, out)
    BY <1>6 DEF RequiredInput
  <2>2. Reads(op, out, in, i, j) = One(<<i, j>>)
    BY <1>6 DEF Reads
  <2>3. Shown(op, x, y) = One(SourcePixel(op, 0, x + op.at[1], y + op.at[2]))
    BY <1>6 DEF Shown
  <2> HIDE DEF in
  <2>4. /\ i \in 0 .. in.width - 1 /\ j \in 0 .. in.height - 1
        /\ SourcePixel(op, 0, x + op.at[1], y + op.at[2]) = SourcePixel(op, 0, in.x + (i), in.y + (j))
    BY <1>0, <2>1 DEF ExtractAreaInput, Region, Areas
  <2> QED  BY <1>6, <2>2, <2>3, <2>4, OneReadRight DEF in, Areas
<1> QED  BY <1>1, <1>2, <1>3, <1>4, <1>5, <1>6

\* An operation with one input that fills a pixel, and shows that.
LEMMA NoReadRight ==
    ASSUME NEW op, NEW out, NEW i, NEW j,
           op.kind \notin {"Insert", "Join"},
           Reads(op, out, RequiredInput(op, out, 0), i, j) = Fill,
           Shown(op, out.x + i, out.y + j) = Fill
    PROVE  PixelRight(op, out, i, j)
BY NoRead DEF PixelRight

\* What a canvas shows, whichever of the two operations makes it.
LEMMA CanvasShown ==
    ASSUME NEW op, NEW x, NEW y, NEW u, NEW v,
           op.kind \in {"Embed", "EmbedCanvas"}, u = x - op.at[1], v = y - op.at[2]
    PROVE  LET W == op.source[0].width
               H == op.source[0].height
           IN  /\ op.extend = "Repeat" => Shown(op, x, y) = One(SourcePixel(op, 0, u % W, v % H))
               /\ op.extend = "Mirror" =>
                     Shown(op, x, y) = One(SourcePixel(op, 0, Mirrored(u, W), Mirrored(v, H)))
               /\ op.extend \in {"Edge", "Copy"} => Shown(op, x, y) = One(SourcePixel(op, 0, u, v))
               /\ op.extend \in {"Black", "Background"} =>
                     Shown(op, x, y) = IF InSource(op, u, v) THEN One(SourcePixel(op, 0, u, v)) ELSE Fill
<1> DEFINE W == op.source[0].width
           H == op.source[0].height
           P(a, b) == One(SourcePixel(op, 0, a, b))
           inside == InSource(op, x - op.at[1], y - op.at[2])
<1>1. Shown(op, x, y) =
          CASE op.extend = "Repeat" -> P((x - op.at[1]) % W, (y - op.at[2]) % H)
            [] op.extend = "Mirror" -> P(Mirrored(x - op.at[1], W), Mirrored(y - op.at[2], H))
            [] op.extend \in {"Edge", "Copy"} -> P(x - op.at[1], y - op.at[2])
            [] op.extend \in {"Black", "Background"} /\ inside -> P(x - op.at[1], y - op.at[2])
            [] OTHER -> Fill
  BY DEF Shown
<1> HIDE DEF P, inside
<1>2. op.extend = "Repeat" => Shown(op, x, y) = P((x - op.at[1]) % W, (y - op.at[2]) % H)
  BY <1>1
<1>3. op.extend = "Mirror" => Shown(op, x, y) = P(Mirrored(x - op.at[1], W), Mirrored(y - op.at[2], H))
  BY <1>1
<1>4. op.extend \in {"Edge", "Copy"} => Shown(op, x, y) = P(x - op.at[1], y - op.at[2])
  BY <1>1
<1>5. op.extend \in {"Black", "Background"} =>
          Shown(op, x, y) = IF inside THEN P(x - op.at[1], y - op.at[2]) ELSE Fill
  BY <1>1
<1> QED  BY <1>2, <1>3, <1>4, <1>5 DEF P, inside

\* An image on a black canvas, or with its edges repeated.
LEMMA EmbedRight ==
    ASSUME NEW op, WellFormed(op), NEW out \in Areas, op.kind = "Embed",
           NEW i \in 0 .. out.width - 1, NEW j \in 0 .. out.height - 1
    PROVE  PixelRight(op, out, i, j)
<1> DEFINE in == RequiredInput(op, out, 0)
           x  == out.x + i
           y  == out.y + j
           u  == x - op.at[1]
           v  == y - op.at[2]
<1>0. /\ op.at[1] \in Int /\ op.at[2] \in Int /\ op.extend \in {"Black", "Edge"}
      /\ i \in Int /\ j \in Int /\ op.kind \notin {"Insert", "Join"}
  BY DEF WellFormed, Areas
<1>1. in = EmbedInput(op, out)
  BY DEF RequiredInput
<1>a. x = out.x + i /\ y = out.y + j /\ u = x - op.at[1] /\ v = y - op.at[2]
  OBVIOUS
<1>c. Reads(op, out, in, i, j) = EmbedReads(op, out, i, j)
  BY DEF Reads
<1>2. Reads(op, out, in, i, j) = IF op.extend = "Edge" \/ InSource(op, u, v) THEN One(<<i, j>>) ELSE Fill
  BY <1>0, <1>c DEF EmbedReads, Areas
<1> HIDE DEF x, y, u, v
<1>b. /\ op.extend = "Edge" => Shown(op, x, y) = One(SourcePixel(op, 0, u, v))
      /\ op.extend = "Black" =>
            Shown(op, x, y) = IF InSource(op, u, v) THEN One(SourcePixel(op, 0, u, v)) ELSE Fill
  BY <1>a, CanvasShown
<1>3. CASE op.extend = "Edge" \/ InSource(op, u, v)
  <2>1. Reads(op, out, in, i, j) = One(<<i, j>>)
    BY <1>2, <1>3
  <2>2. Shown(op, x, y) = One(SourcePixel(op, 0, u, v))
    BY <1>0, <1>3, <1>b
  <2>3. i \in 0 .. in.width - 1 /\ j \in 0 .. in.height - 1 /\ in.x + i = u /\ in.y + j = v
    BY <1>0, <1>1, <1>a DEF EmbedInput, Region, Areas
  <2> HIDE DEF in
  <2>4. Shown(op, x, y) = One(SourcePixel(op, 0, in.x + i, in.y + j))
    BY <2>2, <2>3
  <2> QED  BY <1>0, <2>1, <2>3, <2>4, <1>a, OneReadRight DEF in
<1>4. CASE ~(op.extend = "Edge" \/ InSource(op, u, v))
  <2>1. Reads(op, out, in, i, j) = Fill
    BY <1>2, <1>4
  <2>2. Shown(op, x, y) = Fill
    BY <1>0, <1>4, <1>b
  <2> QED  BY <1>0, <2>1, <2>2, <1>a, NoReadRight
<1> QED  BY <1>3, <1>4

\* A remainder is what is left after some multiple, and only that.
LEMMA Remainder ==
    ASSUME NEW a \in Int, NEW m \in Nat \ {0}, NEW q \in Int, NEW r \in 0 .. m - 1, a = q * m + r
    PROVE  a \div m = q /\ a % m = r
<1> DEFINE d == a \div m
           e == a % m
<1>1. /\ d \in Int /\ e \in Int /\ a = m * d + e /\ 0 <= e /\ e < m
  BY Division
<1> HIDE DEF d, e
<1>2. /\ d * m \in Int /\ q * m \in Int /\ a = d * m + e
      /\ (d + 1) * m = d * m + m /\ (q + 1) * m = q * m + m
  BY <1>1, Factors
<1>3. d * m < (q + 1) * m /\ q * m < (d + 1) * m
  BY <1>1, <1>2
<1>4. d < q + 1 /\ q < d + 1
  BY <1>1, <1>3, Factors
<1>5. d = q
  BY <1>1, <1>4
<1>6. e = r
  BY <1>1, <1>2, <1>5
<1> QED  BY <1>5, <1>6 DEF d, e

\* The same, of the number written out.
LEMMA RemainderOf ==
    ASSUME NEW m \in Nat \ {0}, NEW q \in Int, NEW r \in 0 .. m - 1
    PROVE  (q * m + r) \div m = q /\ (q * m + r) % m = r
<1> DEFINE a == q * m + r
<1>1. a \in Int /\ a = q * m + r
  OBVIOUS
<1> HIDE DEF a
<1>2. a \div m = q /\ a % m = r
  BY <1>1, Remainder
<1> QED  BY <1>2 DEF a

\* Numbers that differ by a multiple have the same remainder.
LEMMA SameRemainder ==
    ASSUME NEW b \in Int, NEW k \in Int, NEW m \in Nat \ {0}
    PROVE  (b + k * m) % m = b % m
<1>1. /\ b \div m \in Int /\ b % m \in Int /\ b = m * (b \div m) + (b % m) /\ 0 <= (b % m) /\ (b % m) < m
  BY Division
<1> DEFINE q == b \div m
           r == b % m
           a == b + k * m
<1>2. q \in Int /\ r \in 0 .. m - 1 /\ b = m * q + r
  BY <1>1
<1>3. a \in Int /\ a = b + k * m
  OBVIOUS
<1> HIDE DEF q, r, a
<1>4. a = (q + k) * m + r
  BY <1>2, <1>3
<1>5. a % m = r
  BY <1>2, <1>3, <1>4, Remainder
<1> QED  BY <1>5 DEF a, r

\* A mirrored axis goes forwards, then backwards, over the image.
LEMMA MirrorShown ==
    ASSUME NEW n \in Int, NEW limit \in Nat \ {0}
    PROVE  MirrorCoord(n, limit) \in 0 .. limit - 1 /\ Mirrored(n, limit) = MirrorCoord(n, limit)
<1> DEFINE m == 2 * limit
           q == n \div m
           r == n % m
           c == MirrorCoord(n, limit)
           Folds(s) == (n - s) % m = 0 \/ (n + 1 + s) % m = 0
<1>0. m \in Nat \ {0} /\ m = limit + limit
  OBVIOUS
<1>a. /\ n \div m \in Int /\ n % m \in Int /\ n = m * (n \div m) + (n % m) /\ 0 <= (n % m) /\ (n % m) < m
  BY <1>0, Division
<1>b. q \in Int /\ r \in 0 .. m - 1 /\ n = m * q + r
  BY <1>0, <1>a
<1>2. c = IF r < limit THEN r ELSE m - 1 - r
  BY DEF MirrorCoord
<1> HIDE DEF m, q, r, c
<1>1. q \in Int /\ r \in 0 .. m - 1 /\ n = q * m + r
  BY <1>0, <1>b
<1>3. c \in 0 .. limit - 1
  BY <1>0, <1>1, <1>2
<1>4. Folds(c)
  <2>1. CASE r < limit
    <3>1. n - c = q * m + 0 /\ n - c \in Int /\ 0 \in 0 .. m - 1
      BY <1>0, <1>1, <1>2, <2>1
    <3>2. (n - c) % m = 0
      BY <1>0, <1>1, <3>1, Remainder
    <3> QED  BY <3>2
  <2>2. CASE ~(r < limit)
    <3>1. n + 1 + c = q * m + m /\ (q + 1) * m = q * m + m /\ n + 1 + c \in Int /\ 0 \in 0 .. m - 1
      BY <1>0, <1>1, <1>2, <2>2, Factors
    <3>2. n + 1 + c = (q + 1) * m + 0 /\ q + 1 \in Int
      BY <1>0, <1>1, <3>1
    <3> QED  BY <1>0, <3>1, <3>2, Remainder
  <2> QED  BY <2>1, <2>2
<1>5. ASSUME NEW s \in 0 .. limit - 1, Folds(s) PROVE s = c
  <2>1. CASE (n - s) % m = 0
    <3>1. CASE s <= r
      <4>1. n - s = q * m + (r - s) /\ r - s \in 0 .. m - 1 /\ n - s \in Int
        BY <1>0, <1>1, <3>1
      <4>2. r - s = 0
        BY <1>0, <1>1, <2>1, <4>1, Remainder
      <4> QED  BY <1>0, <1>1, <1>2, <4>2
    <3>2. CASE r < s
      <4>1. n - s = q * m + (r - s) /\ (q - 1 + 1) * m = (q - 1) * m + m /\ q - 1 \in Int /\ q - 1 + 1 = q
        BY <1>0, <1>1, <3>2, Factors
      <4>2. n - s = (q - 1) * m + (m + r - s) /\ m + r - s \in 0 .. m - 1 /\ n - s \in Int
        BY <1>0, <1>1, <3>2, <4>1
      <4>3. m + r - s = 0
        BY <1>0, <2>1, <4>1, <4>2, Remainder
      <4> QED  BY <1>0, <1>1, <4>3
    <3> QED  BY <1>0, <1>1, <3>1, <3>2
  <2>2. CASE (n + 1 + s) % m = 0
    <3>1. CASE r + 1 + s < m
      <4>1. n + 1 + s = q * m + (r + 1 + s) /\ r + 1 + s \in 0 .. m - 1 /\ n + 1 + s \in Int
        BY <1>0, <1>1, <3>1
      <4>2. r + 1 + s = 0
        BY <1>0, <1>1, <2>2, <4>1, Remainder
      <4> QED  BY <1>0, <1>1, <4>2
    <3>2. CASE r + 1 + s >= m
      <4>1. (q + 1) * m = q * m + m /\ q + 1 \in Int
        BY <1>0, <1>1, Factors
      <4>2. n + 1 + s = (q + 1) * m + (r + 1 + s - m) /\ r + 1 + s - m \in 0 .. m - 1 /\ n + 1 + s \in Int
        BY <1>0, <1>1, <3>2, <4>1
      <4>3. r + 1 + s - m = 0
        BY <1>0, <2>2, <4>1, <4>2, Remainder
      <4> QED  BY <1>0, <1>1, <1>2, <4>3
    <3> QED  BY <1>0, <1>1, <3>1, <3>2
  <2> QED  BY <1>5, <2>1, <2>2
<1>6. Mirrored(n, limit) = CHOOSE s \in 0 .. limit - 1 : Folds(s)
  BY DEF Mirrored, m
<1> HIDE DEF Folds
<1>7. Mirrored(n, limit) = c
  BY <1>3, <1>4, <1>5, <1>6
<1> QED  BY <1>3, <1>7 DEF c

\* An image on a canvas of any filling, except where nothing is written.
LEMMA EmbedCanvasRight ==
    ASSUME NEW op, WellFormed(op), NEW out \in Areas, op.kind = "EmbedCanvas", Writes(op, out),
           NEW i \in 0 .. out.width - 1, NEW j \in 0 .. out.height - 1
    PROVE  PixelRight(op, out, i, j)
<1> DEFINE in == RequiredInput(op, out, 0)
           W  == op.source[0].width
           H  == op.source[0].height
           o  == OverlapInOutput(op, out)
           x  == out.x + i
           y  == out.y + j
           u  == x - op.at[1]
           v  == y - op.at[2]
<1>0. /\ op.at[1] \in Int /\ op.at[2] \in Int /\ op.extend \in {"Background", "Copy", "Repeat", "Mirror"}
      /\ W \in Nat \ {0} /\ H \in Nat \ {0}
      /\ i \in 0 .. out.width - 1 /\ j \in 0 .. out.height - 1 /\ op.kind \notin {"Insert", "Join"}
      /\ out.x \in Int /\ out.y \in Int /\ out.width \in Nat \ {0} /\ out.height \in Nat \ {0}
      /\ u \in Int /\ v \in Int
  BY DEF WellFormed, Areas, Slots
<1>1. in = IF op.extend \in {"Repeat", "Mirror"} THEN Region(0, 0, W, H)
           ELSE Region(out.x - op.at[1], out.y - op.at[2], out.width, out.height)
  BY DEF RequiredInput, EmbedCanvasInput, EmbedInput, WholeOf
<1>2. Reads(op, out, in, i, j) = EmbedCanvasReads(op, out, i, j)
  BY DEF Reads
<1>3. x = out.x + i /\ y = out.y + j /\ u = x - op.at[1] /\ v = y - op.at[2]
  OBVIOUS
<1>4. o = LET left   == Greatest(out.x, op.at[1])
              top    == Greatest(out.y, op.at[2])
              right  == Least(out.x + out.width, op.at[1] + W)
              bottom == Least(out.y + out.height, op.at[2] + H)
          IN  Region(left - out.x, top - out.y, right - left, bottom - top)
  BY DEF OverlapInOutput
<1>5. /\ op.extend = "Background" =>
            Reads(op, out, in, i, j) =
                IF i \in o.x .. o.x + o.width - 1 /\ j \in o.y .. o.y + o.height - 1
                THEN One(<<i, j>>) ELSE Fill
      /\ op.extend = "Copy" =>
            Reads(op, out, in, i, j) =
                One(<<Clamp(i, o.x, o.x + o.width - 1), Clamp(j, o.y, o.y + o.height - 1)>>)
      /\ op.extend = "Repeat" => Reads(op, out, in, i, j) = One(<<u % W, v % H>>)
      /\ op.extend = "Mirror" => Reads(op, out, in, i, j) = One(<<MirrorCoord(u, W), MirrorCoord(v, H)>>)
  <2>0. o.x \in Int /\ o.y \in Int /\ o.width \in Int /\ o.height \in Int
    BY <1>0, <1>4 DEF Region, Greatest, Least
  <2> HIDE DEF in, o
  <2>1. CASE op.extend = "Background"
    BY <1>2, <2>1 DEF EmbedCanvasReads, o
  <2>2. CASE op.extend = "Copy"
    <3>1. EmbedCanvasReads(op, out, i, j) =
              One(<<Clamp(i, o.x, o.x + o.width - 1), Clamp(j, o.y, o.y + o.height - 1)>>)
      BY <2>0, <2>2 DEF EmbedCanvasReads, o
    <3> QED  BY <1>2, <2>2, <3>1
  <2>3. CASE op.extend = "Repeat"
    <3>1. EmbedCanvasReads(op, out, i, j) = One(<<u % W, v % H>>)
      BY <1>0, <2>3 DEF EmbedCanvasReads
    <3> QED  BY <1>2, <2>3, <3>1
  <2>4. CASE op.extend = "Mirror"
    <3>1. EmbedCanvasReads(op, out, i, j) = One(<<MirrorCoord(u, W), MirrorCoord(v, H)>>)
      BY <1>0, <2>4 DEF EmbedCanvasReads
    <3> QED  BY <1>2, <2>4, <3>1
  <2> QED  BY <1>0, <2>1, <2>2, <2>3, <2>4
<1> HIDE DEF x, y, u, v, o, W, H, in
<1>6. /\ op.extend = "Repeat" => Shown(op, x, y) = One(SourcePixel(op, 0, u % W, v % H))
      /\ op.extend = "Mirror" => Shown(op, x, y) = One(SourcePixel(op, 0, Mirrored(u, W), Mirrored(v, H)))
      /\ op.extend = "Copy" => Shown(op, x, y) = One(SourcePixel(op, 0, u, v))
      /\ op.extend = "Background" =>
            Shown(op, x, y) = IF InSource(op, u, v) THEN One(SourcePixel(op, 0, u, v)) ELSE Fill
  BY <1>3, CanvasShown DEF W, H
<1>7. CASE op.extend = "Background"
  <2>1. i \in o.x .. o.x + o.width - 1 /\ j \in o.y .. o.y + o.height - 1 <=> InSource(op, u, v)
    BY <1>0, <1>3, <1>4 DEF InSource, Region, Greatest, Least, W, H
  <2>2. CASE InSource(op, u, v)
    <3>1. Reads(op, out, in, i, j) = One(<<i, j>>)
      BY <1>5, <1>7, <2>1, <2>2
    <3>2. i \in 0 .. in.width - 1 /\ j \in 0 .. in.height - 1 /\ in.x + i = u /\ in.y + j = v
      BY <1>0, <1>1, <1>3, <1>7 DEF Region
    <3>3. Shown(op, x, y) = One(SourcePixel(op, 0, in.x + i, in.y + j))
      BY <1>6, <1>7, <2>2, <3>2
    <3> QED  BY <1>0, <1>3, <3>1, <3>2, <3>3, OneReadRight DEF in
  <2>3. CASE ~InSource(op, u, v)
    <3>1. Reads(op, out, in, i, j) = Fill
      BY <1>5, <1>7, <2>1, <2>3
    <3>2. Shown(op, x, y) = Fill
      BY <1>6, <1>7, <2>3
    <3> QED  BY <1>0, <1>3, <3>1, <3>2, NoReadRight DEF in
  <2> QED  BY <2>2, <2>3
<1>8. CASE op.extend = "Copy"
  <2> DEFINE a == Clamp(i, o.x, o.x + o.width - 1)
             b == Clamp(j, o.y, o.y + o.height - 1)
  <2>1. Reads(op, out, in, i, j) = One(<<a, b>>)
    BY <1>5, <1>8
  <2>2. o.width > 0 /\ o.height > 0
    BY <1>8 DEF Writes, Covers, o
  <2>3. a \in 0 .. in.width - 1 /\ b \in 0 .. in.height - 1
    BY <1>0, <1>1, <1>4, <1>8, <2>2 DEF Region, Greatest, Least, Clamp
  <2>4. Clamp(in.x + a, 0, W - 1) = Clamp(u, 0, W - 1)
    BY <1>0, <1>1, <1>3, <1>4, <1>8, <2>2 DEF Region, Greatest, Least, Clamp
  <2>5. Clamp(in.y + b, 0, H - 1) = Clamp(v, 0, H - 1)
    BY <1>0, <1>1, <1>3, <1>4, <1>8, <2>2 DEF Region, Greatest, Least, Clamp
  <2> HIDE DEF a, b
  <2>6. Shown(op, x, y) = One(SourcePixel(op, 0, in.x + a, in.y + b))
    BY <1>6, <1>8, <2>4, <2>5 DEF SourcePixel, W, H
  <2>7. a \in Int /\ b \in Int
    BY <1>0, <1>1, <1>8, <2>3 DEF Region
  <2> QED  BY <1>0, <1>3, <2>1, <2>3, <2>6, <2>7, OneReadRight DEF in
<1>9. CASE op.extend = "Repeat"
  <2>1. Reads(op, out, in, i, j) = One(<<u % W, v % H>>)
    BY <1>5, <1>9
  <2>2. /\ u % W \in Int /\ v % H \in Int
        /\ 0 <= u % W /\ u % W < W /\ 0 <= v % H /\ v % H < H
    BY <1>0, Division
  <2> DEFINE a == u % W
             b == v % H
  <2>3. a \in Int /\ b \in Int /\ 0 <= a /\ a < W /\ 0 <= b /\ b < H
    BY <2>2
  <2> HIDE DEF a, b
  <2>4. in.x + a = a /\ in.y + b = b /\ a \in 0 .. in.width - 1 /\ b \in 0 .. in.height - 1
    BY <1>0, <1>1, <1>9, <2>3 DEF Region
  <2>5. Reads(op, out, in, i, j) = One(<<a, b>>) /\ Shown(op, x, y) = One(SourcePixel(op, 0, a, b))
    BY <1>6, <1>9, <2>1 DEF a, b
  <2> QED  BY <1>0, <1>3, <2>3, <2>4, <2>5, OneReadRight DEF in
<1>10. CASE op.extend = "Mirror"
  <2> DEFINE a == MirrorCoord(u, W)
             b == MirrorCoord(v, H)
  <2>1. Reads(op, out, in, i, j) = One(<<a, b>>)
    BY <1>5, <1>10
  <2>2. a \in 0 .. W - 1 /\ b \in 0 .. H - 1 /\ Mirrored(u, W) = a /\ Mirrored(v, H) = b
    BY <1>0, MirrorShown
  <2> HIDE DEF a, b
  <2>3. Shown(op, x, y) = One(SourcePixel(op, 0, a, b))
    BY <1>6, <1>10, <2>2
  <2>4. /\ in.x + a = a /\ in.y + b = b /\ a \in 0 .. in.width - 1 /\ b \in 0 .. in.height - 1
        /\ a \in Int /\ b \in Int
    BY <1>0, <1>1, <1>10, <2>2 DEF Region
  <2> QED  BY <1>0, <1>3, <2>1, <2>3, <2>4, OneReadRight DEF in
<1> QED  BY <1>0, <1>7, <1>8, <1>9, <1>10

-----------------------------------------------------------------------------
(* Repetitions.                                                            *)

\* A turn of the image by a displacement of either sign.
LEMMA WrapShown ==
    ASSUME NEW d \in Int, NEW size \in Nat \ {0}, NEW n \in Int
    PROVE  (WrapOffset(d, size) + n) % size = (n - d) % size
<1>1. CASE d < 0
  <2>1. /\ (-d) \div size \in Int /\ (-d) % size \in Int
        /\ -d = size * ((-d) \div size) + ((-d) % size)
    BY Division
  <2> DEFINE q == (-d) \div size
             r == (-d) % size
  <2>2. q \in Int /\ r \in Int /\ -d = size * q + r /\ WrapOffset(d, size) = r
    BY <1>1, <2>1 DEF WrapOffset
  <2> HIDE DEF q, r
  <2> DEFINE a == n - d
             b == r + n
  <2>3. a \in Int /\ b \in Int /\ a = b + q * size
    BY <2>2
  <2> HIDE DEF a, b
  <2>4. (b + q * size) % size = b % size
    BY <2>2, <2>3, SameRemainder, Zenon
  <2> QED  BY <2>2, <2>3, <2>4 DEF a, b
<1>2. CASE ~(d < 0)
  <2>1. /\ d \div size \in Int /\ d % size \in Int /\ d = size * (d \div size) + (d % size)
    BY Division
  <2> DEFINE q == d \div size
             r == d % size
  <2>2. q \in Int /\ r \in Int /\ d = size * q + r /\ WrapOffset(d, size) = size - r
    BY <1>2, <2>1 DEF WrapOffset
  <2> HIDE DEF q, r
  <2> DEFINE a == size - r + n
             b == n - d
             k == q + 1
  <2>3. a \in Int /\ b \in Int /\ k \in Int /\ a = b + k * size
    BY <2>2
  <2> HIDE DEF a, b, k
  <2>4. (b + k * size) % size = b % size
    BY <2>2, <2>3, SameRemainder, Zenon
  <2> QED  BY <2>2, <2>3, <2>4 DEF a, b
<1> QED  BY <1>1, <1>2

\* The image repeated, from its corner or from anywhere.
LEMMA RepetitionsRight ==
    ASSUME NEW op, WellFormed(op), NEW out \in Areas, op.kind \in {"Replicate", "Wrap"},
           NEW i \in 0 .. out.width - 1, NEW j \in 0 .. out.height - 1
    PROVE  PixelRight(op, out, i, j)
<1> DEFINE in == RequiredInput(op, out, 0)
           W  == op.source[0].width
           H  == op.source[0].height
           x  == out.x + i
           y  == out.y + j
           d  == IF op.kind = "Wrap" THEN op.at[1] ELSE 0
           e  == IF op.kind = "Wrap" THEN op.at[2] ELSE 0
           u  == (x - d) % W
           v  == (y - e) % H
<1>0. /\ d \in Int /\ e \in Int /\ W \in Nat \ {0} /\ H \in Nat \ {0}
      /\ op.kind \notin {"Insert", "Join"} /\ x \in Int /\ y \in Int /\ x - d \in Int /\ y - e \in Int
      /\ i \in Int /\ j \in Int /\ out.x \in Int /\ out.y \in Int
  BY DEF WellFormed, Areas, Slots
<1>1. in = Region(0, 0, W, H)
  BY DEF RequiredInput, WholeOf
<1>2. Shown(op, x, y) = One(SourcePixel(op, 0, u, v))
  <2>1. CASE op.kind = "Replicate"
    <3>1. Shown(op, x, y) = One(SourcePixel(op, 0, x % W, y % H))
      BY <2>1 DEF Shown
    <3> QED  BY <1>0, <2>1, <3>1
  <2>2. CASE op.kind = "Wrap"
    <3>1. Shown(op, x, y) = One(SourcePixel(op, 0, (x - op.at[1]) % W, (y - op.at[2]) % H))
      BY <2>2 DEF Shown
    <3> QED  BY <1>0, <2>2, <3>1
  <2> QED  BY <2>1, <2>2
<1>3. Reads(op, out, in, i, j) = One(<<u, v>>)
  <2>1. CASE op.kind = "Replicate"
    <3>1. Reads(op, out, in, i, j) = One(<<x % W, y % H>>)
      BY <2>1 DEF Reads, ReplicateRead
    <3> QED  BY <1>0, <2>1, <3>1
  <2>2. CASE op.kind = "Wrap"
    <3>1. Reads(op, out, in, i, j) = One(WrapRead(op, out, i, j))
      BY <2>2 DEF Reads
    <3>2. /\ WrapOffset(d, W) \in Int /\ WrapOffset(e, H) \in Int
          /\ WrapOffset(d, W) = WrapOffset(op.at[1], W) /\ WrapOffset(e, H) = WrapOffset(op.at[2], H)
      <4>1. d = op.at[1] /\ e = op.at[2]
        BY <2>2
      <4> HIDE DEF d, e, W, H
      <4>2. WrapOffset(d, W) \in Int
        BY <1>0, Division DEF WrapOffset
      <4>3. WrapOffset(e, H) \in Int
        BY <1>0, Division DEF WrapOffset
      <4> QED  BY <4>1, <4>2, <4>3
    <3>3. WrapRead(op, out, i, j) = <<(WrapOffset(d, W) + x) % W, (WrapOffset(e, H) + y) % H>>
      <4>1. /\ WrapOffset(d, W) + out.x + i = WrapOffset(d, W) + x
            /\ WrapOffset(e, H) + out.y + j = WrapOffset(e, H) + y
        BY <1>0, <3>2
      <4>2. WrapRead(op, out, i, j) =
                <<(WrapOffset(op.at[1], W) + out.x + i) % W, (WrapOffset(op.at[2], H) + out.y + j) % H>>
        BY Zenon DEF WrapRead
      <4> HIDE DEF d, e, x, y, W, H
      <4>3. /\ WrapOffset(op.at[1], W) + out.x + i = WrapOffset(d, W) + x
            /\ WrapOffset(op.at[2], H) + out.y + j = WrapOffset(e, H) + y
        BY <3>2, <4>1
      <4> QED  BY <4>2, <4>3
    <3>4. (WrapOffset(d, W) + x) % W = u /\ (WrapOffset(e, H) + y) % H = v
      BY <1>0, WrapShown
    <3> QED  BY <3>1, <3>3, <3>4
  <2> QED  BY <2>1, <2>2
<1>4. u \in Int /\ v \in Int /\ 0 <= u /\ u < W /\ 0 <= v /\ v < H
  BY <1>0, Division
<1>5. x = out.x + i /\ y = out.y + j
  OBVIOUS
<1> HIDE DEF u, v, x, y, in
<1>6. in.x + u = u /\ in.y + v = v /\ u \in 0 .. in.width - 1 /\ v \in 0 .. in.height - 1
  BY <1>0, <1>1, <1>4 DEF Region
<1> QED  BY <1>0, <1>2, <1>3, <1>4, <1>5, <1>6, OneReadRight DEF in

\* Columns of frames as rows of them: the frame that a pixel lies in is found back.
LEMMA GridRight ==
    ASSUME NEW op, WellFormed(op), NEW out \in Areas, op.kind = "Grid", MayBeAsked(op, out),
           NEW i \in 0 .. out.width - 1, NEW j \in 0 .. out.height - 1
    PROVE  PixelRight(op, out, i, j)
<1> DEFINE in     == RequiredInput(op, out, 0)
           W      == op.source[0].width
           H      == op.source[0].height
           across == op.by[1]
           h      == op.by[2]
           x      == out.x + i
           y      == out.y + j
           col    == x \div W
           row    == y \div h
           u      == x % W
           v      == y % h
           frame  == row * across + col
           count  == H \div h
<1>0. /\ W \in Nat \ {0} /\ H \in Nat \ {0} /\ across \in Nat \ {0} /\ h \in Nat \ {0}
      /\ op.kind \notin {"Insert", "Join"} /\ x \in Nat /\ y \in Nat /\ i \in Int /\ j \in Int
      /\ op.size.width = W * across /\ H % h = 0 /\ x < W * across
  BY DEF WellFormed, Areas, Slots, MayBeAsked, InBounds
<1>1. in = Region(0, 0, W, H)
  BY DEF RequiredInput, WholeOf
<1>2. /\ Reads(op, out, in, i, j) =
            IF frame >= DivCeil(H, h) THEN Fill ELSE One(<<u, frame * h + v>>)
      /\ Shown(op, x, y) =
            IF GridCell(op, x, y) = {} THEN Fill
            ELSE LET f == CHOOSE f \in GridCell(op, x, y) : TRUE
                 IN  One(SourcePixel(op, 0, x - (f % across) * W, y + (f - f \div across) * h))
  <2>1. Reads(op, out, in, i, j) = GridReads(op, out, i, j)
    BY DEF Reads
  <2>2. GridReads(op, out, i, j) = IF frame >= DivCeil(H, h) THEN Fill ELSE One(<<u, frame * h + v>>)
    BY Zenon DEF GridReads
  <2>3. Shown(op, x, y) =
            IF GridCell(op, x, y) = {} THEN Fill
            ELSE LET f == CHOOSE f \in GridCell(op, x, y) : TRUE
                 IN  One(SourcePixel(op, 0, x - (f % across) * W, y + (f - f \div across) * h))
    BY DEF Shown
  <2> QED  BY <2>1, <2>2, <2>3
<1>3. GridCell(op, x, y) =
          { f \in 0 .. count - 1 : /\ x - (f % across) * W \in 0 .. W - 1
                                   /\ y - (f \div across) * h \in 0 .. h - 1 }
  BY DEF GridCell
<1>4. x = out.x + i /\ y = out.y + j
  OBVIOUS
<1>5. /\ col \in Int /\ u \in Int /\ x = W * col + u /\ 0 <= u /\ u < W
      /\ row \in Int /\ v \in Int /\ y = h * row + v /\ 0 <= v /\ v < h
      /\ count \in Int /\ H = h * count
  <2> HIDE DEF x, y, W, H, h
  <2>1. /\ x \div W \in Int /\ x % W \in Int /\ x = W * (x \div W) + (x % W) /\ 0 <= (x % W) /\ (x % W) < W
    BY <1>0, Division
  <2>2. /\ y \div h \in Int /\ y % h \in Int /\ y = h * (y \div h) + (y % h) /\ 0 <= (y % h) /\ (y % h) < h
    BY <1>0, Division
  <2>3. H \div h \in Int /\ H = h * (H \div h) + (H % h)
    BY <1>0, Division
  <2> QED  BY <1>0, <2>1, <2>2, <2>3
<1> HIDE DEF in, W, H, across, h, x, y, col, row, u, v, count
<1>6. /\ 0 <= col /\ col < across /\ 0 <= row
      /\ W * col = col * W /\ h * row = row * h /\ h * count = count * h
  <2>1. /\ W * col = col * W /\ h * row = row * h /\ h * count = count * h /\ W * across = across * W
        /\ (col + 1) * W = col * W + W /\ (row + 1) * h = row * h + h
    BY <1>0, <1>5, Factors
  <2>2. 0 * W < (col + 1) * W /\ col * W < across * W /\ 0 * h < (row + 1) * h
    BY <1>0, <1>5, <2>1
  <2>3. 0 < col + 1 /\ col < across /\ 0 < row + 1
    BY <1>0, <1>5, <2>2, Factors
  <2> QED  BY <1>5, <2>1, <2>3
<1>7. DivCeil(H, h) = count
  <2>1. H + h - 1 = count * h + (h - 1) /\ H + h - 1 \in Int /\ h - 1 \in 0 .. h - 1
    BY <1>0, <1>5, <1>6
  <2>2. (count * h + (h - 1)) \div h = count
    <3>1. h \in Nat \ {0} /\ count \in Int /\ h - 1 \in 0 .. h - 1
      BY <1>0, <1>5
    <3> QED  BY <3>1, RemainderOf, Zenon
  <2> QED  BY <2>1, <2>2 DEF DivCeil
<1>8. /\ frame \in Nat /\ frame % across = col /\ frame \div across = row
  <2>1. row * across \in Nat /\ frame = row * across + col /\ col \in 0 .. across - 1
    BY <1>0, <1>5, <1>6
  <2>2. frame \in Nat
    BY <1>5, <1>6, <2>1
  <2>3. (row * across + col) \div across = row /\ (row * across + col) % across = col
    BY <1>0, <1>5, <2>1, RemainderOf, Zenon
  <2> QED  BY <2>2, <2>3
<1> HIDE DEF frame
<1>9. ASSUME NEW f \in GridCell(op, x, y) PROVE f = frame
  <2>1. /\ f \in 0 .. count - 1 /\ x - (f % across) * W \in 0 .. W - 1 /\ y - (f \div across) * h \in 0 .. h - 1
    BY <1>3, <1>9
  <2>2. /\ f \in Int /\ f % across \in Int /\ f \div across \in Int /\ f = across * (f \div across) + (f % across)
    BY <1>0, <1>5, <2>1, Division
  <2> DEFINE c == f % across
             r == f \div across
  <2>3. /\ f \in Int /\ c \in Int /\ r \in Int /\ f = across * r + c
        /\ x - c * W \in 0 .. W - 1 /\ y - r * h \in 0 .. h - 1
    BY <2>1, <2>2
  <2> HIDE DEF c, r
  <2>4. x = c * W + (x - c * W) /\ y = r * h + (y - r * h) /\ x \in Int /\ y \in Int
    BY <1>0, <2>3
  <2>5. x \div W = c
    <3>1. (c * W + (x - c * W)) \div W = c
      <4>1. W \in Nat \ {0} /\ c \in Int /\ x - c * W \in 0 .. W - 1
        BY <1>0, <2>3
      <4> QED  BY <4>1, RemainderOf, Zenon
    <3> QED  BY <2>4, <3>1
  <2>6. y \div h = r
    <3>1. (r * h + (y - r * h)) \div h = r
      <4>1. h \in Nat \ {0} /\ r \in Int /\ y - r * h \in 0 .. h - 1
        BY <1>0, <2>3
      <4> QED  BY <4>1, RemainderOf, Zenon
    <3> QED  BY <2>4, <3>1
  <2>7. c = col /\ r = row
    BY <2>5, <2>6 DEF col, row
  <2> QED  BY <1>0, <1>5, <2>3, <2>7 DEF frame
<1>10. CASE frame >= count
  <2>1. GridCell(op, x, y) = {}
    <3> SUFFICES ASSUME NEW f \in GridCell(op, x, y) PROVE FALSE
      OBVIOUS
    <3>1. f = frame /\ f \in 0 .. count - 1
      BY <1>3, <1>9
    <3> QED  BY <1>5, <1>10, <3>1
  <2> QED  BY <1>0, <1>2, <1>4, <1>7, <1>10, <2>1, NoReadRight DEF in
<1>11. CASE frame < count
  <2>1. frame \in GridCell(op, x, y)
    <3>1. /\ frame \in 0 .. count - 1 /\ x - col * W \in 0 .. W - 1 /\ y - row * h \in 0 .. h - 1
      BY <1>0, <1>5, <1>6, <1>8, <1>11
    <3> QED  BY <1>3, <1>8, <3>1
  <2>2. (CHOOSE f \in GridCell(op, x, y) : TRUE) = frame
    BY <1>9, <2>1
  <2>3. /\ x - col * W = u /\ y + (frame - row) * h = frame * h + v
    BY <1>0, <1>5, <1>6, <1>8
  <2> DEFINE n == frame * h + v
  <2>4. Shown(op, x, y) = One(SourcePixel(op, 0, u, n)) /\ Reads(op, out, in, i, j) = One(<<u, n>>)
    <3>1. Shown(op, x, y) = One(SourcePixel(op, 0, x - (frame % across) * W,
                                                y + (frame - frame \div across) * h))
      BY <1>2, <2>1, <2>2
    <3>2. Shown(op, x, y) = One(SourcePixel(op, 0, u, n))
      BY <1>8, <2>3, <3>1
    <3>3. ~(frame >= count)
      BY <1>5, <1>8, <1>11
    <3>4. Reads(op, out, in, i, j) = One(<<u, n>>)
      BY <1>2, <1>7, <3>3
    <3> QED  BY <3>2, <3>4
  <2>5. n \in Int /\ 0 <= n /\ n < H
    <3>1. (frame + 1) * h = frame * h + h /\ frame + 1 \in Int /\ frame \in Int
      BY <1>0, <1>8, Factors
    <3>2. (frame + 1) * h <= count * h
      BY <1>0, <1>5, <1>11, <3>1, Factors
    <3>3. 0 <= frame * h /\ frame * h \in Int
      BY <1>0, <1>8
    <3> QED  BY <1>5, <1>6, <1>0, <3>1, <3>2, <3>3
  <2> HIDE DEF n
  <2>6. in.x + u = u /\ in.y + n = n /\ u \in 0 .. in.width - 1 /\ n \in 0 .. in.height - 1
    BY <1>0, <1>1, <1>5, <2>5 DEF Region
  <2> QED  BY <1>0, <1>4, <1>5, <2>4, <2>5, <2>6, OneReadRight DEF in
<1> QED  BY <1>5, <1>8, <1>10, <1>11

-----------------------------------------------------------------------------
(* Changes of size, and neighbourhoods.                                    *)

\* Rounding down keeps an order.
LEMMA DivisionOrder ==
    ASSUME NEW a \in Int, NEW b \in Int, NEW m \in Nat \ {0}, a <= b
    PROVE  a \div m \in Int /\ b \div m \in Int /\ a \div m <= b \div m
<1> DEFINE p == a \div m
           q == b \div m
           r == a % m
           s == b % m
<1>1. p \in Int /\ r \in Int /\ a = m * p + r /\ 0 <= r /\ r < m
  BY Division
<1>2. q \in Int /\ s \in Int /\ b = m * q + s /\ 0 <= s /\ s < m
  BY Division
<1> HIDE DEF p, q, r, s
<1>3. p * m = m * p /\ q * m = m * q /\ (q + 1) * m = q * m + m /\ p * m \in Int /\ q * m \in Int
  BY <1>1, <1>2, Factors
<1>4. p * m < (q + 1) * m
  BY <1>1, <1>2, <1>3
<1>5. p < q + 1
  BY <1>1, <1>2, <1>4, Factors
<1>6. p <= q
  BY <1>1, <1>2, <1>5
<1> QED  BY <1>1, <1>2, <1>6 DEF p, q

\* A multiple added before a division is added after it.
LEMMA DivisionShift ==
    ASSUME NEW m \in Nat \ {0}, NEW k \in Int, NEW i \in Int
    PROVE  (k * m + i) \div m = k + i \div m
<1> DEFINE q == i \div m
           r == i % m
           n == k + q
<1>1. q \in Int /\ r \in Int /\ i = m * q + r /\ 0 <= r /\ r < m
  BY Division
<1>2. n \in Int /\ r \in 0 .. m - 1 /\ n = k + q
  BY <1>1
<1> HIDE DEF q, r, n
<1>3. k * m + i = n * m + r
  BY <1>1, <1>2
<1>4. (n * m + r) \div m = n
  BY <1>2, RemainderOf, Zenon
<1> QED  BY <1>2, <1>3, <1>4 DEF q

\* On one axis: the pixels of the input that a zoom by m asks for, for the
\* pixels from o to o + w - 1, are those that it reads.
LEMMA ZoomAxis ==
    ASSUME NEW m \in Nat \ {0}, NEW o \in Int, NEW w \in Nat \ {0}, NEW i \in 0 .. w - 1
    PROVE  LET left == o \div m
               span == (o + w - 1) \div m - left + 1
           IN  /\ left \in Int /\ span \in Int /\ (o + i) \div m \in Int
               /\ (o + i) \div m - left \in 0 .. span - 1
               /\ o % m = 0 => o \div m - left + i \div m = (o + i) \div m - left
<1> DEFINE left == o \div m
           last == (o + w - 1) \div m
           here == (o + i) \div m
<1>1. /\ o \in Int /\ o + i \in Int /\ o + w - 1 \in Int /\ o <= o + i /\ o + i <= o + w - 1 /\ i \in Int
  OBVIOUS
<1>2. left \in Int /\ here \in Int /\ left <= here
  BY <1>1, DivisionOrder
<1>3. last \in Int /\ here <= last
  BY <1>1, DivisionOrder
<1>4. o % m = 0 => left - left + i \div m = here - left
  <2>1. SUFFICES ASSUME o % m = 0 PROVE left - left + i \div m = here - left
    OBVIOUS
  <2> DEFINE r == o % m
  <2>2. o = m * left + r /\ i \div m \in Int /\ r = 0
    BY <1>1, <2>1, Division
  <2> HIDE DEF left, r
  <2>3. o + i = left * m + i
    BY <1>1, <1>2, <2>2
  <2>4. (left * m + i) \div m = left + i \div m
    BY <1>1, <1>2, DivisionShift, Zenon
  <2>5. here = left + i \div m
    BY <2>3, <2>4, Zenon
  <2> QED  BY <1>2, <2>2, <2>5
<1> HIDE DEF left, last, here
<1>5. here - left \in 0 .. (last - left + 1) - 1 /\ last - left + 1 \in Int
  BY <1>2, <1>3
<1> QED  BY <1>2, <1>4, <1>5 DEF left, last, here

\* A zoom reads the pixel that it repeats.
LEMMA ZoomRight ==
    ASSUME NEW op, WellFormed(op), NEW out \in Areas, op.kind = "Zoom", MayBeAsked(op, out),
           NEW i \in 0 .. out.width - 1, NEW j \in 0 .. out.height - 1
    PROVE  PixelRight(op, out, i, j)
<1> DEFINE in == RequiredInput(op, out, 0)
           b  == op.by[1]
           c  == op.by[2]
           x  == out.x + i
           y  == out.y + j
           left == out.x \div b
           top  == out.y \div c
           u  == x \div b - left
           v  == y \div c - top
<1>0. /\ b \in Nat \ {0} /\ c \in Nat \ {0} /\ op.kind \notin {"Insert", "Join"}
      /\ out.x \in Int /\ out.y \in Int /\ out.width \in Nat \ {0} /\ out.height \in Nat \ {0}
      /\ i \in 0 .. out.width - 1 /\ j \in 0 .. out.height - 1
  BY DEF WellFormed, Areas
<1>1. in = Region(left, top, (out.x + out.width - 1) \div b - left + 1,
                  (out.y + out.height - 1) \div c - top + 1)
  BY DEF RequiredInput, ZoomInput
<1>2. Reads(op, out, in, i, j) = One(ZoomRead(op, out, in, i, j))
  BY DEF Reads
<1>3. Shown(op, x, y) = One(SourcePixel(op, 0, x \div b, y \div c))
  BY DEF Shown
<1>4. /\ left \in Int /\ (out.x + out.width - 1) \div b - left + 1 \in Int /\ x \div b \in Int
      /\ u \in 0 .. ((out.x + out.width - 1) \div b - left + 1) - 1
      /\ out.x % b = 0 => out.x \div b - left + i \div b = u
  BY <1>0, ZoomAxis
<1>5. /\ top \in Int /\ (out.y + out.height - 1) \div c - top + 1 \in Int /\ y \div c \in Int
      /\ v \in 0 .. ((out.y + out.height - 1) \div c - top + 1) - 1
      /\ out.y % c = 0 => out.y \div c - top + j \div c = v
  BY <1>0, ZoomAxis
<1>6. in.x = left /\ in.y = top /\ u \in 0 .. in.width - 1 /\ v \in 0 .. in.height - 1
  BY <1>1, <1>4, <1>5 DEF Region
<1>7. ZoomRead(op, out, in, i, j) = <<u, v>>
  <2>1. CASE WholeAligned(op, out)
    <3>1. ZoomRead(op, out, in, i, j) =
              <<out.x \div b - in.x + i \div b, out.y \div c - in.y + j \div c>>
      BY <2>1, Zenon DEF ZoomRead, ZoomWholeRead
    <3>2. out.x % b = 0 /\ out.y % c = 0
      BY <2>1 DEF WholeAligned
    <3> QED  BY <1>4, <1>5, <1>6, <3>1, <3>2
  <2>2. CASE ~WholeAligned(op, out)
    <3>1. ZoomRead(op, out, in, i, j) = <<(out.x + i) \div b - in.x, (out.y + j) \div c - in.y>>
      BY <2>2, Zenon DEF ZoomRead, ZoomPartialRead
    <3> QED  BY <1>6, <3>1
  <2> QED  BY <2>1, <2>2
<1>8. x = out.x + i /\ y = out.y + j
  OBVIOUS
<1>9. u = x \div b - left /\ v = y \div c - top
  OBVIOUS
<1> HIDE DEF in, u, v, left, top
<1>10. u \in Int /\ v \in Int /\ in.x + u = x \div b /\ in.y + v = y \div c
  BY <1>4, <1>5, <1>6, <1>9
<1> HIDE DEF x, y
<1> QED  BY <1>0, <1>2, <1>3, <1>6, <1>7, <1>8, <1>10, OneReadRight DEF in

\* A sampled pixel is the first of its block.
LEMMA SubsampleRight ==
    ASSUME NEW op, WellFormed(op), NEW out \in Areas, op.kind = "Subsample",
           NEW i \in 0 .. out.width - 1, NEW j \in 0 .. out.height - 1
    PROVE  PixelRight(op, out, i, j)
<1> DEFINE in == RequiredInput(op, out, 0)
           b  == op.by[1]
           c  == op.by[2]
           u  == i * b
           v  == j * c
<1>0. /\ b \in Nat \ {0} /\ c \in Nat \ {0} /\ op.kind \notin {"Insert", "Join"}
      /\ out.x \in Int /\ out.y \in Int /\ out.width \in Nat \ {0} /\ out.height \in Nat \ {0}
      /\ i \in 0 .. out.width - 1 /\ j \in 0 .. out.height - 1
  BY DEF WellFormed, Areas
<1>1. in = Region(out.x * b, out.y * c, out.width * b - (b - 1), out.height * c - (c - 1))
  BY DEF RequiredInput, SubsampleInput
<1>2. Reads(op, out, in, i, j) = One(<<u, v>>)
  BY DEF Reads, SubsampleRead
<1>3. Shown(op, out.x + i, out.y + j) = One(SourcePixel(op, 0, (out.x + i) * b, (out.y + j) * c))
  BY DEF Shown
<1>4. /\ u \in Int /\ 0 <= u /\ u < out.width * b - (b - 1)
      /\ (out.x + i) * b = out.x * b + u /\ out.width * b \in Int /\ out.x * b \in Int
  <2>1. (out.width - 1) * b = out.width * b - b /\ (out.x + i) * b = out.x * b + i * b
    BY <1>0
  <2>2. i * b <= (out.width - 1) * b /\ 0 <= i * b
    BY <1>0, Products
  <2> QED  BY <1>0, <2>1, <2>2
<1>5. /\ v \in Int /\ 0 <= v /\ v < out.height * c - (c - 1)
      /\ (out.y + j) * c = out.y * c + v /\ out.height * c \in Int /\ out.y * c \in Int
  <2>1. (out.height - 1) * c = out.height * c - c /\ (out.y + j) * c = out.y * c + j * c
    BY <1>0
  <2>2. j * c <= (out.height - 1) * c /\ 0 <= j * c
    BY <1>0, Products
  <2> QED  BY <1>0, <2>1, <2>2
<1>6. u \in 0 .. in.width - 1 /\ v \in 0 .. in.height - 1 /\ in.x = out.x * b /\ in.y = out.y * c
  BY <1>0, <1>1, <1>4, <1>5 DEF Region
<1>7. Shown(op, out.x + i, out.y + j) = One(SourcePixel(op, 0, in.x + u, in.y + v))
  BY <1>3, <1>4, <1>5, <1>6
<1> HIDE DEF u, v
<1> QED  BY <1>0, <1>2, <1>4, <1>5, <1>6, <1>7, OneReadRight

\* An operation with one input, and any taps.
LEMMA ManyReads ==
    ASSUME NEW op, NEW out, NEW i, NEW j, op.kind \notin {"Insert", "Join"}
    PROVE  LET in == RequiredInput(op, out, 0)
               f  == Reads(op, out, in, i, j)
           IN  /\ ReadsInside(op, out, i, j) <=> \A tap \in DOMAIN f : InRegion(in, f[tap])
               /\ MadeFrom(op, out, i, j) =
                     [tap \in DOMAIN f |-> SourcePixel(op, 0, in.x + f[tap][1], in.y + f[tap][2])]
<1> DEFINE in    == RequiredInput(op, out, 0)
           f     == Reads(op, out, in, i, j)
           reads == SlotReads(op, out, i, j)
<1>1. reads = [tap \in DOMAIN f |-> <<0, f[tap]>>]
  BY DEF SlotReads
<1> HIDE DEF reads, f
<1>2. DOMAIN reads = DOMAIN f /\ \A tap \in DOMAIN f : reads[tap][1] = 0 /\ reads[tap][2] = f[tap]
  BY <1>1
<1>3. ReadsInside(op, out, i, j) <=> \A tap \in DOMAIN f : InRegion(in, f[tap])
  BY <1>2 DEF ReadsInside, reads
<1>4. MadeFrom(op, out, i, j) =
          [tap \in DOMAIN f |-> SourcePixel(op, 0, in.x + f[tap][1], in.y + f[tap][2])]
  <2> DEFINE g == [tap \in DOMAIN reads |->
                     SourcePixel(op, reads[tap][1], RequiredInput(op, out, reads[tap][1]).x + reads[tap][2][1],
                                 RequiredInput(op, out, reads[tap][1]).y + reads[tap][2][2])]
             h == [tap \in DOMAIN f |-> SourcePixel(op, 0, in.x + f[tap][1], in.y + f[tap][2])]
  <2>1. MadeFrom(op, out, i, j) = g
    BY Zenon DEF MadeFrom, reads
  <2>2. DOMAIN g = DOMAIN f /\ \A tap \in DOMAIN f : g[tap] = h[tap]
    BY <1>2
  <2>3. g = h
    BY <2>2
  <2> QED  BY <2>1, <2>3
<1> QED  BY <1>3, <1>4 DEF f

\* Shrinking by whole factors reads the pixels of one block.
LEMMA ShrinkHRight ==
    ASSUME NEW op, WellFormed(op), NEW out \in Areas, op.kind = "ShrinkH",
           NEW i \in 0 .. out.width - 1, NEW j \in 0 .. out.height - 1
    PROVE  PixelRight(op, out, i, j)
<1> DEFINE in == RequiredInput(op, out, 0)
           f  == Reads(op, out, in, i, j)
           b  == op.by[1]
           x  == out.x + i
           y  == out.y + j
           T  == (0 .. b - 1) \X {0}
           g  == [tap \in T |-> SourcePixel(op, 0, x * b + tap[1], y)]
           h  == [tap \in T |-> SourcePixel(op, 0, in.x + f[tap][1], in.y + f[tap][2])]
<1>0. /\ b \in Nat \ {0} /\ op.at[1] \in Int /\ op.kind \notin {"Insert", "Join"}
      /\ out.x \in Int /\ out.y \in Int /\ out.width \in Nat \ {0} /\ out.height \in Nat \ {0}
      /\ i \in 0 .. out.width - 1 /\ j \in 0 .. out.height - 1
  BY DEF WellFormed, Areas
<1>1. in = IF op.at[1] > 0 /\ out.x = 0 /\ out.width * b <= op.at[1]
           THEN Region(0, out.y, op.at[1], out.height)
           ELSE Region(out.x * b, out.y, out.width * b, out.height)
  BY DEF RequiredInput, ShrinkHInput
<1>2. f = [tap \in T |-> <<i * b + tap[1], j>>]
  BY DEF Reads, ShrinkHReads
<1>3. Shown(op, x, y) = g
  BY DEF Shown
<1>4. /\ in.x \in Int /\ in.x = out.x * b /\ in.y = out.y /\ in.height = out.height
      /\ in.width \in Int /\ out.width * b <= in.width
  <2> HIDE DEF in
  <2>1. out.width * b \in Int /\ out.x * b \in Int
    BY <1>0
  <2>2. CASE op.at[1] > 0 /\ out.x = 0 /\ out.width * b <= op.at[1]
    <3>1. in = Region(0, out.y, op.at[1], out.height) /\ out.x * b = 0
      BY <1>0, <1>1, <2>2
    <3> QED  BY <1>0, <2>1, <2>2, <3>1 DEF Region
  <2>3. CASE ~(op.at[1] > 0 /\ out.x = 0 /\ out.width * b <= op.at[1])
    <3>1. in = Region(out.x * b, out.y, out.width * b, out.height)
      BY <1>1, <2>3
    <3> QED  BY <1>0, <2>1, <3>1 DEF Region
  <2> QED  BY <2>2, <2>3
<1>5. x * b = out.x * b + i * b /\ i * b \in Int /\ 0 <= i * b /\ i * b + b <= out.width * b
  <2>1. (i + 1) * b <= out.width * b /\ (i + 1) * b = i * b + b /\ x * b = out.x * b + i * b
    BY <1>0, Products
  <2> QED  BY <1>0, <2>1
<1> DEFINE ib == i * b
           xb == x * b
           ob == out.x * b
<1>6. /\ f = [tap \in T |-> <<ib + tap[1], j>>]
      /\ g = [tap \in T |-> SourcePixel(op, 0, xb + tap[1], y)]
      /\ in.x = ob /\ xb = ob + ib /\ ib \in Int /\ ob \in Int /\ 0 <= ib /\ ib + b <= in.width
  BY <1>0, <1>2, <1>4, <1>5
<1>7. x = out.x + i /\ y = out.y + j
  OBVIOUS
<1> HIDE DEF in, f, g, h, ib, xb, ob, x, y
<1>8. DOMAIN f = T /\ \A tap \in T : tap[1] \in 0 .. b - 1 /\ f[tap] = <<ib + tap[1], j>>
  BY <1>6
<1>9. \A tap \in DOMAIN f : InRegion(in, f[tap])
  BY <1>0, <1>4, <1>6, <1>8 DEF InRegion
<1>10. h = g
  <2>1. DOMAIN h = T /\ DOMAIN g = T
    BY <1>6 DEF h
  <2>2. ASSUME NEW tap \in T PROVE h[tap] = g[tap]
    <3>1. h[tap] = SourcePixel(op, 0, in.x + (ib + tap[1]), in.y + j)
      BY <1>8 DEF h
    <3>2. g[tap] = SourcePixel(op, 0, xb + tap[1], y)
      BY <1>6
    <3>3. in.x + (ib + tap[1]) = xb + tap[1] /\ in.y + j = y
      BY <1>0, <1>4, <1>6, <1>7, <1>8
    <3> QED  BY <3>1, <3>2, <3>3
  <2> QED  BY <1>6, <2>1, <2>2 DEF h
<1>11. MadeFrom(op, out, i, j) = h /\ ReadsInside(op, out, i, j)
  BY <1>0, <1>8, <1>9, ManyReads DEF h, f, in
<1> QED  BY <1>3, <1>7, <1>10, <1>11 DEF PixelRight

LEMMA ShrinkVRight ==
    ASSUME NEW op, WellFormed(op), NEW out \in Areas, op.kind = "ShrinkV",
           NEW i \in 0 .. out.width - 1, NEW j \in 0 .. out.height - 1
    PROVE  PixelRight(op, out, i, j)
<1> DEFINE in == RequiredInput(op, out, 0)
           f  == Reads(op, out, in, i, j)
           b  == op.by[2]
           x  == out.x + i
           y  == out.y + j
           T  == {0} \X (0 .. b - 1)
           g  == [tap \in T |-> SourcePixel(op, 0, x, y * b + tap[2])]
           h  == [tap \in T |-> SourcePixel(op, 0, in.x + f[tap][1], in.y + f[tap][2])]
           jb == j * b
           yb == y * b
           ob == out.y * b
<1>0. /\ b \in Nat \ {0} /\ op.kind \notin {"Insert", "Join"}
      /\ out.x \in Int /\ out.y \in Int /\ out.width \in Nat \ {0} /\ out.height \in Nat \ {0}
      /\ i \in 0 .. out.width - 1 /\ j \in 0 .. out.height - 1
  BY DEF WellFormed, Areas
<1>1. in = Region(out.x, out.y * b, out.width, out.height * b)
  BY DEF RequiredInput, ShrinkVInput
<1>2. f = [tap \in T |-> <<i, jb + tap[2]>>]
  BY DEF Reads, ShrinkVReads
<1>3. Shown(op, x, y) = g
  BY DEF Shown
<1>4. in.x = out.x /\ in.y = ob /\ in.width = out.width /\ in.height = out.height * b
  BY <1>1 DEF Region
<1>5. yb = ob + jb /\ ob \in Int /\ jb \in Int /\ 0 <= jb /\ jb + b <= out.height * b /\ out.height * b \in Int
  <2>1. (j + 1) * b <= out.height * b /\ (j + 1) * b = j * b + b /\ y * b = out.y * b + j * b
    BY <1>0, Products
  <2> QED  BY <1>0, <2>1
<1>6. g = [tap \in T |-> SourcePixel(op, 0, x, yb + tap[2])]
  OBVIOUS
<1>7. x = out.x + i /\ y = out.y + j
  OBVIOUS
<1> HIDE DEF in, f, g, h, jb, yb, ob, x, y
<1>8. DOMAIN f = T /\ \A tap \in T : tap[2] \in 0 .. b - 1 /\ f[tap] = <<i, jb + tap[2]>>
  BY <1>2
<1>9. \A tap \in DOMAIN f : InRegion(in, f[tap])
  BY <1>0, <1>4, <1>5, <1>8 DEF InRegion
<1>10. h = g
  <2>1. DOMAIN h = T /\ DOMAIN g = T
    BY <1>6 DEF h
  <2>2. ASSUME NEW tap \in T PROVE h[tap] = g[tap]
    <3>1. h[tap] = SourcePixel(op, 0, in.x + i, in.y + (jb + tap[2]))
      BY <1>8 DEF h
    <3>2. g[tap] = SourcePixel(op, 0, x, yb + tap[2])
      BY <1>6
    <3>3. in.x + i = x /\ in.y + (jb + tap[2]) = yb + tap[2]
      BY <1>0, <1>4, <1>5, <1>7, <1>8
    <3> QED  BY <3>1, <3>2, <3>3
  <2> QED  BY <1>6, <2>1, <2>2 DEF h
<1>11. MadeFrom(op, out, i, j) = h /\ ReadsInside(op, out, i, j)
  BY <1>0, <1>8, <1>9, ManyReads DEF h, f, in
<1> QED  BY <1>3, <1>7, <1>10, <1>11 DEF PixelRight

\* A convolution reads the pixels under its mask.
LEMMA ConvRight ==
    ASSUME NEW op, WellFormed(op), NEW out \in Areas, op.kind = "Conv2d",
           NEW i \in 0 .. out.width - 1, NEW j \in 0 .. out.height - 1
    PROVE  PixelRight(op, out, i, j)
<1> DEFINE in == RequiredInput(op, out, 0)
           f  == Reads(op, out, in, i, j)
           b  == op.by[1]
           c  == op.by[2]
           s  == b \div 2
           t  == c \div 2
           x  == out.x + i
           y  == out.y + j
           T  == (0 .. b - 1) \X (0 .. c - 1)
           g  == [tap \in T |-> SourcePixel(op, 0, x + tap[1] - s, y + tap[2] - t)]
           h  == [tap \in T |-> SourcePixel(op, 0, in.x + f[tap][1], in.y + f[tap][2])]
<1>0. /\ b \in Nat \ {0} /\ c \in Nat \ {0} /\ op.kind \notin {"Insert", "Join"}
      /\ out.x \in Int /\ out.y \in Int /\ out.width \in Nat \ {0} /\ out.height \in Nat \ {0}
      /\ i \in 0 .. out.width - 1 /\ j \in 0 .. out.height - 1
  BY DEF WellFormed, Areas
<1>1. in = Region(out.x - s, out.y - t, out.width + 2 * s, out.height + 2 * t)
  BY DEF RequiredInput, ConvInput, Grow
<1>2. f = [tap \in T |-> <<i + tap[1], j + tap[2]>>]
  BY DEF Reads, ConvReads
<1>3. Shown(op, x, y) = g
  BY DEF Shown
<1>4. /\ in.x = out.x - s /\ in.y = out.y - t
      /\ in.width = out.width + 2 * s /\ in.height = out.height + 2 * t
  BY <1>1 DEF Region
<1>5. s \in Int /\ t \in Int /\ b - 1 <= 2 * s /\ c - 1 <= 2 * t
  BY <1>0
<1>6. g = [tap \in T |-> SourcePixel(op, 0, x + tap[1] - s, y + tap[2] - t)]
  OBVIOUS
<1>7. x = out.x + i /\ y = out.y + j
  OBVIOUS
<1> HIDE DEF in, f, g, h, s, t, x, y
<1>8. /\ DOMAIN f = T
      /\ \A tap \in T : /\ tap[1] \in 0 .. b - 1 /\ tap[2] \in 0 .. c - 1
                        /\ f[tap] = <<i + tap[1], j + tap[2]>>
  BY <1>2
<1>9. \A tap \in DOMAIN f : InRegion(in, f[tap])
  BY <1>0, <1>4, <1>5, <1>8 DEF InRegion
<1>10. h = g
  <2>1. DOMAIN h = T /\ DOMAIN g = T
    BY <1>6 DEF h
  <2>2. ASSUME NEW tap \in T PROVE h[tap] = g[tap]
    <3>1. h[tap] = SourcePixel(op, 0, in.x + (i + tap[1]), in.y + (j + tap[2]))
      BY <1>8 DEF h
    <3>2. g[tap] = SourcePixel(op, 0, x + tap[1] - s, y + tap[2] - t)
      BY <1>6
    <3>3. in.x + (i + tap[1]) = x + tap[1] - s /\ in.y + (j + tap[2]) = y + tap[2] - t
      BY <1>0, <1>4, <1>5, <1>7, <1>8
    <3> QED  BY <3>1, <3>2, <3>3
  <2> QED  BY <1>6, <2>1, <2>2 DEF h
<1>11. MadeFrom(op, out, i, j) = h /\ ReadsInside(op, out, i, j)
  BY <1>0, <1>8, <1>9, ManyReads DEF h, f, in
<1> QED  BY <1>3, <1>7, <1>10, <1>11 DEF PixelRight

-----------------------------------------------------------------------------
(* Two images on one canvas.                                               *)

\* A pixel of the canvas is found in the part that was asked for of an image
\* exactly if that image lies there, and at the place where it lies.
LEMMA PasteInside ==
    ASSUME NEW p \in Int \X Int, NEW s \in [width : Nat \ {0}, height : Nat \ {0}], NEW out \in Areas,
           NEW i \in 0 .. out.width - 1, NEW j \in 0 .. out.height - 1
    PROVE  LET in == IntersectAndTranslate(out, p, s)
               q  == PastedFrom(out, in, p, i, j)
           IN  /\ InRegion(in, q) <=> /\ out.x + i - p[1] \in 0 .. s.width - 1
                                      /\ out.y + j - p[2] \in 0 .. s.height - 1
               /\ in.x + q[1] = out.x + i - p[1] /\ in.y + q[2] = out.y + j - p[2]
<1> DEFINE in     == IntersectAndTranslate(out, p, s)
           q      == PastedFrom(out, in, p, i, j)
           left   == Greatest(out.x, p[1])
           top    == Greatest(out.y, p[2])
           right  == Least(out.x + out.width, p[1] + s.width)
           bottom == Least(out.y + out.height, p[2] + s.height)
<1>0. /\ out.x \in Int /\ out.y \in Int /\ out.width \in Nat \ {0} /\ out.height \in Nat \ {0}
      /\ p[1] \in Int /\ p[2] \in Int /\ s.width \in Nat \ {0} /\ s.height \in Nat \ {0}
      /\ i \in 0 .. out.width - 1 /\ j \in 0 .. out.height - 1
  BY DEF Areas
<1>1. in = IF right <= left \/ bottom <= top THEN Region(0, 0, 0, 0)
           ELSE Region(left - p[1], top - p[2], right - left, bottom - top)
  BY DEF IntersectAndTranslate
<1>2. /\ left \in Int /\ top \in Int /\ right \in Int /\ bottom \in Int
      /\ left = IF out.x >= p[1] THEN out.x ELSE p[1]
      /\ top = IF out.y >= p[2] THEN out.y ELSE p[2]
      /\ right = IF out.x + out.width <= p[1] + s.width THEN out.x + out.width ELSE p[1] + s.width
      /\ bottom = IF out.y + out.height <= p[2] + s.height THEN out.y + out.height ELSE p[2] + s.height
  BY <1>0 DEF Greatest, Least
<1>3. q = <<i - (p[1] + in.x - out.x), j - (p[2] + in.y - out.y)>>
  BY DEF PastedFrom
<1> HIDE DEF in, q, left, top, right, bottom
<1>4. CASE right <= left \/ bottom <= top
  <2>1. in.x = 0 /\ in.y = 0 /\ in.width = 0 /\ in.height = 0
    BY <1>1, <1>4 DEF Region
  <2>2. ~InRegion(in, q)
    BY <2>1 DEF InRegion
  <2>3. ~(out.x + i - p[1] \in 0 .. s.width - 1 /\ out.y + j - p[2] \in 0 .. s.height - 1)
    BY <1>0, <1>2, <1>4
  <2> QED  BY <1>0, <1>3, <2>1, <2>2, <2>3 DEF in, q
<1>5. CASE ~(right <= left \/ bottom <= top)
  <2>1. in.x = left - p[1] /\ in.y = top - p[2] /\ in.width = right - left /\ in.height = bottom - top
    BY <1>1, <1>5 DEF Region
  <2>2. in.x + q[1] = out.x + i - p[1] /\ in.y + q[2] = out.y + j - p[2]
    BY <1>0, <1>2, <1>3, <2>1
  <2>3. q[1] = out.x + i - left /\ q[2] = out.y + j - top
    BY <1>0, <1>2, <1>3, <2>1
  <2>4. InRegion(in, q) <=> /\ out.x + i - p[1] \in 0 .. s.width - 1
                            /\ out.y + j - p[2] \in 0 .. s.height - 1
    BY <1>0, <1>2, <2>1, <2>3 DEF InRegion
  <2> QED  BY <2>2, <2>4 DEF in, q
<1> QED  BY <1>4, <1>5

\* The second image covers the first, and where neither lies the canvas is filled.
LEMMA CompositionsRight ==
    ASSUME NEW op, WellFormed(op), NEW out \in Areas, op.kind \in {"Insert", "Join"},
           NEW i \in 0 .. out.width - 1, NEW j \in 0 .. out.height - 1
    PROVE  PixelRight(op, out, i, j)
<1> DEFINE in(s) == RequiredInput(op, out, s)
           p(s)  == Placement(op, s)
           q(s)  == PastedFrom(out, in(s), p(s), i, j)
           x     == out.x + i
           y     == out.y + j
           covering == { s \in {0, 1} : InRegion(in(s), q(s)) }
           lies     == { s \in {0, 1} : /\ x - p(s)[1] \in 0 .. op.source[s].width - 1
                                        /\ y - p(s)[2] \in 0 .. op.source[s].height - 1 }
           top      == IF 1 \in lies THEN 1 ELSE 0
           reads    == SlotReads(op, out, i, j)
<1>1. ASSUME NEW s \in {0, 1}
      PROVE  /\ op.source[s] \in [width : Nat \ {0}, height : Nat \ {0}]
             /\ p(s) \in Int \X Int /\ in(s) = IntersectAndTranslate(out, p(s), op.source[s])
  <2>1. op.source[s] \in [width : Nat \ {0}, height : Nat \ {0}]
    BY DEF WellFormed, Slots
  <2>2. op.source[0].width \in Int /\ op.source[0].height \in Int /\ op.at \in Int \X Int
    BY DEF WellFormed, Slots
  <2>3. p(s) \in Int \X Int
    BY <2>2 DEF Placement, InsertPlacement, JoinPlacement
  <2>4. in(s) = IntersectAndTranslate(out, p(s), op.source[s])
    BY DEF RequiredInput
  <2> QED  BY <2>1, <2>3, <2>4
<1>2. ASSUME NEW s \in {0, 1}
      PROVE  /\ InRegion(in(s), q(s)) <=> /\ x - p(s)[1] \in 0 .. op.source[s].width - 1
                                          /\ y - p(s)[2] \in 0 .. op.source[s].height - 1
             /\ in(s).x + q(s)[1] = x - p(s)[1] /\ in(s).y + q(s)[2] = y - p(s)[2]
  <2> DEFINE r == p(s)
             z == op.source[s]
             n == IntersectAndTranslate(out, r, z)
             m == PastedFrom(out, n, r, i, j)
  <2>1. r \in Int \X Int /\ z \in [width : Nat \ {0}, height : Nat \ {0}] /\ in(s) = n
    BY <1>1
  <2>2. q(s) = m
    BY <2>1
  <2>4. r = p(s) /\ z = op.source[s] /\ x = out.x + i /\ y = out.y + j
    OBVIOUS
  <2>5. /\ x \in Int /\ y \in Int /\ out.x \in Int /\ out.y \in Int /\ i \in Int /\ j \in Int
        /\ r[1] \in Int /\ r[2] \in Int
    BY <2>1 DEF Areas
  <2> HIDE DEF r, z
  <2>3. /\ InRegion(n, m) <=> out.x + i - r[1] \in 0 .. z.width - 1 /\ out.y + j - r[2] \in 0 .. z.height - 1
        /\ n.x + m[1] = out.x + i - r[1] /\ n.y + m[2] = out.y + j - r[2]
    BY <2>1, PasteInside
  <2> HIDE DEF n, m, in, p, q, x, y
  <2>6. out.x + i - r[1] = x - p(s)[1] /\ out.y + j - r[2] = y - p(s)[2]
    BY <2>4, <2>5
  <2> QED  BY <2>1, <2>2, <2>3, <2>4, <2>6
<1> HIDE DEF x, y
<1>5. Shown(op, x, y) =
          IF lies = {} THEN Fill
          ELSE One(SourcePixel(op, top, x - p(top)[1], y - p(top)[2]))
  BY DEF Shown
<1> HIDE DEF in, p, q
<1>3. covering = lies
  BY <1>2
<1>4. TopSlot(op, out, i, j) = CASE 1 \in covering -> 1 [] covering = {0} -> 0 [] OTHER -> -1
  BY DEF TopSlot, in, p, q
<1>6. reads = LET slot == TopSlot(op, out, i, j)
              IN  IF slot = -1 THEN Fill ELSE One(<<slot, q(slot)>>)
  BY DEF SlotReads, q, p, in
<1>7. x = out.x + i /\ y = out.y + j
  BY DEF x, y
<1>8. CASE lies = {}
  <2>1. TopSlot(op, out, i, j) = -1
    BY <1>3, <1>4, <1>8
  <2>2. DOMAIN reads = {}
    BY <1>6, <2>1 DEF Fill
  <2>3. ReadsInside(op, out, i, j) /\ MadeFrom(op, out, i, j) = Fill
    BY <2>2 DEF ReadsInside, MadeFrom, Fill
  <2> QED  BY <1>5, <1>7, <1>8, <2>3 DEF PixelRight
<1>9. CASE lies # {}
  <2>1. top \in lies /\ top \in {0, 1} /\ TopSlot(op, out, i, j) = top
    <3>1. CASE 1 \in lies
      BY <1>3, <1>4, <3>1
    <3>2. CASE 1 \notin lies
      <4>1. lies = {0}
        BY <1>9, <3>2
      <4> QED  BY <1>3, <1>4, <3>2, <4>1
    <3> QED  BY <3>1, <3>2
  <2> HIDE DEF lies, covering
  <2>2. reads = [tap \in {<<0, 0>>} |-> <<top, q(top)>>]
    BY <1>6, <2>1 DEF One
  <2> HIDE DEF top, reads
  <2>3. DOMAIN reads = {<<0, 0>>} /\ reads[<<0, 0>>][1] = top /\ reads[<<0, 0>>][2] = q(top)
    BY <2>2
  <2>4. InRegion(in(top), q(top))
    BY <1>3, <2>1 DEF covering
  <2>5. ReadsInside(op, out, i, j)
    BY <2>3, <2>4 DEF ReadsInside, reads, in
  <2>6. MadeFrom(op, out, i, j) = One(SourcePixel(op, top, in(top).x + q(top)[1], in(top).y + q(top)[2]))
    BY <2>3 DEF MadeFrom, reads, in, One
  <2>7. MadeFrom(op, out, i, j) = Shown(op, x, y)
    BY <1>2, <1>5, <1>9, <2>1, <2>6
  <2> QED  BY <1>7, <2>5, <2>7 DEF PixelRight
<1> QED  BY <1>8, <1>9

-----------------------------------------------------------------------------
(* What operations ask for, and the buffers for it.                        *)

\* A region no wider and no higher than another has no more pixels.
LEMMA SmallerFits ==
    ASSUME NEW a \in Nat, NEW b \in Nat, NEW c \in Nat, NEW d \in Nat, a <= c, b <= d
    PROVE  a * b <= c * d
<1>1. a * b <= c * b /\ b * c <= d * c
  BY Products
<1>2. c * b = b * c /\ d * c = c * d /\ a * b \in Int /\ c * b \in Int /\ c * d \in Int
  OBVIOUS
<1> QED  BY <1>1, <1>2

\* On one axis: a zoom by m asks for at most one pixel more than the size of
\* the tile says, and only if m is more than one.
LEMMA ZoomFits ==
    ASSUME NEW m \in Nat \ {0}, NEW o \in Int, NEW n \in Nat \ {0}, NEW w \in Nat \ {0}, n <= w
    PROVE  LET span == (o + n - 1) \div m - o \div m + 1
               tile == DivCeil(w, m) + (IF m > 1 THEN 1 ELSE 0)
           IN  span \in Nat /\ tile \in Nat /\ span <= tile
<1> DEFINE left == o \div m
           r    == o % m
           rest == (r + n - 1) \div m
           span == (o + n - 1) \div m - o \div m + 1
           cells == DivCeil(w, m)
           tile == cells + (IF m > 1 THEN 1 ELSE 0)
<1>1. left \in Int /\ r \in Int /\ o = m * left + r /\ 0 <= r /\ r < m
  BY Division
<1>2. cells \in Nat
  BY RoundsUp
<1>3. span \in Nat
  <2>1. o <= o + n - 1 /\ o + n - 1 \in Int
    OBVIOUS
  <2>2. (o + n - 1) \div m \in Int /\ o \div m \in Int /\ o \div m <= (o + n - 1) \div m
    BY <2>1, DivisionOrder
  <2> QED  BY <2>2
<1>4. span = rest + 1 /\ rest \in Int
  <2>1. (left * m + (r + n - 1)) \div m = left + (r + n - 1) \div m
    <3>1. left \in Int /\ r + n - 1 \in Int
      BY <1>1
    <3> QED  BY <3>1, DivisionShift, Zenon
  <2>2. o + n - 1 = left * m + (r + n - 1) /\ r + n - 1 \in Int
    <3> HIDE DEF left, r
    <3> QED  BY <1>1
  <2>3. rest \in Int
    BY <2>2, Division
  <2>4. (o + n - 1) \div m = left + rest
    BY <2>1, <2>2
  <2>5. span = (o + n - 1) \div m - left + 1
    OBVIOUS
  <2> HIDE DEF left, rest, span
  <2> QED  BY <1>1, <2>3, <2>4, <2>5
<1>5. rest <= cells
  <2>1. r + n - 1 <= w + m - 1 /\ r + n - 1 \in Int /\ w + m - 1 \in Int
    BY <1>1
  <2> HIDE DEF r
  <2> QED  BY <2>1, DivisionOrder DEF DivCeil
<1>6. CASE m > 1
  <2>1. tile = cells + 1
    BY <1>6
  <2> HIDE DEF rest, cells, span, tile
  <2>2. span \in Nat /\ tile \in Nat /\ span <= tile
    BY <1>2, <1>3, <1>4, <1>5, <2>1
  <2> QED  BY <2>2 DEF span, tile, cells
<1>7. CASE m = 1
  <2>1. cells = w
    BY <1>7 DEF DivCeil
  <2>2. r = 0
    BY <1>1, <1>7
  <2>3. rest = n - 1
    BY <1>7, <2>2
  <2>4. tile = w
    BY <1>7, <2>1
  <2> HIDE DEF rest, cells, span, tile
  <2>5. span \in Nat /\ tile \in Nat /\ span <= tile
    BY <1>3, <1>4, <2>3, <2>4
  <2> QED  BY <2>5 DEF span, tile, cells
<1> QED  BY <1>6, <1>7

\* What an operation asks for, for a region no larger than the tiles that its
\* buffers were sized for, fits them.
LEMMA RequestsFit ==
    ASSUME NEW op, op.kind \in Kinds, WellFormed(op), NEW out \in Areas,
           NEW w \in Nat \ {0}, NEW h \in Nat \ {0}, out.width <= w, out.height <= h
    PROVE  FitsBuffers(op, out, w, h)
<1> SUFFICES ASSUME NEW slot \in Slots(op)
             PROVE  LET in == RequiredInput(op, out, slot)
                        t  == InputTile(op, w, h)
                    IN  in.width * in.height <= t.width * t.height
  BY DEF FitsBuffers
<1> DEFINE in == RequiredInput(op, out, slot)
           t  == InputTile(op, w, h)
           n  == out.width
           k  == out.height
           b  == op.by[1]
           c  == op.by[2]
           W  == op.source[0].width
           H  == op.source[0].height
           Fits == in.width * in.height <= t.width * t.height
<1>0. /\ out.x \in Int /\ out.y \in Int /\ n \in Nat \ {0} /\ k \in Nat \ {0}
      /\ b \in Nat \ {0} /\ c \in Nat \ {0} /\ W \in Nat \ {0} /\ H \in Nat \ {0}
      /\ op.at[1] \in Int /\ op.at[2] \in Int /\ slot \in {0, 1}
      /\ n <= w /\ k <= h /\ n \in Nat /\ k \in Nat /\ w \in Nat /\ h \in Nat
  BY DEF Areas, WellFormed, Slots
<1>a. /\ w * b \in Nat /\ n * b \in Nat /\ n * b <= w * b /\ b <= n * b
      /\ h * c \in Nat /\ k * c \in Nat /\ k * c <= h * c /\ c <= k * c
  <2>1. 1 * b <= n * b /\ 1 * c <= k * c /\ n * b <= w * b /\ k * c <= h * c
    BY <1>0, Products
  <2> QED  BY <1>0, <2>1
<1>1. CASE op.kind \in {"ExtractArea", "FlipVertical", "FlipHorizontal", "Rotate180", "Embed"}
  <2>1. in.width = n /\ in.height = k
    BY <1>1 DEF RequiredInput, ExtractAreaInput, FlipVerticalInput, FlipHorizontalInput,
                Rotate180Input, EmbedInput, Region
  <2>2. t.width = w /\ t.height = h
    BY <1>1 DEF InputTile, ConsumesAll, Size
  <2> QED  BY <1>0, <2>1, <2>2, SmallerFits
<1>2. CASE op.kind \in {"Rotate90", "Rotate270"}
  <2>1. in.width = k /\ in.height = n
    BY <1>2 DEF RequiredInput, Rotate90Input, Rotate270Input, Region
  <2>2. t.width = h /\ t.height = w
    BY <1>2 DEF InputTile, ConsumesAll, Size
  <2> QED  BY <1>0, <2>1, <2>2, SmallerFits
<1>3. CASE op.kind \in {"Replicate", "Wrap", "Grid"}
  <2>1. in = WholeOf(op.source[0]) /\ t = op.source[0]
    BY <1>3 DEF RequiredInput, InputTile, ConsumesAll
  <2> QED  BY <1>0, <2>1 DEF WholeOf, Region
<1>4. CASE op.kind = "EmbedCanvas"
  <2>1. CASE op.extend \in {"Repeat", "Mirror"}
    <3>1. in = WholeOf(op.source[0]) /\ t = op.source[0]
      BY <1>4, <2>1 DEF RequiredInput, EmbedCanvasInput, InputTile, ConsumesAll
    <3> QED  BY <1>0, <3>1 DEF WholeOf, Region
  <2>2. CASE op.extend \notin {"Repeat", "Mirror"}
    <3>1. in = EmbedInput(op, out)
      BY <1>4, <2>2 DEF RequiredInput, EmbedCanvasInput
    <3>2. in.width = n /\ in.height = k
      BY <3>1 DEF EmbedInput, Region
    <3>3. t.width = w /\ t.height = h
      BY <1>4, <2>2 DEF InputTile, ConsumesAll, Size
    <3> QED  BY <1>0, <3>2, <3>3, SmallerFits
  <2> QED  BY <2>1, <2>2
<1>5. CASE op.kind = "Zoom"
  <2>1. /\ in.width = (out.x + n - 1) \div b - out.x \div b + 1
        /\ in.height = (out.y + k - 1) \div c - out.y \div c + 1
    BY <1>5 DEF RequiredInput, ZoomInput, Region
  <2>2. /\ t.width = DivCeil(w, b) + (IF b > 1 THEN 1 ELSE 0)
        /\ t.height = DivCeil(h, c) + (IF c > 1 THEN 1 ELSE 0)
    BY <1>5 DEF InputTile, ConsumesAll, ZoomTile, Size
  <2> HIDE DEF in, t, n, k, b, c
  <2>3. in.width \in Nat /\ t.width \in Nat /\ in.width <= t.width
    <3>1. LET span == (out.x + n - 1) \div b - out.x \div b + 1
              tile == DivCeil(w, b) + (IF b > 1 THEN 1 ELSE 0)
          IN  span \in Nat /\ tile \in Nat /\ span <= tile
      BY <1>0, ZoomFits, Zenon
    <3> QED  BY <2>1, <2>2, <3>1
  <2>4. in.height \in Nat /\ t.height \in Nat /\ in.height <= t.height
    <3>1. LET span == (out.y + k - 1) \div c - out.y \div c + 1
              tile == DivCeil(h, c) + (IF c > 1 THEN 1 ELSE 0)
          IN  span \in Nat /\ tile \in Nat /\ span <= tile
      BY <1>0, ZoomFits, Zenon
    <3> QED  BY <2>1, <2>2, <3>1
  <2>5. Fits
    BY <2>3, <2>4, SmallerFits
  <2> QED  BY <2>5 DEF in, t
<1>6. CASE op.kind = "Subsample"
  <2>1. in.width = n * b - (b - 1) /\ in.height = k * c - (c - 1)
    BY <1>6 DEF RequiredInput, SubsampleInput, Region
  <2>2. t.width = w * b - (b - 1) /\ t.height = h * c - (c - 1)
    BY <1>0, <1>6 DEF InputTile, ConsumesAll, SubsampleTile, Size
  <2> HIDE DEF in, t
  <2>3. /\ in.width \in Nat /\ t.width \in Nat /\ in.width <= t.width
        /\ in.height \in Nat /\ t.height \in Nat /\ in.height <= t.height
    BY <1>0, <1>a, <2>1, <2>2
  <2> QED  BY <2>3, SmallerFits DEF in, t
<1>7. CASE op.kind = "ShrinkH"
  <2>1. /\ in.height = k
        /\ \/ in.width = op.at[1] /\ op.at[1] > 0
           \/ in.width = n * b
    BY <1>7 DEF RequiredInput, ShrinkHInput, Region
  <2>2. t.width = Greatest(w * b, op.at[1]) /\ t.height = h
    BY <1>7 DEF InputTile, ConsumesAll, ShrinkHTile, Size
  <2> HIDE DEF in, t
  <2>3. in.width \in Nat /\ t.width \in Nat /\ in.width <= t.width
    BY <1>0, <1>a, <2>1, <2>2 DEF Greatest
  <2> QED  BY <1>0, <2>1, <2>2, <2>3, SmallerFits DEF in, t
<1>8. CASE op.kind = "ShrinkV"
  <2>1. in.width = n /\ in.height = k * c
    BY <1>8 DEF RequiredInput, ShrinkVInput, Region
  <2>2. t.width = w /\ t.height = h * c
    BY <1>8 DEF InputTile, ConsumesAll, ShrinkVTile, Size
  <2> HIDE DEF in, t
  <2> QED  BY <1>0, <1>a, <2>1, <2>2, SmallerFits DEF in, t
<1>9. CASE op.kind = "Conv2d"
  <2> DEFINE d == b \div 2
             e == c \div 2
  <2>1. in.width = n + 2 * d /\ in.height = k + 2 * e
    BY <1>9 DEF RequiredInput, ConvInput, Grow, Region
  <2>2. t.width = w + 2 * d /\ t.height = h + 2 * e
    BY <1>9 DEF InputTile, ConsumesAll, ConvTile, Size
  <2>3. d \in Nat /\ e \in Nat
    BY <1>0
  <2> HIDE DEF in, t, d, e
  <2>4. /\ in.width \in Nat /\ t.width \in Nat /\ in.width <= t.width
        /\ in.height \in Nat /\ t.height \in Nat /\ in.height <= t.height
    BY <1>0, <2>1, <2>2, <2>3
  <2> QED  BY <2>4, SmallerFits DEF in, t
<1>10. CASE op.kind \in {"Insert", "Join"}
  <2> DEFINE p == Placement(op, slot)
             s == op.source[slot]
  <2>1. in = IntersectAndTranslate(out, p, s)
    BY <1>10 DEF RequiredInput
  <2>2. t.width = w /\ t.height = h
    BY <1>10 DEF InputTile, ConsumesAll, Size
  <2>3. s.width \in Nat /\ s.height \in Nat /\ p[1] \in Int /\ p[2] \in Int
    <3>1. s \in [width : Nat \ {0}, height : Nat \ {0}]
      BY <1>0, <1>10 DEF WellFormed, Slots
    <3>2. p[1] \in Int /\ p[2] \in Int
      BY <1>0, <1>10 DEF Placement, InsertPlacement, JoinPlacement
    <3> QED  BY <3>1, <3>2
  <2> HIDE DEF p, s
  <2>4. in.width \in Nat /\ in.height \in Nat /\ in.width <= n /\ in.height <= k
    <3> DEFINE left   == Greatest(out.x, p[1])
               top    == Greatest(out.y, p[2])
               right  == Least(out.x + out.width, p[1] + s.width)
               bottom == Least(out.y + out.height, p[2] + s.height)
    <3>1. in = IF right <= left \/ bottom <= top THEN Region(0, 0, 0, 0)
               ELSE Region(left - p[1], top - p[2], right - left, bottom - top)
      BY <2>1 DEF IntersectAndTranslate
    <3>2. /\ left \in Int /\ top \in Int /\ right \in Int /\ bottom \in Int
          /\ right - left <= n /\ bottom - top <= k
      BY <1>0, <2>3 DEF Greatest, Least
    <3> HIDE DEF left, top, right, bottom, in
    <3>3. CASE right <= left \/ bottom <= top
      BY <1>0, <3>1, <3>3 DEF Region
    <3>4. CASE ~(right <= left \/ bottom <= top)
      <4>1. in.width = right - left /\ in.height = bottom - top
        BY <3>1, <3>4 DEF Region
      <4> QED  BY <3>2, <3>4, <4>1
    <3> QED  BY <3>3, <3>4
  <2> HIDE DEF in, t
  <2>5. in.width <= w /\ in.height <= h
    BY <1>0, <2>4
  <2> QED  BY <1>0, <2>2, <2>4, <2>5, SmallerFits DEF in, t
<1> QED  BY <1>1, <1>2, <1>3, <1>4, <1>5, <1>6, <1>7, <1>8, <1>9, <1>10 DEF Kinds

-----------------------------------------------------------------------------
(* What planned tiles demand.                                              *)

\* The rows of a plan are never higher than the hint says, and its columns as
\* wide: the tiles that the buffers were sized for.
LEMMA CutsWithinHint ==
    ASSUME NEW p \in Request, ~Empty(p)
    PROVE  LET g == GeometryForExecution(p)
           IN  /\ HintTileWidth(p) \in Nat \ {0} /\ HintTileHeight(p) \in Nat \ {0}
               /\ g.tileWidth = HintTileWidth(p) /\ g.tileHeight <= HintTileHeight(p)
<1> DEFINE g       == GeometryForBudget(p)
           desired == Greatest(Least(Greatest(p.threads, 16), p.height), 1)
           thinner == Greatest(DivCeil(p.height, desired), 1)
           thin    == [g EXCEPT !.tileHeight = thinner, !.rows = DivCeil(p.height, thinner)]
<1>1. p.width \in Nat \ {0} /\ p.height \in Nat \ {0} /\ p.hint \in Hints
  BY DEF Request, Empty
<1>2. HintTileWidth(p) \in Nat \ {0} /\ HintTileHeight(p) \in Nat \ {0}
  BY <1>1 DEF HintTileWidth, HintTileHeight, Hints
<1>3. TileHeightForHint(p) <= HintTileHeight(p)
  <2> DEFINE default  == Greatest(Least(HintTileHeight(p), p.height), 1)
             l2Height == Greatest(Greatest(p.l2, 1) \div Greatest(p.rowBytes, 1), 1)
             cut      == Greatest(Least(Least(default, l2Height), p.height), 1)
  <2>1. default \in Nat \ {0} /\ default <= HintTileHeight(p)
    BY <1>1, <1>2 DEF Greatest, Least
  <2>2. l2Height \in Int
    <3>1. Greatest(p.l2, 1) \div Greatest(p.rowBytes, 1) \in Int
      BY Division DEF Greatest, Request
    <3> QED  BY <3>1 DEF Greatest
  <2>3. TileHeightForHint(p) = IF p.hint \in {"FatStrip", "Any"} THEN cut ELSE default
    BY DEF TileHeightForHint
  <2> HIDE DEF default, l2Height
  <2>4. cut <= default
    BY <1>1, <2>1, <2>2 DEF Greatest, Least
  <2>5. cut \in Int
    BY <1>1, <2>1, <2>2 DEF Greatest, Least
  <2> HIDE DEF cut
  <2> QED  BY <1>2, <2>1, <2>3, <2>4, <2>5
<1>4. g.tileWidth = HintTileWidth(p) /\ g.tileHeight = TileHeightForHint(p)
  BY <1>1 DEF GeometryForBudget, Geometry
<1>5. GeometryFits(g, p)
  BY BudgetGeometryFits
<1>6. \/ GeometryForExecution(p) = g
      \/ GeometryForExecution(p) = thin /\ thinner < g.tileHeight
  BY DEF GeometryForExecution
<1>7. thinner \in Int
  <2>1. desired \in Nat \ {0}
    BY DEF Greatest, Least, Request
  <2>2. DivCeil(p.height, desired) \in Nat
    BY <1>1, <2>1, RoundsUp
  <2> QED  BY <2>2 DEF Greatest
<1>8. TileHeightForHint(p) \in Nat
  BY TileHeightPositive
<1> HIDE DEF g, thinner
<1>9. thin.tileWidth = g.tileWidth /\ thin.tileHeight = thinner
  BY <1>5 DEF GeometryFits
<1> HIDE DEF thin
<1>10. /\ GeometryForExecution(p).tileWidth = HintTileWidth(p)
       /\ GeometryForExecution(p).tileHeight <= HintTileHeight(p)
  BY <1>2, <1>3, <1>4, <1>6, <1>7, <1>8, <1>9
<1> QED  BY <1>2, <1>10

LEMMA TilesWithinHint ==
    ASSUME NEW p \in Request, ~Empty(p),
           NEW i \in DOMAIN GenerateTiles(GeometryForExecution(p), p)
    PROVE  LET t == GenerateTiles(GeometryForExecution(p), p)[i]
           IN  /\ t.x \in Int /\ t.y \in Int /\ t.width \in Nat \ {0} /\ t.height \in Nat \ {0}
               /\ t.width <= HintTileWidth(p) /\ t.height <= HintTileHeight(p)
<1> DEFINE g == GeometryForExecution(p)
           t == GenerateTiles(g, p)[i]
<1>1. GeometryFits(g, p)
  BY ExecutionGeometryFits
<1>2. PICK col \in Columns(g), row \in Rows(g) : t = TileAt(col, row, g, p)
  BY <1>1, TilesByPlace
<1>3. /\ t.x \in Int /\ t.y \in Int /\ t.width \in Nat \ {0} /\ t.height \in Nat \ {0}
      /\ t.width = CellExtent(col, g.tileWidth, p.width)
      /\ t.height = CellExtent(row, g.tileHeight, p.height)
  BY <1>1, <1>2, TileSides
<1>4. /\ HintTileWidth(p) \in Nat \ {0} /\ HintTileHeight(p) \in Nat \ {0}
      /\ g.tileWidth = HintTileWidth(p) /\ g.tileHeight <= HintTileHeight(p)
  BY CutsWithinHint
<1>5. /\ col \in Int /\ row \in Int /\ p.width \in Nat /\ p.height \in Nat
      /\ g.tileWidth \in Nat \ {0} /\ g.tileHeight \in Nat \ {0}
  BY <1>1 DEF GeometryFits, Columns, Rows, Request
<1> HIDE DEF g, t
<1>6. CellExtent(col, g.tileWidth, p.width) <= g.tileWidth
  BY <1>5 DEF CellExtent, Least
<1>7. CellExtent(row, g.tileHeight, p.height) <= g.tileHeight
  BY <1>5 DEF CellExtent, Least
<1>8. t.width <= HintTileWidth(p) /\ t.height <= HintTileHeight(p)
  BY <1>3, <1>4, <1>5, <1>6, <1>7
<1> QED  BY <1>3, <1>8 DEF t, g

\* A region that is cut to a canvas stays a region and does not grow.
LEMMA Clipped ==
    ASSUME NEW r, r.x \in Int, r.y \in Int, r.width \in Int, r.height \in Int,
           NEW s \in [width : Nat, height : Nat]
    PROVE  LET c == ClipTo(r, s)
           IN  /\ c \in [x : Int, y : Int, width : Int, height : Int]
               /\ r.width >= 0 => c.width <= r.width
               /\ r.height >= 0 => c.height <= r.height
<1> DEFINE left   == Clamp(r.x, 0, s.width)
           top    == Clamp(r.y, 0, s.height)
           right  == Clamp(r.x + r.width, 0, s.width)
           bottom == Clamp(r.y + r.height, 0, s.height)
<1>1. left \in Int /\ right \in Int /\ (r.width >= 0 => right - left <= r.width)
  BY DEF Clamp, Greatest, Least
<1>2. top \in Int /\ bottom \in Int /\ (r.height >= 0 => bottom - top <= r.height)
  BY DEF Clamp, Greatest, Least
<1>3. ClipTo(r, s) = Region(left, top, right - left, bottom - top)
  BY DEF ClipTo
<1> HIDE DEF left, top, right, bottom
<1> QED  BY <1>1, <1>2, <1>3 DEF Region

\* What is asked of an operation: a region with pixels, no larger than a tile of
\* the hint when it is asked for a planned tile alone.
DemandInv ==
    /\ PlanInv
    /\ demand # <<>> =>
          /\ demand.op \in Operations /\ demand.out \in Areas
          /\ MayBeAsked(demand.op, demand.out) /\ ~Empty(request)
          /\ demand.alone => /\ demand.out.width <= HintTileWidth(request)
                             /\ demand.out.height <= HintTileHeight(request)

LEMMA DemandKept ==
    ASSUME DemandInv, NEW op \in Operations, NEW growth \in Growths, Planned,
           NEW i \in DOMAIN plan.tiles, Demand(op, plan.tiles[i], growth)
    PROVE  DemandInv'
<1> DEFINE t   == plan.tiles[i]
           r   == Grown(t, growth)
           out == ValidOutput(op, r)
<1>1. PICK pool \in PoolBytes, source \in SourceBytes : plan = PlanFor(request, pool, source)
  BY DEF DemandInv, PlanInv
<1>2. plan.tiles = GenerateTiles(GeometryForExecution(request), request) /\ request \in Request
  BY <1>1 DEF PlanFor, DemandInv, PlanInv
<1>3. ~Empty(request)
  BY <1>2, EmptyImageHasNoTiles
<1>4. /\ t.x \in Int /\ t.y \in Int /\ t.width \in Nat \ {0} /\ t.height \in Nat \ {0}
      /\ t.width <= HintTileWidth(request) /\ t.height <= HintTileHeight(request)
  BY <1>2, <1>3, TilesWithinHint
<1>5. growth[1] \in Int /\ growth[2] \in Int /\ growth[3] \in Int /\ growth[4] \in Int
  BY OperationsAssumption
<1>6. r \in [x : Int, y : Int, width : Int, height : Int]
  BY <1>4, <1>5 DEF Grown, Region
<1>7. growth = <<0, 0, 0, 0>> => r.width = t.width /\ r.height = t.height
  BY <1>4 DEF Grown, Region
<1>8. op.size \in [width : Nat, height : Nat]
  BY OperationsAssumption DEF WellFormed
<1>9. /\ demand' = [op |-> op, out |-> out, alone |-> growth = <<0, 0, 0, 0>>]
      /\ MayBeAsked(op, out) /\ request' = request /\ plan' = plan
  BY DEF Demand
<1> HIDE DEF r, t
<1>10. /\ out \in [x : Int, y : Int, width : Int, height : Int]
       /\ r.width >= 0 => out.width <= r.width
       /\ r.height >= 0 => out.height <= r.height
  <2>1. CASE op.kind = "ExtractArea"
    <3>1. out = ClipTo(r, op.size)
      BY <2>1 DEF ValidOutput
    <3>2. r.x \in Int /\ r.y \in Int /\ r.width \in Int /\ r.height \in Int
      BY <1>6
    <3> QED  BY <1>8, <3>1, <3>2, Clipped
  <2>2. CASE op.kind # "ExtractArea"
    BY <1>6, <2>2 DEF ValidOutput
  <2> QED  BY <2>1, <2>2
<1> HIDE DEF out
<1>11. out \in Areas
  BY <1>9, <1>10 DEF Areas, MayBeAsked
<1>12. growth = <<0, 0, 0, 0>> =>
          out.width <= HintTileWidth(request) /\ out.height <= HintTileHeight(request)
  <2>1. HintTileWidth(request) \in Int /\ HintTileHeight(request) \in Int
    BY <1>2, <1>3, CutsWithinHint
  <2> QED  BY <1>4, <1>7, <1>10, <2>1
<1>13. demand'.op = op /\ demand'.out = out /\ demand'.alone = (growth = <<0, 0, 0, 0>>)
  BY <1>9
<1>14. PlanInv'
  BY <1>9 DEF DemandInv, PlanInv, Planned
<1>15. demand'.alone => /\ demand'.out.width <= HintTileWidth(request')
                        /\ demand'.out.height <= HintTileHeight(request')
  BY <1>9, <1>12, <1>13
<1> QED  BY <1>3, <1>9, <1>11, <1>13, <1>14, <1>15 DEF DemandInv

THEOREM DemandInvariantHolds == DemandSpec => []DemandInv
<1>1. DemandInit => DemandInv
  BY PlanInvStarts DEF DemandInit, DemandInv
<1>2. DemandInv /\ [DemandNext]_demandVars => DemandInv'
  <2> SUFFICES ASSUME DemandInv, [DemandNext]_demandVars PROVE DemandInv'
    OBVIOUS
  <2>1. CASE [Next]_planVars /\ UNCHANGED demand
    <3>1. PlanInv'
      BY <2>1, PlanInvKept DEF DemandInv
    <3>2. request' = request
      BY <2>1 DEF Next, MakePlan, planVars
    <3>3. demand' = demand
      BY <2>1
    <3> QED  BY <3>1, <3>2, <3>3 DEF DemandInv
  <2>2. ASSUME NEW op \in Operations, NEW growth \in Growths, Planned,
               NEW i \in DOMAIN plan.tiles, Demand(op, plan.tiles[i], growth)
        PROVE  DemandInv'
    BY <2>2, DemandKept
  <2> QED  BY <2>1, <2>2 DEF DemandNext, demandVars, planVars
<1> QED  BY <1>1, <1>2, PTL DEF DemandSpec

\* For an image of any size, tiles of any hint and number of threads, and any
\* operation that its constructor accepts: what it reads for a planned tile, or
\* for the region a consumer needs around it, lies in what it asked for, shows
\* what the operation on the whole image shows there, and fits the buffers that
\* were sized for the tiles of the hint.
THEOREM DemandReadsItsTile == DemandSpec => []OperationReadsItsTile
<1>1. DemandInv => OperationReadsItsTile
  <2> SUFFICES ASSUME DemandInv, demand # <<>>, Writes(demand.op, demand.out)
               PROVE  /\ demand.alone =>
                            FitsBuffers(demand.op, demand.out, HintTileWidth(request), HintTileHeight(request))
                      /\ \A i \in 0 .. demand.out.width - 1, j \in 0 .. demand.out.height - 1 :
                            PixelRight(demand.op, demand.out, i, j)
    BY DEF OperationReadsItsTile, PixelRight
  <2> DEFINE op  == demand.op
             out == demand.out
  <2>1. /\ op.kind \in Kinds /\ WellFormed(op) /\ out \in Areas /\ MayBeAsked(op, out)
        /\ Writes(op, out) /\ request \in Request /\ ~Empty(request)
        /\ demand.alone => out.width <= HintTileWidth(request) /\ out.height <= HintTileHeight(request)
    BY OperationsAssumption DEF DemandInv, PlanInv
  <2>2. HintTileWidth(request) \in Nat \ {0} /\ HintTileHeight(request) \in Nat \ {0}
    BY <2>1, CutsWithinHint
  <2> HIDE DEF op, out
  <2>3. demand.alone => FitsBuffers(op, out, HintTileWidth(request), HintTileHeight(request))
    BY <2>1, <2>2, RequestsFit
  <2>4. ASSUME NEW i \in 0 .. out.width - 1, NEW j \in 0 .. out.height - 1
        PROVE  PixelRight(op, out, i, j)
    <3>1. CASE op.kind \in {"ExtractArea", "FlipVertical", "FlipHorizontal", "Rotate90", "Rotate180", "Rotate270"}
      BY <2>1, <3>1, CutsAndTurns
    <3>2. CASE op.kind = "Embed"
      BY <2>1, <3>2, EmbedRight
    <3>3. CASE op.kind = "EmbedCanvas"
      BY <2>1, <3>3, EmbedCanvasRight
    <3>4. CASE op.kind \in {"Replicate", "Wrap"}
      BY <2>1, <3>4, RepetitionsRight
    <3>5. CASE op.kind = "Grid"
      BY <2>1, <3>5, GridRight
    <3>6. CASE op.kind = "Zoom"
      BY <2>1, <3>6, ZoomRight
    <3>7. CASE op.kind = "Subsample"
      BY <2>1, <3>7, SubsampleRight
    <3>8. CASE op.kind = "ShrinkH"
      BY <2>1, <3>8, ShrinkHRight
    <3>9. CASE op.kind = "ShrinkV"
      BY <2>1, <3>9, ShrinkVRight
    <3>10. CASE op.kind = "Conv2d"
      BY <2>1, <3>10, ConvRight
    <3>11. CASE op.kind \in {"Insert", "Join"}
      BY <2>1, <3>11, CompositionsRight
    <3> QED
      BY <2>1, <3>1, <3>2, <3>3, <3>4, <3>5, <3>6, <3>7, <3>8, <3>9, <3>10, <3>11 DEF Kinds
  <2> QED  BY <2>3, <2>4 DEF op, out
<1> QED  BY <1>1, DemandInvariantHolds, PTL
=============================================================================
