--------------------------- MODULE TextDiffProofs ---------------------------
(***************************************************************************)
(* The theorem about TextDiff, for texts of any length. A script is known  *)
(* by what it spells: of each text there is a function that counts the     *)
(* lines up to an edit (Spells). A hunk is then a pair of stretches of the *)
(* texts, what is kept between two hunks is the same stretch of both, and  *)
(* the patch after each hunk is a beginning of the new text (PatchedTo).   *)
(***************************************************************************)
EXTENDS AlgorithmsProofs

(* What a recursive function on 0 .. n computes that goes up by steps.      *)
StepsUp(n, A, base, step, f) ==
    /\ f \in [0 .. n -> A] /\ f[0] = base
    /\ \A k \in 1 .. n : f[k] = step[<<f[k - 1], k>>]

(* It exists.                                                               *)
LEMMA StepsExist ==
    ASSUME NEW n \in Nat, NEW A, NEW base \in A, NEW step \in [A \X (1 .. n) -> A]
    PROVE  \E f : StepsUp(n, A, base, step, f)
<1>1. PICK g : SetFold(n, A, base, step, g)
    BY SetFoldExists
<1> DEFINE f == [k \in 0 .. n |-> g[1 .. k]]
<1>2. \A k \in 0 .. n : 1 .. k \in SUBSET (1 .. n)
    OBVIOUS
<1>3. f \in [0 .. n -> A]
    BY <1>1, <1>2 DEF SetFold
<1>4. f[0] = base
    <2>1. 1 .. 0 = {} /\ 0 \in 0 .. n
        OBVIOUS
    <2>2. QED
        BY <1>1, <1>2, <2>1 DEF SetFold
<1>5. ASSUME NEW k \in 1 .. n
      PROVE  f[k] = step[<<f[k - 1], k>>]
    <2>1. k - 1 \in 0 .. (n - 1) /\ (k - 1) + 1 = k /\ k - 1 \in 0 .. n /\ k \in 0 .. n
        OBVIOUS
    <2>2. 1 .. k # {} /\ Greatest(1 .. k) = k /\ (1 .. k) \ {k} = 1 .. (k - 1)
        BY <2>1, FoldPrefix
    <2>3. g[1 .. k] = step[<<g[1 .. (k - 1)], k>>]
        BY <1>1, <1>2, <2>1, <2>2 DEF SetFold
    <2>4. QED
        BY <2>1, <2>3
<1> HIDE DEF f
<1>6. StepsUp(n, A, base, step, f)
    BY <1>3, <1>4, <1>5 DEF StepsUp
<1>7. QED
    BY <1>6

(* It never leaves its type.                                                *)
StepsWithin(n, A, base, step, f) ==
    /\ f[0] = base
    /\ \A k \in 1 .. n : f[k - 1] \in A => f[k] = step[<<f[k - 1], k>>]

(* What goes up by steps that keep a type has that type.                    *)
LEMMA StepsTyped ==
    ASSUME NEW n \in Nat, NEW A, NEW base \in A, NEW step \in [A \X (1 .. n) -> A],
           NEW f, StepsWithin(n, A, base, step, f)
    PROVE  \A k \in 0 .. n : f[k] \in A
<1> USE DEF StepsWithin
<1> DEFINE T == {k \in Nat : k <= n => f[k] \in A}
<1>1. 0 \in T
    OBVIOUS
<1>2. ASSUME NEW k \in T
      PROVE  k + 1 \in T
    <2>1. SUFFICES ASSUME k + 1 <= n
                   PROVE  f[k + 1] \in A
        OBVIOUS
    <2>2. k + 1 \in 1 .. n /\ (k + 1) - 1 = k /\ f[k] \in A
        BY <2>1
    <2>3. f[k + 1] = step[<<f[k], k + 1>>] /\ <<f[k], k + 1>> \in A \X (1 .. n)
        BY <2>2
    <2>4. QED
        BY <2>3
<1>3. T = Nat
    <2> HIDE DEF T
    <2> QED
        BY <1>1, <1>2, Induction DEF T
<1>4. QED
    BY <1>3

(* One row of the table, cell by cell.                                      *)
Cells(b) == [1 .. (Len(b) + 1) -> Nat]

(* What one cell more of a row changes.                                     *)
LEMMA FillIs ==
    ASSUME NEW L, NEW b \in Seq(L), NEW line, NEW below \in Cells(b), NEW row \in Cells(b),
           NEW j \in 1 .. Len(b)
    PROVE  LET next == Text!Fill(line, b, below, row, j)
           IN  /\ next \in Cells(b)
               /\ next[j] = IF line = b[j] THEN below[j + 1] + 1
                            ELSE Text!Larger(below[j], row[j + 1])
               /\ \A i \in 1 .. (Len(b) + 1) : i # j => next[i] = row[i]
<1> DEFINE cell == IF line = b[j] THEN below[j + 1] + 1 ELSE Text!Larger(below[j], row[j + 1])
           next == [row EXCEPT ![j] = cell]
<1>1. Len(b) \in Nat /\ j \in 1 .. (Len(b) + 1) /\ j + 1 \in 1 .. (Len(b) + 1)
    OBVIOUS
<1>2. below[j + 1] \in Nat /\ below[j] \in Nat /\ row[j + 1] \in Nat
    BY <1>1 DEF Cells
<1>3. cell \in Nat
    BY <1>2 DEF Text!Larger
<1> HIDE DEF cell
<1>4. /\ next \in Cells(b) /\ next[j] = cell
      /\ \A i \in 1 .. (Len(b) + 1) : i # j => next[i] = row[i]
    BY <1>1, <1>3 DEF Cells
<1>5. QED
    BY <1>4 DEF Text!Fill, cell

(* A row, cell by cell.                                                     *)
LEMMA RowUnfold ==
    ASSUME NEW L, NEW b \in Seq(L), NEW line, NEW below \in Cells(b)
    PROVE  \E r : /\ r[0] = Text!EmptyRow(b)
                  /\ \A k \in 0 .. Len(b) : r[k] \in Cells(b)
                  /\ \A k \in 1 .. Len(b) :
                        r[k] = Text!Fill(line, b, below, r[k - 1], Len(b) + 1 - k)
                  /\ Text!Row(line, b, below) = r[Len(b)]
<1> DEFINE n == Len(b)
           A == Cells(b)
           base == Text!EmptyRow(b)
           Next1(r, k) == Text!Fill(line, b, below, r, n + 1 - k)
           step == [p \in A \X (1 .. n) |-> Next1(p[1], p[2])]
           Unfolds(f) == f = [k \in 0 .. n |-> IF k = 0 THEN base ELSE Next1(f[k - 1], k)]
           row == CHOOSE f : Unfolds(f)
<1>1. n \in Nat
    OBVIOUS
<1>2. base \in A
    BY <1>1 DEF Text!EmptyRow, Cells
<1>3. step \in [A \X (1 .. n) -> A]
    <2>1. ASSUME NEW p \in A \X (1 .. n)
          PROVE  Next1(p[1], p[2]) \in A
        <3>1. p[1] \in Cells(b) /\ n + 1 - p[2] \in 1 .. n
            BY <1>1
        <3>2. QED
            BY <3>1, FillIs
    <2>2. QED
        BY <2>1
<1>4. Text!Row(line, b, below) = row[n]
    BY DEF Text!Row
<1> HIDE DEF A, base, Next1
<1>5. \A r \in A, k \in 1 .. n : step[<<r, k>>] = Next1(r, k)
    OBVIOUS
<1> HIDE DEF n, step
<1>6. PICK f : StepsUp(n, A, base, step, f)
    BY <1>1, <1>2, <1>3, StepsExist
<1>7. Unfolds(f)
    <2>1. \A k \in 1 .. n : f[k - 1] \in A /\ f[k] = Next1(f[k - 1], k)
        BY <1>1, <1>5, <1>6 DEF StepsUp
    <2>2. f = [k \in 0 .. n |-> f[k]]
        BY <1>6 DEF StepsUp
    <2>3. \A k \in 0 .. n : f[k] = IF k = 0 THEN base ELSE Next1(f[k - 1], k)
        BY <1>1, <1>6, <2>1 DEF StepsUp
    <2>4. QED
        BY <2>2, <2>3
<1>8. Unfolds(row)
    <2> HIDE DEF Unfolds
    <2> QED
        BY <1>7
<1> HIDE DEF row
<1>9. row[0] = base /\ \A k \in 1 .. n : row[k] = Next1(row[k - 1], k)
    BY <1>1, <1>8
<1>10. \A k \in 0 .. n : row[k] \in A
    <2>1. StepsWithin(n, A, base, step, row)
        BY <1>5, <1>9 DEF StepsWithin
    <2>2. QED
        BY <1>1, <1>2, <1>3, <2>1, StepsTyped
<1>11. QED
    BY <1>4, <1>9, <1>10 DEF n, A, base, Next1

(* A row has what the table says of each of its cells.                      *)
LEMMA RowIs ==
    ASSUME NEW L, NEW b \in Seq(L), NEW line, NEW below \in Cells(b)
    PROVE  LET row == Text!Row(line, b, below)
           IN  /\ row \in Cells(b) /\ row[Len(b) + 1] = 0
               /\ \A j \in 1 .. Len(b) :
                     row[j] = IF line = b[j] THEN below[j + 1] + 1
                              ELSE Text!Larger(below[j], row[j + 1])
<1> DEFINE n == Len(b)
           Cell(row, j) == IF line = b[j] THEN below[j + 1] + 1
                           ELSE Text!Larger(below[j], row[j + 1])
<1>1. PICK r : /\ r[0] = Text!EmptyRow(b)
               /\ \A k \in 0 .. n : r[k] \in Cells(b)
               /\ \A k \in 1 .. n : r[k] = Text!Fill(line, b, below, r[k - 1], n + 1 - k)
               /\ Text!Row(line, b, below) = r[n]
    BY RowUnfold
<1>2. n \in Nat
    OBVIOUS
<1> DEFINE Done(k) == /\ r[k][n + 1] = 0
                      /\ \A j \in (n + 1 - k) .. n : r[k][j] = Cell(r[k], j)
           T == {k \in Nat : k <= n => Done(k)}
<1>3. 0 \in T
    <2>1. r[0][n + 1] = 0
        BY <1>1, <1>2 DEF Text!EmptyRow
    <2>2. (n + 1 - 0) .. n = {}
        BY <1>2
    <2>3. QED
        BY <2>1, <2>2
<1>4. ASSUME NEW k \in T
      PROVE  k + 1 \in T
    <2>1. SUFFICES ASSUME k + 1 <= n
                   PROVE  Done(k + 1)
        OBVIOUS
    <2> DEFINE j == n + 1 - (k + 1)
               row == r[k]
               next == r[k + 1]
    <2>2. /\ k \in Nat /\ Done(k) /\ j \in 1 .. n /\ row \in Cells(b)
          /\ next = Text!Fill(line, b, below, row, j)
        <3>1. k + 1 \in 1 .. n /\ (k + 1) - 1 = k /\ k \in 0 .. n
            BY <1>2, <2>1
        <3>2. QED
            BY <1>1, <1>2, <2>1, <3>1
    <2>3. /\ next[j] = Cell(row, j)
          /\ \A i \in 1 .. (n + 1) : i # j => next[i] = row[i]
        BY <2>2, FillIs
    <2>4. \A i \in (j + 1) .. (n + 1) : i \in 1 .. (n + 1) /\ i # j
        BY <1>2, <2>2
    <2>5. (n + 1 - k) .. n = (j + 1) .. n /\ j .. n = {j} \cup ((j + 1) .. n)
        BY <1>2, <2>2
    <2> HIDE DEF j
    <2>6. next[n + 1] = 0
        BY <1>2, <2>2, <2>3, <2>4
    <2>7. \A i \in (j + 1) .. n : next[i] = Cell(next, i)
        <3> SUFFICES ASSUME NEW i \in (j + 1) .. n
                     PROVE  next[i] = Cell(next, i)
            OBVIOUS
        <3>1. i \in (j + 1) .. (n + 1) /\ i + 1 \in (j + 1) .. (n + 1)
            BY <1>2, <2>2
        <3>2. row[i] = Cell(row, i)
            BY <2>2, <2>5
        <3>3. next[i] = row[i] /\ next[i + 1] = row[i + 1]
            BY <2>3, <2>4, <3>1
        <3>4. QED
            BY <3>2, <3>3
    <2>8. next[j] = Cell(next, j)
        <3>1. j + 1 \in (j + 1) .. (n + 1)
            BY <1>2, <2>2
        <3>2. next[j + 1] = row[j + 1]
            BY <2>3, <2>4, <3>1
        <3>3. QED
            BY <2>3, <3>2
    <2>9. QED
        BY <2>5, <2>6, <2>7, <2>8 DEF j
<1>5. T = Nat
    <2> HIDE DEF T
    <2> QED
        BY <1>3, <1>4, Induction DEF T
<1>6. Done(n) /\ n + 1 - n = 1
    BY <1>2, <1>5
<1> HIDE DEF Cell
<1>7. QED
    BY <1>1, <1>2, <1>6 DEF Cell

(* The table, row by row.                                                   *)
LcsTables(a, b) == [1 .. (Len(a) + 1) -> Cells(b)]

(* What one row more of the table changes.                                  *)
LEMMA AddRowIs ==
    ASSUME NEW L, NEW a \in Seq(L), NEW b \in Seq(L), NEW rows \in LcsTables(a, b),
           NEW i \in 1 .. Len(a)
    PROVE  LET next == Text!AddRow(a, b, rows, i)
           IN  /\ next \in LcsTables(a, b)
               /\ next[i] = Text!Row(a[i], b, rows[i + 1])
               /\ \A x \in 1 .. (Len(a) + 1) : x # i => next[x] = rows[x]
<1> DEFINE row == Text!Row(a[i], b, rows[i + 1])
           next == [rows EXCEPT ![i] = row]
<1>1. Len(a) \in Nat /\ i \in 1 .. (Len(a) + 1) /\ i + 1 \in 1 .. (Len(a) + 1)
    OBVIOUS
<1>2. rows[i + 1] \in Cells(b)
    BY <1>1 DEF LcsTables
<1>3. row \in Cells(b)
    BY <1>2, RowIs
<1> HIDE DEF row
<1>4. /\ next \in LcsTables(a, b) /\ next[i] = row
      /\ \A x \in 1 .. (Len(a) + 1) : x # i => next[x] = rows[x]
    BY <1>1, <1>3 DEF LcsTables
<1>5. QED
    BY <1>4 DEF Text!AddRow, row

(* The table, row by row, from the empty one.                               *)
LEMMA LcsUnfold ==
    ASSUME NEW L, NEW a \in Seq(L), NEW b \in Seq(L)
    PROVE  \E r : /\ r[0] = [i \in 1 .. (Len(a) + 1) |-> Text!EmptyRow(b)]
                  /\ \A k \in 0 .. Len(a) : r[k] \in LcsTables(a, b)
                  /\ \A k \in 1 .. Len(a) : r[k] = Text!AddRow(a, b, r[k - 1], Len(a) + 1 - k)
                  /\ Text!Lcs(a, b) = r[Len(a)]
<1> DEFINE n == Len(a)
           A == LcsTables(a, b)
           base == [i \in 1 .. (Len(a) + 1) |-> Text!EmptyRow(b)]
           Next1(r, k) == Text!AddRow(a, b, r, n + 1 - k)
           step == [p \in A \X (1 .. n) |-> Next1(p[1], p[2])]
           Unfolds(f) == f = [k \in 0 .. n |-> IF k = 0 THEN base ELSE Next1(f[k - 1], k)]
           rows == CHOOSE f : Unfolds(f)
<1>1. n \in Nat
    OBVIOUS
<1>2. base \in A
    BY DEF Text!EmptyRow, Cells, LcsTables
<1>3. step \in [A \X (1 .. n) -> A]
    <2>1. ASSUME NEW p \in A \X (1 .. n)
          PROVE  Next1(p[1], p[2]) \in A
        <3>1. p[1] \in LcsTables(a, b) /\ n + 1 - p[2] \in 1 .. n
            BY <1>1
        <3>2. QED
            BY <3>1, AddRowIs
    <2>2. QED
        BY <2>1
<1>4. Text!Lcs(a, b) = rows[n]
    BY DEF Text!Lcs
<1> HIDE DEF A, base, Next1
<1>5. \A r \in A, k \in 1 .. n : step[<<r, k>>] = Next1(r, k)
    OBVIOUS
<1> HIDE DEF n, step
<1>6. PICK f : StepsUp(n, A, base, step, f)
    BY <1>1, <1>2, <1>3, StepsExist
<1>7. Unfolds(f)
    <2>1. \A k \in 1 .. n : f[k - 1] \in A /\ f[k] = Next1(f[k - 1], k)
        <3>1. \A k \in 1 .. n : k - 1 \in 0 .. n
            BY <1>1
        <3>2. \A k \in 1 .. n : f[k - 1] \in A /\ f[k] = step[<<f[k - 1], k>>]
            BY <1>6, <3>1 DEF StepsUp
        <3>3. QED
            BY <1>5, <3>2
    <2>2. f = [k \in 0 .. n |-> f[k]]
        BY <1>6 DEF StepsUp
    <2>3. \A k \in 0 .. n : f[k] = IF k = 0 THEN base ELSE Next1(f[k - 1], k)
        BY <1>1, <1>6, <2>1 DEF StepsUp
    <2>4. QED
        BY <2>2, <2>3
<1>8. Unfolds(rows)
    <2> HIDE DEF Unfolds
    <2> QED
        BY <1>7
<1> HIDE DEF rows
<1>9. rows[0] = base /\ \A k \in 1 .. n : rows[k] = Next1(rows[k - 1], k)
    BY <1>1, <1>8
<1>10. \A k \in 0 .. n : rows[k] \in A
    <2>1. StepsWithin(n, A, base, step, rows)
        BY <1>5, <1>9 DEF StepsWithin
    <2>2. QED
        BY <1>1, <1>2, <1>3, <2>1, StepsTyped
<1>11. QED
    BY <1>4, <1>9, <1>10 DEF n, A, base, Next1

(* The table has what it says of each of its cells.                         *)
IsLcs(a, b, t) ==
    /\ t \in LcsTables(a, b)
    /\ \A j \in 1 .. (Len(b) + 1) : t[Len(a) + 1][j] = 0
    /\ \A i \in 1 .. (Len(a) + 1) : t[i][Len(b) + 1] = 0
    /\ \A i \in 1 .. Len(a), j \in 1 .. Len(b) :
          t[i][j] = IF a[i] = b[j] THEN t[i + 1][j + 1] + 1
                    ELSE Text!Larger(t[i + 1][j], t[i][j + 1])

(* The table of any two texts has what it says of each of its cells.        *)
LEMMA LcsIs ==
    ASSUME NEW L, NEW a \in Seq(L), NEW b \in Seq(L)
    PROVE  IsLcs(a, b, Text!Lcs(a, b))
<1> DEFINE n == Len(a)
<1>1. PICK r : /\ r[0] = [i \in 1 .. (n + 1) |-> Text!EmptyRow(b)]
               /\ \A k \in 0 .. n : r[k] \in LcsTables(a, b)
               /\ \A k \in 1 .. n : r[k] = Text!AddRow(a, b, r[k - 1], n + 1 - k)
               /\ Text!Lcs(a, b) = r[n]
    BY LcsUnfold
<1>2. n \in Nat
    OBVIOUS
<1> DEFINE Done(k) == /\ r[k][n + 1] = Text!EmptyRow(b)
                      /\ \A i \in (n + 1 - k) .. n : r[k][i] = Text!Row(a[i], b, r[k][i + 1])
           T == {k \in Nat : k <= n => Done(k)}
<1>3. 0 \in T
    <2>1. r[0][n + 1] = Text!EmptyRow(b)
        BY <1>1, <1>2
    <2>2. (n + 1 - 0) .. n = {}
        BY <1>2
    <2>3. QED
        BY <2>1, <2>2
<1>4. ASSUME NEW k \in T
      PROVE  k + 1 \in T
    <2>1. SUFFICES ASSUME k + 1 <= n
                   PROVE  Done(k + 1)
        OBVIOUS
    <2> DEFINE j == n + 1 - (k + 1)
               rows == r[k]
               next == r[k + 1]
    <2>2. /\ k \in Nat /\ Done(k) /\ j \in 1 .. n /\ rows \in LcsTables(a, b)
          /\ next = Text!AddRow(a, b, rows, j)
        <3>1. k + 1 \in 1 .. n /\ (k + 1) - 1 = k /\ k \in 0 .. n
            BY <1>2, <2>1
        <3>2. QED
            BY <1>1, <1>2, <2>1, <3>1
    <2>3. /\ next[j] = Text!Row(a[j], b, rows[j + 1])
          /\ \A i \in 1 .. (n + 1) : i # j => next[i] = rows[i]
        BY <2>2, AddRowIs
    <2>4. \A i \in (j + 1) .. (n + 1) : i \in 1 .. (n + 1) /\ i # j
        BY <1>2, <2>2
    <2>5. (n + 1 - k) .. n = (j + 1) .. n /\ j .. n = {j} \cup ((j + 1) .. n)
        <3>1. j \in Nat /\ j <= n /\ n + 1 - k = j + 1
            BY <1>2, <2>2
        <3> HIDE DEF j
        <3>2. QED
            BY <1>2, <3>1
    <2> HIDE DEF j
    <2>6. next[n + 1] = Text!EmptyRow(b)
        BY <1>2, <2>2, <2>3, <2>4
    <2>7. \A i \in (j + 1) .. n : next[i] = Text!Row(a[i], b, next[i + 1])
        <3> SUFFICES ASSUME NEW i \in (j + 1) .. n
                     PROVE  next[i] = Text!Row(a[i], b, next[i + 1])
            OBVIOUS
        <3>1. i \in (j + 1) .. (n + 1) /\ i + 1 \in (j + 1) .. (n + 1)
            BY <1>2, <2>2
        <3>2. rows[i] = Text!Row(a[i], b, rows[i + 1])
            BY <2>2, <2>5
        <3>3. next[i] = rows[i] /\ next[i + 1] = rows[i + 1]
            BY <2>3, <2>4, <3>1
        <3>4. QED
            BY <3>2, <3>3
    <2>8. next[j] = Text!Row(a[j], b, next[j + 1])
        <3>1. j + 1 \in (j + 1) .. (n + 1)
            BY <1>2, <2>2
        <3>2. next[j + 1] = rows[j + 1]
            BY <2>3, <2>4, <3>1
        <3>3. QED
            BY <2>3, <3>2
    <2>9. QED
        BY <2>5, <2>6, <2>7, <2>8 DEF j
<1>5. T = Nat
    <2> HIDE DEF T
    <2> QED
        BY <1>3, <1>4, Induction DEF T
<1>6. Done(n) /\ n + 1 - n = 1 /\ n \in 0 .. n
    BY <1>2, <1>5
<1> DEFINE t == r[n]
<1>7. t \in LcsTables(a, b)
    BY <1>1, <1>6
<1>8. /\ t[n + 1] = Text!EmptyRow(b)
      /\ \A i \in 1 .. n : t[i] = Text!Row(a[i], b, t[i + 1])
    BY <1>6
<1> HIDE DEF T, Done, t
<1>9. Len(b) \in Nat
    OBVIOUS
<1>10. \A j \in 1 .. (Len(b) + 1) : t[n + 1][j] = 0
    BY <1>8 DEF Text!EmptyRow
<1>11. ASSUME NEW i \in 1 .. n
       PROVE  /\ t[i][Len(b) + 1] = 0
              /\ \A j \in 1 .. Len(b) :
                    t[i][j] = IF a[i] = b[j] THEN t[i + 1][j + 1] + 1
                              ELSE Text!Larger(t[i + 1][j], t[i][j + 1])
    <2>1. t[i + 1] \in Cells(b)
        BY <1>2, <1>7 DEF LcsTables
    <2>2. t[i] = Text!Row(a[i], b, t[i + 1])
        BY <1>8
    <2>3. QED
        BY <2>1, <2>2, RowIs
<1>12. \A i \in 1 .. (n + 1) : t[i][Len(b) + 1] = 0
    <2> SUFFICES ASSUME NEW i \in 1 .. (n + 1)
                 PROVE  t[i][Len(b) + 1] = 0
        OBVIOUS
    <2>1. CASE i = n + 1
        BY <1>9, <1>10, <2>1
    <2>2. CASE i \in 1 .. n
        BY <1>11, <2>2
    <2>3. QED
        BY <1>2, <2>1, <2>2
<1>13. QED
    BY <1>1, <1>7, <1>10, <1>11, <1>12 DEF IsLcs, t

(* The script, edit by edit.                                                *)
TextEdits(L) == [kind : {"keep", "delete", "add"}, line : L, a : Nat, b : Nat]

TextWalks(L, a, b) == [i : 1 .. (Len(a) + 1), j : 1 .. (Len(b) + 1), edits : Seq(TextEdits(L))]

(* A step of the walk is one of four, and it takes the better of the ways.  *)
LEMMA EditStepCases ==
    ASSUME NEW L, NEW a \in Seq(L), NEW b \in Seq(L), NEW t, IsLcs(a, b, t),
           NEW w \in TextWalks(L, a, b)
    PROVE  LET next == Text!EditStep(a, b, t, w)
               to(i, j, edit) == [i |-> i, j |-> j, edits |-> Append(w.edits, edit)]
           IN  \/ /\ w.i = Len(a) + 1 /\ w.j = Len(b) + 1
                  /\ next = w
               \/ /\ w.i \in 1 .. Len(a) /\ w.j \in 1 .. Len(b) /\ a[w.i] = b[w.j]
                  /\ t[w.i][w.j] = t[w.i + 1][w.j + 1] + 1
                  /\ next = to(w.i + 1, w.j + 1, Text!Edit("keep", a[w.i], w.i, w.j))
               \/ /\ w.i \in 1 .. Len(a)
                  /\ t[w.i][w.j] = t[w.i + 1][w.j]
                  /\ next = to(w.i + 1, w.j, Text!Edit("delete", a[w.i], w.i, 0))
               \/ /\ w.j \in 1 .. Len(b)
                  /\ t[w.i][w.j] = t[w.i][w.j + 1]
                  /\ next = to(w.i, w.j + 1, Text!Edit("add", b[w.j], 0, w.j))
<1> DEFINE m == Len(a)
           n == Len(b)
           i == w.i
           j == w.j
<1>1. m \in Nat /\ n \in Nat /\ i \in 1 .. (m + 1) /\ j \in 1 .. (n + 1)
    BY DEF TextWalks
<1>2. \A x \in 1 .. (m + 1), y \in 1 .. (n + 1) : t[x][y] \in Nat
    BY <1>1 DEF IsLcs, LcsTables, Cells
<1>3. \A y \in 1 .. (n + 1) : t[m + 1][y] = 0
    BY DEF IsLcs
<1>4. \A x \in 1 .. (m + 1) : t[x][n + 1] = 0
    BY DEF IsLcs
<1>5. i <= m /\ j <= n => t[i][j] = IF a[i] = b[j] THEN t[i + 1][j + 1] + 1
                                    ELSE Text!Larger(t[i + 1][j], t[i][j + 1])
    <2>1. \A x \in 1 .. m, y \in 1 .. n :
             t[x][y] = IF a[x] = b[y] THEN t[x + 1][y + 1] + 1
                       ELSE Text!Larger(t[x + 1][y], t[x][y + 1])
        BY DEF IsLcs
    <2>2. i <= m /\ j <= n => i \in 1 .. m /\ j \in 1 .. n
        BY <1>1
    <2> HIDE DEF m, n, i, j
    <2>3. QED
        BY <2>1, <2>2
<1> HIDE DEF m, n, i, j
<1>6. CASE i > m /\ j > n
    BY <1>1, <1>6 DEF Text!EditStep, m, n, i, j
<1>7. CASE i <= m /\ j <= n /\ a[i] = b[j]
    <2>1. t[i][j] = t[i + 1][j + 1] + 1 /\ i \in 1 .. m /\ j \in 1 .. n
        BY <1>1, <1>5, <1>7
    <2>2. ~ (i > m /\ j > n)
        BY <1>1, <1>7
    <2>3. QED
        BY <1>7, <2>1, <2>2 DEF Text!EditStep, m, n, i, j
<1>8. CASE ~ (i > m /\ j > n) /\ ~ (i <= m /\ j <= n /\ a[i] = b[j]) /\ Text!Drops(a, b, t, i, j)
    <2>1. i \in 1 .. m /\ (j > n \/ t[i + 1][j] >= t[i][j + 1])
        BY <1>1, <1>8 DEF Text!Drops, m, n
    <2>2. t[i][j] = t[i + 1][j]
        <3>1. CASE j > n
            <4>1. j = n + 1 /\ i + 1 \in 1 .. (m + 1)
                BY <1>1, <2>1, <3>1
            <4>2. QED
                BY <1>1, <1>4, <4>1
        <3>2. CASE j <= n
            <4>1. /\ t[i + 1][j] \in Nat /\ t[i][j + 1] \in Nat
                  /\ t[i + 1][j] >= t[i][j + 1]
                BY <1>1, <1>2, <2>1, <3>2
            <4>2. t[i][j] = Text!Larger(t[i + 1][j], t[i][j + 1])
                BY <1>5, <1>8, <2>1, <3>2
            <4>3. QED
                BY <4>1, <4>2 DEF Text!Larger
        <3>3. QED
            BY <1>1, <3>1, <3>2
    <2>3. QED
        BY <1>8, <2>1, <2>2 DEF Text!EditStep, m, n, i, j
<1>9. CASE ~ (i > m /\ j > n) /\ ~ (i <= m /\ j <= n /\ a[i] = b[j]) /\ ~ Text!Drops(a, b, t, i, j)
    <2>1. ~ (i <= m /\ (j > n \/ t[i + 1][j] >= t[i][j + 1]))
        BY <1>9 DEF Text!Drops, m, n
    <2>2. j \in 1 .. n
        BY <1>1, <1>9, <2>1
    <2>3. t[i][j] = t[i][j + 1]
        <3>1. CASE i > m
            <4>1. i = m + 1 /\ j + 1 \in 1 .. (n + 1)
                BY <1>1, <2>2, <3>1
            <4>2. QED
                BY <1>1, <1>3, <4>1
        <3>2. CASE i <= m
            <4>1. /\ t[i + 1][j] \in Nat /\ t[i][j + 1] \in Nat
                  /\ ~ (t[i + 1][j] >= t[i][j + 1])
                BY <1>1, <1>2, <2>1, <2>2, <3>2
            <4>2. t[i][j] = Text!Larger(t[i + 1][j], t[i][j + 1])
                BY <1>1, <1>5, <1>9, <2>2, <3>2
            <4>3. QED
                BY <4>1, <4>2 DEF Text!Larger
        <3>3. QED
            BY <1>1, <3>1, <3>2
    <2>4. QED
        BY <1>9, <2>2, <2>3 DEF Text!EditStep, m, n, i, j
<1>10. QED
    BY <1>6, <1>7, <1>8, <1>9

(* A step of the walk ends at a place of the table.                         *)
LEMMA EditStepTyped ==
    ASSUME NEW L, NEW a \in Seq(L), NEW b \in Seq(L), NEW t, IsLcs(a, b, t),
           NEW w \in TextWalks(L, a, b)
    PROVE  Text!EditStep(a, b, t, w) \in TextWalks(L, a, b)
<1> DEFINE to(i, j, edit) == [i |-> i, j |-> j, edits |-> Append(w.edits, edit)]
<1>1. Len(a) \in Nat /\ Len(b) \in Nat /\ w.i \in 1 .. (Len(a) + 1) /\ w.j \in 1 .. (Len(b) + 1)
    BY DEF TextWalks
<1>2. \A i \in 1 .. (Len(a) + 1), j \in 1 .. (Len(b) + 1), edit \in TextEdits(L) :
         to(i, j, edit) \in TextWalks(L, a, b)
    BY AppendProperties DEF TextWalks
<1>3. w.i \in 1 .. Len(a) => /\ w.i + 1 \in 1 .. (Len(a) + 1)
                             /\ Text!Edit("keep", a[w.i], w.i, w.j) \in TextEdits(L)
                             /\ Text!Edit("delete", a[w.i], w.i, 0) \in TextEdits(L)
    BY <1>1 DEF Text!Edit, TextEdits
<1>4. w.j \in 1 .. Len(b) => /\ w.j + 1 \in 1 .. (Len(b) + 1)
                             /\ Text!Edit("add", b[w.j], 0, w.j) \in TextEdits(L)
    BY <1>1 DEF Text!Edit, TextEdits
<1> DEFINE next == Text!EditStep(a, b, t, w)
<1>5. \/ next = w
      \/ /\ w.i \in 1 .. Len(a) /\ w.j \in 1 .. Len(b)
         /\ next = to(w.i + 1, w.j + 1, Text!Edit("keep", a[w.i], w.i, w.j))
      \/ w.i \in 1 .. Len(a) /\ next = to(w.i + 1, w.j, Text!Edit("delete", a[w.i], w.i, 0))
      \/ w.j \in 1 .. Len(b) /\ next = to(w.i, w.j + 1, Text!Edit("add", b[w.j], 0, w.j))
    BY EditStepCases
<1> HIDE DEF to, next
<1>6. ASSUME w.i \in 1 .. Len(a), w.j \in 1 .. Len(b)
      PROVE  to(w.i + 1, w.j + 1, Text!Edit("keep", a[w.i], w.i, w.j)) \in TextWalks(L, a, b)
    BY <1>2, <1>3, <1>4, <1>6
<1>7. ASSUME w.i \in 1 .. Len(a)
      PROVE  to(w.i + 1, w.j, Text!Edit("delete", a[w.i], w.i, 0)) \in TextWalks(L, a, b)
    BY <1>1, <1>2, <1>3, <1>7
<1>8. ASSUME w.j \in 1 .. Len(b)
      PROVE  to(w.i, w.j + 1, Text!Edit("add", b[w.j], 0, w.j)) \in TextWalks(L, a, b)
    BY <1>1, <1>2, <1>4, <1>8
<1>9. QED
    BY <1>5, <1>6, <1>7, <1>8 DEF next

(* The script is what the walk has written when its steps are done.         *)
LEMMA ScriptUnfold ==
    ASSUME NEW L, NEW a \in Seq(L), NEW b \in Seq(L), NEW t,
           t = Text!Lcs(a, b), IsLcs(a, b, t)
    PROVE  \E r : /\ r[0] = Text!ScriptStart
                  /\ \A k \in 0 .. (Len(a) + Len(b)) : r[k] \in TextWalks(L, a, b)
                  /\ \A k \in 1 .. (Len(a) + Len(b)) : r[k] = Text!EditStep(a, b, t, r[k - 1])
                  /\ Text!EditScript(a, b) = r[(Len(a) + Len(b))].edits
<1> DEFINE n == (Len(a) + Len(b))
           A == TextWalks(L, a, b)
           base == Text!ScriptStart
           Next1(r, k) == Text!EditStep(a, b, t, r)
           step == [p \in A \X (1 .. n) |-> Next1(p[1], p[2])]
           Unfolds(f) == f = [k \in 0 .. n |-> IF k = 0 THEN base ELSE Next1(f[k - 1], k)]
           walk == CHOOSE f : Unfolds(f)
<1>1. n \in Nat
    OBVIOUS
<1>2. base \in A
    BY <1>1 DEF Text!ScriptStart, TextWalks
<1>3. step \in [A \X (1 .. n) -> A]
    <2>1. ASSUME NEW p \in A \X (1 .. n)
          PROVE  Next1(p[1], p[2]) \in A
        <3>1. p[1] \in TextWalks(L, a, b)
            OBVIOUS
        <3>2. QED
            BY <3>1, EditStepTyped
    <2>2. QED
        BY <2>1
<1>4. Text!EditScript(a, b) = walk[n].edits
    BY DEF Text!EditScript
<1> HIDE DEF A, base, Next1
<1>5. \A r \in A, k \in 1 .. n : step[<<r, k>>] = Next1(r, k)
    OBVIOUS
<1> HIDE DEF n, step
<1>6. PICK f : StepsUp(n, A, base, step, f)
    BY <1>1, <1>2, <1>3, StepsExist
<1>7. Unfolds(f)
    <2>1. \A k \in 1 .. n : f[k - 1] \in A /\ f[k] = Next1(f[k - 1], k)
        <3>1. \A k \in 1 .. n : k - 1 \in 0 .. n
            BY <1>1
        <3>2. \A k \in 1 .. n : f[k - 1] \in A /\ f[k] = step[<<f[k - 1], k>>]
            BY <1>6, <3>1 DEF StepsUp
        <3>3. QED
            BY <1>5, <3>2
    <2>2. f = [k \in 0 .. n |-> f[k]]
        BY <1>6 DEF StepsUp
    <2>3. \A k \in 0 .. n : f[k] = IF k = 0 THEN base ELSE Next1(f[k - 1], k)
        BY <1>1, <1>6, <2>1 DEF StepsUp
    <2>4. QED
        BY <2>2, <2>3
<1>8. Unfolds(walk)
    <2> HIDE DEF Unfolds
    <2> QED
        BY <1>7
<1> HIDE DEF walk
<1>9. walk[0] = base /\ \A k \in 1 .. n : walk[k] = Next1(walk[k - 1], k)
    BY <1>1, <1>8
<1>10. \A k \in 0 .. n : walk[k] \in A
    <2>1. StepsWithin(n, A, base, step, walk)
        BY <1>5, <1>9 DEF StepsWithin
    <2>2. QED
        BY <1>1, <1>2, <1>3, <2>1, StepsTyped
<1>11. QED
    BY <1>4, <1>9, <1>10 DEF n, A, base, Next1

(* How a script spells one of its texts: c counts the lines of that text    *)
(* up to an edit, and f is the field that numbers them.                     *)
Spells(t, side, f, e, c) ==
    /\ c \in [0 .. Len(e) -> Nat] /\ c[0] = 0
    /\ \A k \in 1 .. Len(e) :
          IF e[k].kind \in {"keep", side}
          THEN /\ c[k] = c[k - 1] + 1 /\ c[k] <= Len(t)
               /\ e[k][f] = c[k] /\ e[k].line = t[c[k]]
          ELSE c[k] = c[k - 1] /\ e[k][f] = 0

(* One edit more spells one line more, or none.                             *)
LEMMA SpellsMore ==
    ASSUME NEW L, NEW t \in Seq(L), NEW side, NEW f, NEW e \in Seq(TextEdits(L)), NEW c,
           Spells(t, side, f, e, c), NEW edit \in TextEdits(L), NEW count \in Nat,
           IF edit.kind \in {"keep", side}
           THEN /\ count = c[Len(e)] + 1 /\ count <= Len(t)
                /\ edit[f] = count /\ edit.line = t[count]
           ELSE count = c[Len(e)] /\ edit[f] = 0
    PROVE  \E d : /\ Spells(t, side, f, Append(e, edit), d)
                  /\ d[Len(Append(e, edit))] = count
<1> DEFINE n == Len(e)
           more == Append(e, edit)
           d == [k \in 0 .. (n + 1) |-> IF k <= n THEN c[k] ELSE count]
<1>1. n \in Nat /\ Len(more) = n + 1 /\ more[n + 1] = edit /\ \A k \in 1 .. n : more[k] = e[k]
    BY AppendProperties, LenProperties, ElementOfSeq
<1>2. c \in [0 .. n -> Nat] /\ c[0] = 0
    BY DEF Spells
<1>3. d \in [0 .. (n + 1) -> Nat] /\ d[n + 1] = count /\ \A k \in 0 .. n : d[k] = c[k]
    BY <1>1, <1>2
<1> HIDE DEF more, d
<1>4. ASSUME NEW k \in 1 .. (n + 1)
      PROVE  IF more[k].kind \in {"keep", side}
             THEN /\ d[k] = d[k - 1] + 1 /\ d[k] <= Len(t)
                  /\ more[k][f] = d[k] /\ more[k].line = t[d[k]]
             ELSE d[k] = d[k - 1] /\ more[k][f] = 0
    <2>1. CASE k = n + 1
        <3>1. k - 1 = n /\ n \in 0 .. n
            BY <1>1, <2>1
        <3>2. d[k] = count /\ d[k - 1] = c[n] /\ more[k] = edit
            BY <1>1, <1>3, <2>1, <3>1
        <3>3. QED
            BY <3>2
    <2>2. CASE k \in 1 .. n
        <3>1. k - 1 \in 0 .. n /\ k \in 0 .. n
            BY <1>1, <2>2
        <3>2. d[k] = c[k] /\ d[k - 1] = c[k - 1] /\ more[k] = e[k]
            BY <1>1, <1>3, <2>2, <3>1
        <3>3. QED
            BY <2>2, <3>2 DEF Spells
    <2>3. QED
        BY <1>1, <2>1, <2>2
<1>5. Spells(t, side, f, more, d)
    <2>1. d[0] = 0
        BY <1>1, <1>2, <1>3
    <2>2. QED
        BY <1>1, <1>3, <1>4, <2>1 DEF Spells
<1>6. QED
    BY <1>1, <1>3, <1>5 DEF more

(* The lines a script keeps.                                                *)
Kept(e) == {k \in DOMAIN e : e[k].kind = "keep"}

(* One edit more keeps one line more, or none.                              *)
LEMMA KeptMore ==
    ASSUME NEW L, NEW e \in Seq(TextEdits(L)), NEW edit \in TextEdits(L)
    PROVE  /\ Cardinality(Kept(e)) \in Nat
           /\ Cardinality(Kept(Append(e, edit)))
                = Cardinality(Kept(e)) + (IF edit.kind = "keep" THEN 1 ELSE 0)
<1>1. /\ DOMAIN Append(e, edit) = (DOMAIN e) \cup {Len(e) + 1}
      /\ Len(e) + 1 \notin DOMAIN e
      /\ \A k \in DOMAIN e : Append(e, edit)[k] = e[k]
      /\ Append(e, edit)[Len(e) + 1] = edit
    BY AppendProperties
<1>2. Kept(Append(e, edit)) = Kept(e) \cup (IF edit.kind = "keep" THEN {Len(e) + 1} ELSE {})
    BY <1>1 DEF Kept
<1>3. IsFiniteSet(Kept(e)) /\ Cardinality(Kept(e)) \in Nat
    <2>1. DOMAIN e = 1 .. Len(e) /\ Len(e) \in Nat
        BY LenProperties, ElementOfSeq
    <2>2. IsFiniteSet(DOMAIN e)
        BY <2>1, FS_Interval
    <2>3. Kept(e) \subseteq DOMAIN e
        BY DEF Kept
    <2>4. QED
        BY <2>2, <2>3, FS_Subset, FS_CardinalityType
<1>4. Len(e) + 1 \notin Kept(e)
    BY <1>1 DEF Kept
<1>5. Cardinality(Kept(e) \cup {Len(e) + 1}) = Cardinality(Kept(e)) + 1
    BY <1>3, <1>4, FS_AddElement
<1>6. CASE edit.kind = "keep"
    <2>1. Kept(Append(e, edit)) = Kept(e) \cup {Len(e) + 1}
        BY <1>2, <1>6
    <2>2. QED
        BY <1>3, <1>5, <1>6, <2>1
<1>7. CASE edit.kind # "keep"
    <2>1. Kept(Append(e, edit)) = Kept(e)
        BY <1>2, <1>7
    <2>2. QED
        BY <1>3, <1>7, <2>1
<1>8. QED
    BY <1>6, <1>7

(* What the walk has when it has taken k steps, with the two texts spelled  *)
(* as far as it came and nothing lost that the table promised.              *)
SpelledUpTo(t, side, f, e, count) ==
    \E c : Spells(t, side, f, e, c) /\ c[Len(e)] = count

Walked(L, a, b, t, k, w) ==
    /\ w \in TextWalks(L, a, b)
    /\ w.i + w.j >= k + 2 \/ (w.i = Len(a) + 1 /\ w.j = Len(b) + 1)
    /\ SpelledUpTo(a, "delete", "a", w.edits, w.i - 1)
    /\ SpelledUpTo(b, "add", "b", w.edits, w.j - 1)
    /\ Cardinality(Kept(w.edits)) + t[w.i][w.j] = t[1][1]

(* The same of how far a script has spelled a text.                         *)
LEMMA SpelledMore ==
    ASSUME NEW L, NEW t \in Seq(L), NEW side, NEW f, NEW e \in Seq(TextEdits(L)),
           NEW edit \in TextEdits(L), NEW from \in Nat, NEW count \in Nat,
           SpelledUpTo(t, side, f, e, from),
           IF edit.kind \in {"keep", side}
           THEN count = from + 1 /\ count <= Len(t) /\ edit[f] = count /\ edit.line = t[count]
           ELSE count = from /\ edit[f] = 0
    PROVE  SpelledUpTo(t, side, f, Append(e, edit), count)
<1>1. PICK c : Spells(t, side, f, e, c) /\ c[Len(e)] = from
    BY DEF SpelledUpTo
<1>2. \E d : /\ Spells(t, side, f, Append(e, edit), d)
             /\ d[Len(Append(e, edit))] = count
    BY <1>1, SpellsMore
<1>3. QED
    BY <1>2 DEF SpelledUpTo

(* A step of the walk spells on, and loses nothing the table promised.      *)
LEMMA WalkedMore ==
    ASSUME NEW L, NEW a \in Seq(L), NEW b \in Seq(L), NEW t, IsLcs(a, b, t),
           NEW k \in Nat, NEW w, Walked(L, a, b, t, k, w)
    PROVE  Walked(L, a, b, t, k + 1, Text!EditStep(a, b, t, w))
<1> DEFINE next == Text!EditStep(a, b, t, w)
           i == w.i
           j == w.j
           e == w.edits
           m == Len(a)
           n == Len(b)
           to(x, y, edit) == [i |-> x, j |-> y, edits |-> Append(e, edit)]
<1>1. /\ w \in TextWalks(L, a, b) /\ next \in TextWalks(L, a, b)
      /\ m \in Nat /\ n \in Nat /\ i \in 1 .. (m + 1) /\ j \in 1 .. (n + 1)
      /\ e \in Seq(TextEdits(L))
    BY EditStepTyped DEF Walked, TextWalks
<1>2. /\ i + j >= k + 2 \/ (i = m + 1 /\ j = n + 1)
      /\ SpelledUpTo(a, "delete", "a", e, i - 1)
      /\ SpelledUpTo(b, "add", "b", e, j - 1)
      /\ Cardinality(Kept(e)) + t[i][j] = t[1][1]
    BY DEF Walked
<1>3. \A x \in 1 .. (m + 1), y \in 1 .. (n + 1) : t[x][y] \in Nat
    BY <1>1 DEF IsLcs, LcsTables, Cells
<1>4. Cardinality(Kept(e)) \in Nat /\ t[1][1] \in Nat
    <2>2. 1 \in 1 .. (m + 1) /\ 1 \in 1 .. (n + 1)
        BY <1>1
    <2>3. IsFiniteSet(Kept(e))
        <3>1. DOMAIN e = 1 .. Len(e) /\ Len(e) \in Nat
            BY <1>1, LenProperties, ElementOfSeq
        <3>2. IsFiniteSet(DOMAIN e)
            BY <3>1, FS_Interval
        <3>3. Kept(e) \subseteq DOMAIN e
            BY DEF Kept
        <3>4. QED
            BY <3>2, <3>3, FS_Subset
    <2>4. QED
        BY <1>3, <2>2, <2>3, FS_CardinalityType
<1>5. \/ i = m + 1 /\ j = n + 1 /\ next = w
      \/ /\ i \in 1 .. m /\ j \in 1 .. n /\ a[i] = b[j] /\ t[i][j] = t[i + 1][j + 1] + 1
         /\ next = to(i + 1, j + 1, Text!Edit("keep", a[i], i, j))
      \/ /\ i \in 1 .. m /\ t[i][j] = t[i + 1][j]
         /\ next = to(i + 1, j, Text!Edit("delete", a[i], i, 0))
      \/ /\ j \in 1 .. n /\ t[i][j] = t[i][j + 1]
         /\ next = to(i, j + 1, Text!Edit("add", b[j], 0, j))
    BY <1>1, EditStepCases
<1>6. \A x \in 1 .. m : a[x] \in L
    OBVIOUS
<1>7. \A y \in 1 .. n : b[y] \in L
    OBVIOUS
<1> HIDE DEF m, n, i, j, e, next
<1>8. CASE i = m + 1 /\ j = n + 1 /\ next = w
    BY <1>1, <1>2, <1>8 DEF Walked, m, n, i, j, e, next
<1>9. CASE /\ i \in 1 .. m /\ j \in 1 .. n /\ a[i] = b[j] /\ t[i][j] = t[i + 1][j + 1] + 1
           /\ next = to(i + 1, j + 1, Text!Edit("keep", a[i], i, j))
    <2> DEFINE edit == Text!Edit("keep", a[i], i, j)
    <2>1. /\ edit \in TextEdits(L) /\ edit.kind = "keep" /\ edit["a"] = i /\ edit["b"] = j
          /\ edit.line = a[i] /\ edit.line = b[j]
        BY <1>1, <1>6, <1>9 DEF Text!Edit, TextEdits
    <2> HIDE DEF edit
    <2>2. next.i = i + 1 /\ next.j = j + 1 /\ next.edits = Append(e, edit)
        BY <1>9 DEF edit
    <2>3. /\ i \in Nat /\ i - 1 \in Nat /\ i = (i - 1) + 1 /\ i <= Len(a)
          /\ j \in Nat /\ j - 1 \in Nat /\ j = (j - 1) + 1 /\ j <= Len(b)
        BY <1>1, <1>9 DEF m, n
    <2>4. SpelledUpTo(a, "delete", "a", Append(e, edit), i)
        BY <1>1, <1>2, <2>1, <2>3, SpelledMore
    <2>5. SpelledUpTo(b, "add", "b", Append(e, edit), j)
        BY <1>1, <1>2, <2>1, <2>3, SpelledMore
    <2>6. Cardinality(Kept(Append(e, edit))) = Cardinality(Kept(e)) + 1
        BY <1>1, <2>1, KeptMore
    <2>7. t[i][j] \in Nat /\ t[i + 1][j + 1] \in Nat
        <3>1. i \in 1 .. (m + 1) /\ j \in 1 .. (n + 1) /\ i + 1 \in 1 .. (m + 1) /\ j + 1 \in 1 .. (n + 1)
            BY <1>1, <1>9
        <3>2. QED
            BY <1>3, <3>1
    <2>8. Cardinality(Kept(next.edits)) + t[next.i][next.j] = t[1][1]
        <3>1. Cardinality(Kept(next.edits)) = Cardinality(Kept(e)) + 1
            BY <2>2, <2>6
        <3>2. t[next.i][next.j] = t[i + 1][j + 1]
            BY <2>2
        <3>3. Cardinality(Kept(e)) + t[i][j] = t[1][1] /\ t[i][j] = t[i + 1][j + 1] + 1
            BY <1>2, <1>9
        <3>4. PICK x \in Nat, y \in Nat, z \in Nat :
                 x = Cardinality(Kept(e)) /\ y = t[i][j] /\ z = t[i + 1][j + 1]
            BY <1>4, <2>7
        <3>5. x + y = t[1][1] /\ y = z + 1
            BY <3>3, <3>4
        <3>6. (x + 1) + z = x + y
            BY <3>5
        <3>7. QED
            BY <3>1, <3>2, <3>4, <3>5, <3>6
    <2>9. next.i + next.j >= (k + 1) + 2 \/ (next.i = m + 1 /\ next.j = n + 1)
        BY <1>1, <1>2, <1>9, <2>2
    <2>10. SpelledUpTo(a, "delete", "a", next.edits, next.i - 1)
        BY <2>2, <2>3, <2>4
    <2>11. SpelledUpTo(b, "add", "b", next.edits, next.j - 1)
        BY <2>2, <2>3, <2>5
    <2>12. QED
        BY <1>1, <2>8, <2>9, <2>10, <2>11 DEF Walked, next, m, n
<1>10. CASE /\ i \in 1 .. m /\ t[i][j] = t[i + 1][j]
            /\ next = to(i + 1, j, Text!Edit("delete", a[i], i, 0))
    <2> DEFINE edit == Text!Edit("delete", a[i], i, 0)
    <2>1. /\ edit \in TextEdits(L) /\ edit.kind = "delete" /\ edit["a"] = i /\ edit["b"] = 0
          /\ edit.line = a[i]
        BY <1>1, <1>6, <1>10 DEF Text!Edit, TextEdits
    <2> HIDE DEF edit
    <2>2. next.i = i + 1 /\ next.j = j /\ next.edits = Append(e, edit)
        BY <1>10 DEF edit
    <2>3. /\ i \in Nat /\ i - 1 \in Nat /\ i = (i - 1) + 1 /\ i <= Len(a)
          /\ j - 1 \in Nat
        BY <1>1, <1>10 DEF m, n
    <2>4. SpelledUpTo(a, "delete", "a", Append(e, edit), i)
        BY <1>1, <1>2, <2>1, <2>3, SpelledMore
    <2>5. SpelledUpTo(b, "add", "b", Append(e, edit), j - 1)
        BY <1>1, <1>2, <2>1, <2>3, SpelledMore
    <2>6. Cardinality(Kept(Append(e, edit))) = Cardinality(Kept(e)) + 0
        BY <1>1, <2>1, KeptMore
    <2>7. t[i][j] \in Nat /\ t[i + 1][j] \in Nat
        <3>1. i \in 1 .. (m + 1) /\ j \in 1 .. (n + 1) /\ i + 1 \in 1 .. (m + 1)
            BY <1>1, <1>10
        <3>2. QED
            BY <1>3, <3>1
    <2>8. Cardinality(Kept(next.edits)) + t[next.i][next.j] = t[1][1]
        <3>1. Cardinality(Kept(next.edits)) = Cardinality(Kept(e)) + 0
            BY <2>2, <2>6
        <3>2. t[next.i][next.j] = t[i + 1][j]
            BY <2>2
        <3>3. Cardinality(Kept(e)) + t[i][j] = t[1][1] /\ t[i][j] = t[i + 1][j]
            BY <1>2, <1>10
        <3>4. QED
            BY <1>4, <2>7, <3>1, <3>2, <3>3
    <2>9. next.i + next.j >= (k + 1) + 2 \/ (next.i = m + 1 /\ next.j = n + 1)
        BY <1>1, <1>2, <1>10, <2>2
    <2>10. SpelledUpTo(a, "delete", "a", next.edits, next.i - 1)
        BY <2>2, <2>3, <2>4
    <2>11. SpelledUpTo(b, "add", "b", next.edits, next.j - 1)
        BY <2>2, <2>3, <2>5
    <2>12. QED
        BY <1>1, <2>8, <2>9, <2>10, <2>11 DEF Walked, next, m, n
<1>11. CASE /\ j \in 1 .. n /\ t[i][j] = t[i][j + 1]
            /\ next = to(i, j + 1, Text!Edit("add", b[j], 0, j))
    <2> DEFINE edit == Text!Edit("add", b[j], 0, j)
    <2>1. /\ edit \in TextEdits(L) /\ edit.kind = "add" /\ edit["a"] = 0 /\ edit["b"] = j
          /\ edit.line = b[j]
        BY <1>1, <1>7, <1>11 DEF Text!Edit, TextEdits
    <2> HIDE DEF edit
    <2>2. next.i = i /\ next.j = j + 1 /\ next.edits = Append(e, edit)
        BY <1>11 DEF edit
    <2>3. /\ i - 1 \in Nat
          /\ j \in Nat /\ j - 1 \in Nat /\ j = (j - 1) + 1 /\ j <= Len(b)
        BY <1>1, <1>11 DEF m, n
    <2>4. SpelledUpTo(a, "delete", "a", Append(e, edit), i - 1)
        BY <1>1, <1>2, <2>1, <2>3, SpelledMore
    <2>5. SpelledUpTo(b, "add", "b", Append(e, edit), j)
        BY <1>1, <1>2, <2>1, <2>3, SpelledMore
    <2>6. Cardinality(Kept(Append(e, edit))) = Cardinality(Kept(e)) + 0
        BY <1>1, <2>1, KeptMore
    <2>7. t[i][j] \in Nat /\ t[i][j + 1] \in Nat
        <3>1. i \in 1 .. (m + 1) /\ j \in 1 .. (n + 1) /\ j + 1 \in 1 .. (n + 1)
            BY <1>1, <1>11
        <3>2. QED
            BY <1>3, <3>1
    <2>8. Cardinality(Kept(next.edits)) + t[next.i][next.j] = t[1][1]
        <3>1. Cardinality(Kept(next.edits)) = Cardinality(Kept(e)) + 0
            BY <2>2, <2>6
        <3>2. t[next.i][next.j] = t[i][j + 1]
            BY <2>2
        <3>3. Cardinality(Kept(e)) + t[i][j] = t[1][1] /\ t[i][j] = t[i][j + 1]
            BY <1>2, <1>11
        <3>4. QED
            BY <1>4, <2>7, <3>1, <3>2, <3>3
    <2>9. next.i + next.j >= (k + 1) + 2 \/ (next.i = m + 1 /\ next.j = n + 1)
        BY <1>1, <1>2, <1>11, <2>2
    <2>10. SpelledUpTo(a, "delete", "a", next.edits, next.i - 1)
        BY <2>2, <2>3, <2>4
    <2>11. SpelledUpTo(b, "add", "b", next.edits, next.j - 1)
        BY <2>2, <2>3, <2>5
    <2>12. QED
        BY <1>1, <2>8, <2>9, <2>10, <2>11 DEF Walked, next, m, n
<1>12. QED
    BY <1>5, <1>8, <1>9, <1>10, <1>11 DEF next

(* A script spells both texts and keeps as many lines as the table says.    *)
LEMMA ScriptIs ==
    ASSUME NEW L, NEW a \in Seq(L), NEW b \in Seq(L)
    PROVE  LET e == Text!EditScript(a, b)
           IN  /\ e \in Seq(TextEdits(L))
               /\ SpelledUpTo(a, "delete", "a", e, Len(a))
               /\ SpelledUpTo(b, "add", "b", e, Len(b))
               /\ Cardinality(Kept(e)) = Text!Lcs(a, b)[1][1]
<1> DEFINE t == Text!Lcs(a, b)
           n == Len(a) + Len(b)
<1>1. IsLcs(a, b, t)
    BY LcsIs
<1>2. n \in Nat /\ Len(a) \in Nat /\ Len(b) \in Nat
    OBVIOUS
<1> DEFINE Facts(r) == /\ r[0] = Text!ScriptStart
                       /\ \A k \in 0 .. n : r[k] \in TextWalks(L, a, b)
                       /\ \A k \in 1 .. n : r[k] = Text!EditStep(a, b, t, r[k - 1])
                       /\ Text!EditScript(a, b) = r[n].edits
<1>3. \E r : Facts(r)
    BY <1>1, ScriptUnfold
<1> HIDE DEF t
<1>4. PICK r : Facts(r)
    BY <1>3
<1>5. Walked(L, a, b, t, 0, r[0])
    <2>1. r[0] = [i |-> 1, j |-> 1, edits |-> <<>>]
        BY <1>4 DEF Text!ScriptStart
    <2>2. r[0] \in TextWalks(L, a, b)
        BY <1>2, <1>4
    <2>3. Kept(<<>>) = {} /\ Cardinality({}) = 0
        BY FS_EmptySet DEF Kept
    <2>4. t[1][1] \in Nat
        <3>1. 1 \in 1 .. (Len(a) + 1) /\ 1 \in 1 .. (Len(b) + 1)
            BY <1>2
        <3>2. QED
            BY <1>1, <3>1 DEF IsLcs, LcsTables, Cells
    <2>5. \A text, side, f : SpelledUpTo(text, side, f, <<>>, 0)
        <3> SUFFICES ASSUME NEW text, NEW side, NEW f
                     PROVE  SpelledUpTo(text, side, f, <<>>, 0)
            OBVIOUS
        <3>1. Spells(text, side, f, <<>>, [k \in 0 .. 0 |-> 0])
            BY DEF Spells
        <3>2. [k \in 0 .. 0 |-> 0][Len(<<>>)] = 0
            OBVIOUS
        <3>3. QED
            BY <3>1, <3>2 DEF SpelledUpTo
    <2>6. r[0].i = 1 /\ r[0].j = 1 /\ r[0].edits = <<>>
        BY <2>1
    <2>7. r[0].i - 1 = 0 /\ r[0].j - 1 = 0 /\ r[0].i + r[0].j >= 0 + 2
        BY <2>6
    <2>8. Cardinality(Kept(r[0].edits)) + t[r[0].i][r[0].j] = t[1][1]
        <3>1. Cardinality(Kept(r[0].edits)) = 0
            BY <2>3, <2>6
        <3>2. t[r[0].i][r[0].j] = t[1][1]
            BY <2>6
        <3> HIDE DEF Facts
        <3>3. QED
            BY <2>4, <3>1, <3>2
    <2>9. SpelledUpTo(a, "delete", "a", r[0].edits, r[0].i - 1)
        BY <2>5, <2>6, <2>7
    <2>10. SpelledUpTo(b, "add", "b", r[0].edits, r[0].j - 1)
        BY <2>5, <2>6, <2>7
    <2> HIDE DEF Facts
    <2>11. QED
        BY <2>2, <2>7, <2>8, <2>9, <2>10 DEF Walked
<1> DEFINE T == {k \in Nat : k <= n => Walked(L, a, b, t, k, r[k])}
<1>6. 0 \in T
    BY <1>5
<1>7. ASSUME NEW k \in T
      PROVE  k + 1 \in T
    <2>1. SUFFICES ASSUME k + 1 <= n
                   PROVE  Walked(L, a, b, t, k + 1, r[k + 1])
        OBVIOUS
    <2>2. k + 1 \in 1 .. n /\ (k + 1) - 1 = k /\ k <= n /\ k \in Nat
        BY <1>2, <2>1
    <2>3. r[k + 1] = Text!EditStep(a, b, t, r[k]) /\ Walked(L, a, b, t, k, r[k])
        BY <1>4, <2>2
    <2>4. QED
        BY <1>1, <2>2, <2>3, WalkedMore
<1>8. T = Nat
    <2> HIDE DEF T
    <2> QED
        BY <1>6, <1>7, Induction DEF T
<1>9. Walked(L, a, b, t, n, r[n])
    BY <1>2, <1>8
<1> DEFINE w == r[n]
<1>10. /\ w.i \in 1 .. (Len(a) + 1) /\ w.j \in 1 .. (Len(b) + 1) /\ w.edits \in Seq(TextEdits(L))
       /\ w.i + w.j >= n + 2 \/ (w.i = Len(a) + 1 /\ w.j = Len(b) + 1)
       /\ SpelledUpTo(a, "delete", "a", w.edits, w.i - 1)
       /\ SpelledUpTo(b, "add", "b", w.edits, w.j - 1)
       /\ Cardinality(Kept(w.edits)) + t[w.i][w.j] = t[1][1]
    BY <1>9 DEF Walked, TextWalks
<1> HIDE DEF w, T
<1>11. w.i = Len(a) + 1 /\ w.j = Len(b) + 1
    BY <1>2, <1>10
<1>12. t[w.i][w.j] = 0
    <2>1. w.j \in 1 .. (Len(b) + 1)
        BY <1>10
    <2>2. QED
        BY <1>1, <1>11, <2>1 DEF IsLcs
<1>13. Cardinality(Kept(w.edits)) \in Nat
    <2>1. IsFiniteSet(Kept(w.edits))
        <3>1. DOMAIN w.edits = 1 .. Len(w.edits) /\ Len(w.edits) \in Nat
            BY <1>10, LenProperties, ElementOfSeq
        <3>2. IsFiniteSet(DOMAIN w.edits)
            BY <3>1, FS_Interval
        <3>3. Kept(w.edits) \subseteq DOMAIN w.edits
            BY DEF Kept
        <3>4. QED
            BY <3>2, <3>3, FS_Subset
    <2>2. QED
        BY <2>1, FS_CardinalityType
<1>14. Text!EditScript(a, b) = w.edits
    BY <1>4 DEF w
<1>15. w.i - 1 = Len(a) /\ w.j - 1 = Len(b)
    BY <1>2, <1>11
<1>16. QED
    BY <1>10, <1>12, <1>13, <1>14, <1>15 DEF t

(* No lines matched in their order are more than the table promises.        *)
LEMMA NoMatchIsLonger ==
    ASSUME NEW L, NEW a \in Seq(L), NEW b \in Seq(L), NEW t, IsLcs(a, b, t),
           NEW part \in SUBSET (1 .. Len(a)), NEW match \in [part -> 1 .. Len(b)],
           InOrder(a, b, match)
    PROVE  Cardinality(part) <= t[1][1]
<1> DEFINE m == Len(a)
           n == Len(b)
           Fits(I, i, j) == \A x \in I : x >= i /\ match[x] >= j
           Bound(i, j) == \A I \in SUBSET part : Fits(I, i, j) => Cardinality(I) <= t[i][j]
           T == {s \in Nat : \A i \in 1 .. (m + 1), j \in 1 .. (n + 1) :
                                (m + 1 - i) + (n + 1 - j) <= s => Bound(i, j)}
<1>1. m \in Nat /\ n \in Nat
    OBVIOUS
<1>2. \A i \in 1 .. (m + 1), j \in 1 .. (n + 1) : t[i][j] \in Nat
    BY <1>1 DEF IsLcs, LcsTables, Cells
<1>3. /\ \A x \in part : x \in 1 .. m /\ match[x] \in 1 .. n /\ a[x] = b[match[x]]
      /\ \A x, y \in part : x < y => match[x] < match[y]
    BY DEF InOrder
<1>4. \A I \in SUBSET part : IsFiniteSet(I) /\ Cardinality(I) \in Nat
    <2>1. IsFiniteSet(1 .. m)
        BY <1>1, FS_Interval
    <2>2. \A I \in SUBSET part : IsFiniteSet(I)
        BY <2>1, FS_Subset
    <2>3. QED
        BY <2>2, FS_CardinalityType
<1>5. Cardinality({}) = 0
    BY FS_EmptySet
<1>6. ASSUME NEW i \in 1 .. (m + 1), NEW j \in 1 .. (n + 1), i = m + 1 \/ j = n + 1
      PROVE  Bound(i, j)
    <2> SUFFICES ASSUME NEW I \in SUBSET part, Fits(I, i, j)
                 PROVE  Cardinality(I) <= t[i][j]
        OBVIOUS
    <2>1. \A x \in I : x <= m /\ match[x] <= n /\ x \in Nat /\ match[x] \in Nat
        BY <1>1, <1>3
    <2>2. I = {}
        BY <1>1, <1>6, <2>1
    <2>3. QED
        BY <1>2, <1>5, <2>2
<1>7. 0 \in T
    <2>1. \A i \in 1 .. (m + 1), j \in 1 .. (n + 1) :
             (m + 1 - i) + (n + 1 - j) <= 0 => i = m + 1 \/ j = n + 1
        BY <1>1
    <2> HIDE DEF Bound
    <2>2. QED
        BY <1>6, <2>1
<1>8. ASSUME NEW s \in T
      PROVE  s + 1 \in T
    <2> SUFFICES ASSUME NEW i \in 1 .. (m + 1), NEW j \in 1 .. (n + 1),
                        (m + 1 - i) + (n + 1 - j) <= s + 1
                 PROVE  Bound(i, j)
        <3> HIDE DEF Bound
        <3> QED
            OBVIOUS
    <2>1. CASE i = m + 1 \/ j = n + 1
        BY <1>6, <2>1
    <2>2. CASE i \in 1 .. m /\ j \in 1 .. n
        <3>1. /\ i + 1 \in 1 .. (m + 1) /\ j + 1 \in 1 .. (n + 1)
              /\ (m + 1 - (i + 1)) + (n + 1 - j) <= s
              /\ (m + 1 - i) + (n + 1 - (j + 1)) <= s
              /\ (m + 1 - (i + 1)) + (n + 1 - (j + 1)) <= s
            BY <1>1, <2>2
        <3>2. Bound(i + 1, j) /\ Bound(i, j + 1) /\ Bound(i + 1, j + 1)
            <4> HIDE DEF Bound, m, n
            <4> QED
                BY <3>1
        <3>3. t[i][j] = IF a[i] = b[j] THEN t[i + 1][j + 1] + 1
                        ELSE Text!Larger(t[i + 1][j], t[i][j + 1])
            BY <2>2 DEF IsLcs
        <3>4. t[i + 1][j] \in Nat /\ t[i][j + 1] \in Nat /\ t[i + 1][j + 1] \in Nat
            BY <1>2, <3>1
        <3> SUFFICES ASSUME NEW I \in SUBSET part, Fits(I, i, j)
                     PROVE  Cardinality(I) <= t[i][j]
            OBVIOUS
        <3>5. \A x \in I : /\ x \in Nat /\ match[x] \in Nat /\ x >= i /\ match[x] >= j
                           /\ a[x] = b[match[x]] /\ x \in 1 .. m
                           /\ \A y \in I : x < y => match[x] < match[y]
            BY <1>1, <1>3
        <3>6. i \in Nat /\ j \in Nat /\ Cardinality(I) \in Nat /\ I \in SUBSET (1 .. m)
            BY <1>4, <2>2, <3>5
        <3> HIDE DEF m, n, T
        <3>7. CASE a[i] = b[j] /\ I # {}
            <4>1. PICK x \in I : \A y \in I : y >= x
                <5>1. I \in SUBSET Nat /\ I # {}
                    BY <3>5, <3>7
                <5>2. \E x \in I : \A y \in I : x <= y
                    BY <5>1, SmallestOf
                <5>3. QED
                    BY <3>5, <5>2
            <4> DEFINE rest == I \ {x}
            <4>2. Fits(rest, i + 1, j + 1)
                <5> SUFFICES ASSUME NEW y \in rest
                             PROVE  y >= i + 1 /\ match[y] >= j + 1
                    OBVIOUS
                <5>1. y \in I /\ y # x /\ y >= x
                    BY <4>1
                <5>2. x < y
                    BY <3>5, <5>1
                <5>3. match[x] < match[y]
                    BY <3>5, <5>1, <5>2
                <5>4. QED
                    BY <3>5, <3>6, <5>1, <5>2, <5>3
            <4>3. Cardinality(rest) <= t[i + 1][j + 1]
                BY <3>2, <4>2
            <4>4. Cardinality(rest) = Cardinality(I) - 1
                BY <1>4, FS_RemoveElement
            <4>5. t[i][j] = t[i + 1][j + 1] + 1
                BY <3>3, <3>7
            <4>6. QED
                BY <3>4, <3>6, <4>3, <4>4, <4>5
        <3>8. CASE I = {}
            <4>1. t[i][j] \in Nat
                BY <1>2
            <4>2. QED
                BY <1>5, <3>8, <4>1
        <3>9. CASE a[i] # b[j]
            <4>1. t[i][j] >= t[i + 1][j] /\ t[i][j] >= t[i][j + 1] /\ t[i][j] \in Nat
                BY <3>3, <3>4, <3>9 DEF Text!Larger
            <4>2. CASE i \notin I
                <5>1. Fits(I, i + 1, j)
                    BY <3>5, <3>6, <4>2
                <5>2. Cardinality(I) <= t[i + 1][j]
                    <6> HIDE DEF Fits
                    <6> QED
                        BY <3>2, <5>1
                <5>3. QED
                    BY <3>4, <3>6, <4>1, <5>2
            <4>3. CASE i \in I
                <5>1. match[i] # j
                    BY <3>5, <3>9, <4>3
                <5>2. Fits(I, i, j + 1)
                    <6> SUFFICES ASSUME NEW y \in I
                                 PROVE  y >= i /\ match[y] >= j + 1
                        OBVIOUS
                    <6>1. match[i] >= j + 1
                        BY <3>5, <3>6, <4>3, <5>1
                    <6>2. CASE y = i
                        BY <3>5, <6>1, <6>2
                    <6>3. CASE y # i
                        <7>1. i < y
                            BY <3>5, <3>6, <6>3
                        <7>2. match[i] < match[y]
                            BY <3>5, <4>3, <7>1
                        <7>3. QED
                            BY <3>5, <3>6, <4>3, <6>1, <7>2
                    <6>4. QED
                        BY <6>2, <6>3
                <5>3. Cardinality(I) <= t[i][j + 1]
                    <6> HIDE DEF Fits
                    <6> QED
                        BY <3>2, <5>2
                <5>4. QED
                    BY <3>4, <3>6, <4>1, <5>3
            <4>4. QED
                BY <4>2, <4>3
        <3>10. QED
            BY <3>7, <3>8, <3>9
    <2> HIDE DEF Bound
    <2>3. QED
        BY <1>1, <2>1, <2>2
<1>9. T = Nat
    <2> HIDE DEF T
    <2> QED
        BY <1>7, <1>8, Induction DEF T
<1>10. Bound(1, 1)
    <2>1. m + n \in Nat /\ 1 \in 1 .. (m + 1) /\ 1 \in 1 .. (n + 1)
          /\ (m + 1 - 1) + (n + 1 - 1) <= m + n
        BY <1>1
    <2>2. m + n \in T
        BY <1>9, <2>1
    <2> HIDE DEF Bound, m, n
    <2>3. QED
        BY <2>1, <2>2
<1>11. Fits(part, 1, 1)
    BY <1>1, <1>3
<1>12. QED
    BY <1>10, <1>11

(* The hunks, change by change: groups do not come near each other, and     *)
(* every change is in one of them.                                          *)
Grouped(e, k, gs) ==
    /\ gs \in Seq(Nat \X Nat)
    /\ \A x \in 1 .. Len(gs) : 1 <= gs[x][1] /\ gs[x][1] <= gs[x][2] /\ gs[x][2] <= k
    /\ \A x, y \in 1 .. Len(gs) : x < y => gs[x][2] + 7 < gs[y][1]
    /\ \A c \in 1 .. k : e[c].kind # "keep" =>
          \E x \in 1 .. Len(gs) : gs[x][1] <= c /\ c <= gs[x][2]

Extended(e, gs, k, more) ==
    /\ more \in Seq(Nat \X Nat)
    /\ \/ e[k].kind = "keep" /\ more = gs
       \/ /\ more = Append(gs, <<k, k>>)
          /\ gs = <<>> \/ gs[Len(gs)][2] + 7 < k
       \/ /\ Len(gs) >= 1 /\ Len(more) = Len(gs)
          /\ more[Len(gs)] = <<gs[Len(gs)][1], k>>
          /\ \A x \in 1 .. (Len(gs) - 1) : more[x] = gs[x]

(* What one edit more does to the groups.                                   *)
LEMMA ExtendTyped ==
    ASSUME NEW e, NEW gs \in Seq(Nat \X Nat), NEW k \in Nat
    PROVE  Extended(e, gs, k, Text!Extend(e, gs, k))
<1> DEFINE n == Len(gs)
<1>1. n \in Nat /\ <<k, k>> \in Nat \X Nat
    OBVIOUS
<1>2. CASE e[k].kind = "keep"
    BY <1>2 DEF Text!Extend, Extended
<1>3. CASE e[k].kind # "keep" /\ (gs = <<>> \/ Text!Splits(k, gs[n][2]))
    <2>1. Text!Extend(e, gs, k) = Append(gs, <<k, k>>)
        BY <1>3 DEF Text!Extend, Text!Last
    <2>2. gs = <<>> \/ gs[n][2] + 7 < k
        <3>1. CASE gs # <<>>
            <4>1. gs[n] \in Nat \X Nat
                BY <3>1
            <4>2. QED
                BY <1>3, <3>1, <4>1 DEF Text!Splits, Text!Context
        <3>2. QED
            BY <3>1
    <2>3. Append(gs, <<k, k>>) \in Seq(Nat \X Nat)
        BY <1>1
    <2>4. QED
        BY <2>1, <2>2, <2>3 DEF Extended
<1>4. CASE e[k].kind # "keep" /\ ~ (gs = <<>> \/ Text!Splits(k, gs[n][2]))
    <2> DEFINE front == SubSeq(gs, 1, n - 1)
               pair == <<gs[n][1], k>>
    <2>1. Text!Extend(e, gs, k) = Append(front, pair)
        BY <1>4 DEF Text!Extend, Text!Last, Text!Front
    <2>2. n >= 1 /\ n \in 1 .. n
        BY <1>1, <1>4
    <2>3. gs[n] \in Nat \X Nat
        BY <2>2
    <2>4. pair \in Nat \X Nat
        BY <2>3
    <2>5. /\ front \in Seq(Nat \X Nat) /\ Len(front) = n - 1
          /\ \A x \in 1 .. (n - 1) : front[x] = gs[x]
        <3>1. n - 1 \in Int /\ 1 \in Int /\ \A x \in 1 .. (n - 1) : gs[x] \in Nat \X Nat
            BY <1>1
        <3>2. /\ front \in Seq(Nat \X Nat)
              /\ Len(front) = IF 1 <= n - 1 THEN (n - 1) - 1 + 1 ELSE 0
              /\ \A x \in 1 .. ((n - 1) - 1 + 1) : front[x] = gs[1 + x - 1]
            BY <3>1, SubSeqProperties
        <3> HIDE DEF front, n
        <3>3. (n - 1) - 1 + 1 = n - 1 /\ \A x \in 1 .. (n - 1) : 1 + x - 1 = x
            BY <1>1
        <3>4. QED
            BY <1>1, <2>2, <3>2, <3>3
    <2> HIDE DEF front, pair, n
    <2>6. /\ Append(front, pair) \in Seq(Nat \X Nat) /\ Len(Append(front, pair)) = n
          /\ Append(front, pair)[n] = pair
          /\ \A x \in 1 .. (n - 1) : Append(front, pair)[x] = gs[x]
        <3>1. Len(front) + 1 = n /\ DOMAIN front = 1 .. (n - 1)
            BY <1>1, <2>2, <2>5
        <3>2. QED
            BY <2>4, <2>5, <3>1, AppendProperties
    <2>7. QED
        BY <2>1, <2>2, <2>6 DEF pair, n, Extended
<1>5. QED
    BY <1>2, <1>3, <1>4

(* One edit more leaves the groups apart, with every change in one.         *)
LEMMA GroupedMore ==
    ASSUME NEW e, NEW k \in Nat, NEW gs, Grouped(e, k, gs)
    PROVE  Grouped(e, k + 1, Text!Extend(e, gs, k + 1))
<1> DEFINE n == Len(gs)
           more == Text!Extend(e, gs, k + 1)
<1>1. gs \in Seq(Nat \X Nat) /\ n \in Nat /\ k + 1 \in Nat
    BY DEF Grouped
<1>2. \A x \in 1 .. n : gs[x] \in Nat \X Nat
    BY <1>1
<1>3. \A x \in 1 .. n : /\ gs[x][1] \in Nat /\ gs[x][2] \in Nat
                        /\ 1 <= gs[x][1] /\ gs[x][1] <= gs[x][2] /\ gs[x][2] <= k
    BY <1>2 DEF Grouped
<1>4. \A x, y \in 1 .. n : x < y => gs[x][2] + 7 < gs[y][1]
    BY DEF Grouped
<1>5. \A c \in 1 .. k : e[c].kind # "keep" => \E x \in 1 .. n : gs[x][1] <= c /\ c <= gs[x][2]
    BY DEF Grouped
<1>6. Extended(e, gs, k + 1, more)
    BY <1>1, ExtendTyped
<1>7. 1 .. (k + 1) = (1 .. k) \cup {k + 1}
    OBVIOUS
<1> HIDE DEF more, n
<1>8. CASE e[k + 1].kind = "keep" /\ more = gs
    <2>1. \A x \in 1 .. n : gs[x][2] <= k + 1
        BY <1>3
    <2>2. QED
        BY <1>1, <1>3, <1>4, <1>5, <1>7, <1>8, <2>1 DEF Grouped, more, n
<1>9. CASE /\ more = Append(gs, <<k + 1, k + 1>>)
           /\ gs = <<>> \/ gs[n][2] + 7 < k + 1
    <2>1. /\ Len(more) = n + 1 /\ more[n + 1] = <<k + 1, k + 1>>
          /\ \A x \in 1 .. n : more[x] = gs[x]
        <3>1. <<k + 1, k + 1>> \in Nat \X Nat
            OBVIOUS
        <3>2. QED
            BY <1>1, <1>9, <3>1, AppendProperties, LenProperties, ElementOfSeq DEF n
    <2>2. more[n + 1][1] = k + 1 /\ more[n + 1][2] = k + 1
        BY <2>1
    <2>3. \A x \in 1 .. (n + 1) : x \in 1 .. n \/ x = n + 1
        BY <1>1
    <2>4. \A x \in 1 .. (n + 1) :
             1 <= more[x][1] /\ more[x][1] <= more[x][2] /\ more[x][2] <= k + 1
        BY <1>3, <2>1, <2>2, <2>3
    <2>5. \A x \in 1 .. n : gs[x][2] + 7 < k + 1
        <3> SUFFICES ASSUME NEW x \in 1 .. n
                     PROVE  gs[x][2] + 7 < k + 1
            OBVIOUS
        <3>1. gs # <<>> /\ n \in 1 .. n
            BY <1>1 DEF n
        <3>2. CASE x = n
            BY <1>9, <3>1, <3>2
        <3>3. CASE x < n
            <4>1. gs[x][2] + 7 < gs[n][1] /\ gs[n][1] <= gs[n][2] /\ gs[n][2] + 7 < k + 1
                BY <1>3, <1>4, <1>9, <3>1, <3>3
            <4>2. gs[x][2] \in Nat /\ gs[n][1] \in Nat /\ gs[n][2] \in Nat
                BY <1>3, <3>1
            <4>3. QED
                BY <4>1, <4>2
        <3>4. QED
            BY <1>1, <3>2, <3>3
    <2>6. \A x, y \in 1 .. (n + 1) : x < y => more[x][2] + 7 < more[y][1]
        <3> SUFFICES ASSUME NEW x \in 1 .. (n + 1), NEW y \in 1 .. (n + 1), x < y
                     PROVE  more[x][2] + 7 < more[y][1]
            OBVIOUS
        <3>1. x \in 1 .. n
            BY <1>1
        <3>2. CASE y \in 1 .. n
            BY <1>4, <2>1, <3>1, <3>2
        <3>3. CASE y = n + 1
            BY <2>1, <2>2, <2>5, <3>1, <3>3
        <3>4. QED
            BY <2>3, <3>2, <3>3
    <2>7. \A c \in 1 .. (k + 1) : e[c].kind # "keep" =>
             \E x \in 1 .. (n + 1) : more[x][1] <= c /\ c <= more[x][2]
        <3> SUFFICES ASSUME NEW c \in 1 .. (k + 1), e[c].kind # "keep"
                     PROVE  \E x \in 1 .. (n + 1) : more[x][1] <= c /\ c <= more[x][2]
            OBVIOUS
        <3>1. CASE c \in 1 .. k
            <4>1. PICK x \in 1 .. n : gs[x][1] <= c /\ c <= gs[x][2]
                BY <1>5, <3>1
            <4>2. x \in 1 .. (n + 1) /\ more[x] = gs[x]
                BY <1>1, <2>1
            <4>3. QED
                BY <4>1, <4>2
        <3>2. CASE c = k + 1
            <4>1. n + 1 \in 1 .. (n + 1)
                BY <1>1
            <4>2. QED
                BY <2>2, <3>2, <4>1
        <3>3. QED
            BY <1>7, <3>1, <3>2
    <2>8. QED
        BY <1>6, <2>1, <2>4, <2>6, <2>7 DEF Grouped, Extended, more
<1>10. CASE /\ n >= 1 /\ Len(more) = n /\ more[n] = <<gs[n][1], k + 1>>
            /\ \A x \in 1 .. (n - 1) : more[x] = gs[x]
    <2>1. n \in 1 .. n /\ \A x \in 1 .. n : x \in 1 .. (n - 1) \/ x = n
        BY <1>1, <1>10
    <2>2. more[n][1] = gs[n][1] /\ more[n][2] = k + 1
        BY <1>10
    <2>3. \A x \in 1 .. n : more[x][1] = gs[x][1]
        BY <1>10, <2>1, <2>2
    <2>4. \A x \in 1 .. n : more[x][2] = IF x = n THEN k + 1 ELSE gs[x][2]
        BY <1>10, <2>1, <2>2
    <2>5. \A x \in 1 .. n :
             1 <= more[x][1] /\ more[x][1] <= more[x][2] /\ more[x][2] <= k + 1
        <3> SUFFICES ASSUME NEW x \in 1 .. n
                     PROVE  /\ 1 <= more[x][1] /\ more[x][1] <= more[x][2]
                            /\ more[x][2] <= k + 1
            OBVIOUS
        <3>1. more[x][1] = gs[x][1] /\ more[x][2] = IF x = n THEN k + 1 ELSE gs[x][2]
            BY <2>3, <2>4
        <3>2. QED
            BY <1>3, <3>1
    <2>6. \A x, y \in 1 .. n : x < y => more[x][2] + 7 < more[y][1]
        <3> SUFFICES ASSUME NEW x \in 1 .. n, NEW y \in 1 .. n, x < y
                     PROVE  more[x][2] + 7 < more[y][1]
            OBVIOUS
        <3>1. x # n
            BY <1>1
        <3>2. QED
            BY <1>4, <2>3, <2>4, <3>1
    <2>7. \A c \in 1 .. (k + 1) : e[c].kind # "keep" =>
             \E x \in 1 .. n : more[x][1] <= c /\ c <= more[x][2]
        <3> SUFFICES ASSUME NEW c \in 1 .. (k + 1), e[c].kind # "keep"
                     PROVE  \E x \in 1 .. n : more[x][1] <= c /\ c <= more[x][2]
            OBVIOUS
        <3>1. CASE c \in 1 .. k
            <4>1. PICK x \in 1 .. n : gs[x][1] <= c /\ c <= gs[x][2]
                BY <1>5, <3>1
            <4>2. c <= k + 1
                OBVIOUS
            <4>3. more[x][1] <= c /\ c <= more[x][2]
                BY <2>3, <2>4, <4>1, <4>2
            <4>4. QED
                BY <4>3
        <3>2. CASE c = k + 1
            <4>1. more[n][1] <= c /\ c <= more[n][2]
                BY <1>3, <2>1, <2>2, <3>2
            <4>2. QED
                BY <2>1, <4>1
        <3>3. QED
            BY <1>7, <3>1, <3>2
    <2>8. QED
        BY <1>6, <1>10, <2>5, <2>6, <2>7 DEF Grouped, Extended, more
<1>11. QED
    BY <1>6, <1>8, <1>9, <1>10 DEF Extended, more, n

(* Where a script keeps its lines, the two texts are the same.              *)
LEMMA HunkGroupsUnfold ==
    ASSUME NEW S, NEW e \in Seq(S)
    PROVE  \E r : /\ r[0] = <<>>
                  /\ \A k \in 0 .. Len(e) : r[k] \in Seq(Nat \X Nat)
                  /\ \A k \in 1 .. Len(e) : r[k] = Text!Extend(e, r[k - 1], k)
                  /\ Text!ChangeGroups(e) = r[Len(e)]
<1> DEFINE n == Len(e)
           A == Seq(Nat \X Nat)
           base == <<>>
           Next1(r, k) == Text!Extend(e, r, k)
           step == [p \in A \X (1 .. n) |-> Next1(p[1], p[2])]
           Unfolds(f) == f = [k \in 0 .. n |-> IF k = 0 THEN base ELSE Next1(f[k - 1], k)]
           groups == CHOOSE f : Unfolds(f)
<1>1. n \in Nat
    OBVIOUS
<1>2. base \in A
    OBVIOUS
<1>3. step \in [A \X (1 .. n) -> A]
    <2>1. ASSUME NEW p \in A \X (1 .. n)
          PROVE  Next1(p[1], p[2]) \in A
        <3>1. p[1] \in Seq(Nat \X Nat) /\ p[2] \in Nat
            BY <1>1
        <3>2. QED
            BY <3>1, ExtendTyped DEF Extended
    <2>2. QED
        BY <2>1
<1>4. Text!ChangeGroups(e) = groups[n]
    BY DEF Text!ChangeGroups
<1> HIDE DEF A, base, Next1
<1>5. \A r \in A, k \in 1 .. n : step[<<r, k>>] = Next1(r, k)
    OBVIOUS
<1> HIDE DEF n, step
<1>6. PICK f : StepsUp(n, A, base, step, f)
    BY <1>1, <1>2, <1>3, StepsExist
<1>7. Unfolds(f)
    <2>1. \A k \in 1 .. n : f[k - 1] \in A /\ f[k] = Next1(f[k - 1], k)
        <3>1. \A k \in 1 .. n : k - 1 \in 0 .. n
            BY <1>1
        <3>2. \A k \in 1 .. n : f[k - 1] \in A /\ f[k] = step[<<f[k - 1], k>>]
            BY <1>6, <3>1 DEF StepsUp
        <3>3. QED
            BY <1>5, <3>2
    <2>2. f = [k \in 0 .. n |-> f[k]]
        BY <1>6 DEF StepsUp
    <2>3. \A k \in 0 .. n : f[k] = IF k = 0 THEN base ELSE Next1(f[k - 1], k)
        BY <1>1, <1>6, <2>1 DEF StepsUp
    <2>4. QED
        BY <2>2, <2>3
<1>8. Unfolds(groups)
    <2> HIDE DEF Unfolds
    <2> QED
        BY <1>7
<1> HIDE DEF groups
<1>9. groups[0] = base /\ \A k \in 1 .. n : groups[k] = Next1(groups[k - 1], k)
    BY <1>1, <1>8
<1>10. \A k \in 0 .. n : groups[k] \in A
    <2>1. StepsWithin(n, A, base, step, groups)
        BY <1>5, <1>9 DEF StepsWithin
    <2>2. QED
        BY <1>1, <1>2, <1>3, <2>1, StepsTyped
<1>11. QED
    BY <1>4, <1>9, <1>10 DEF n, A, base, Next1

(* The groups of any script are apart and have all of its changes.          *)
LEMMA ChangeGroupsAre ==
    ASSUME NEW S, NEW e \in Seq(S)
    PROVE  Grouped(e, Len(e), Text!ChangeGroups(e))
<1> DEFINE n == Len(e)
<1>1. n \in Nat
    OBVIOUS
<1>2. PICK r : /\ r[0] = <<>>
               /\ \A k \in 0 .. n : r[k] \in Seq(Nat \X Nat)
               /\ \A k \in 1 .. n : r[k] = Text!Extend(e, r[k - 1], k)
               /\ Text!ChangeGroups(e) = r[n]
    BY HunkGroupsUnfold
<1> DEFINE T == {k \in Nat : k <= n => Grouped(e, k, r[k])}
<1>3. 0 \in T
    <2>1. <<>> \in Seq(Nat \X Nat) /\ Len(<<>>) = 0 /\ 1 .. 0 = {}
        OBVIOUS
    <2>2. Grouped(e, 0, <<>>)
        BY <2>1 DEF Grouped
    <2>3. QED
        BY <1>2, <2>2
<1>4. ASSUME NEW k \in T
      PROVE  k + 1 \in T
    <2>1. SUFFICES ASSUME k + 1 <= n
                   PROVE  Grouped(e, k + 1, r[k + 1])
        OBVIOUS
    <2>2. k + 1 \in 1 .. n /\ (k + 1) - 1 = k /\ k <= n /\ k \in Nat
        BY <1>1, <2>1
    <2>3. r[k + 1] = Text!Extend(e, r[k], k + 1) /\ Grouped(e, k, r[k])
        BY <1>2, <2>2
    <2>4. QED
        BY <2>2, <2>3, GroupedMore
<1>5. T = Nat
    <2> HIDE DEF T
    <2> QED
        BY <1>3, <1>4, Induction DEF T
<1>6. QED
    BY <1>1, <1>2, <1>5

(* The ranges of the hunks: in their order, apart, a kept line first unless *)
(* the script begins there, and only kept lines between them.               *)
RangeEnd(rs, x) == IF x = 0 THEN 0 ELSE rs[x][2]
NextStart(rs, x, n) == IF x = Len(rs) THEN n + 1 ELSE rs[x + 1][1]

IsRanges(e, rs) ==
    /\ rs \in Seq(Nat \X Nat)
    /\ \A x \in 1 .. Len(rs) :
          /\ rs[x][1] \in 1 .. Len(e) /\ rs[x][2] \in rs[x][1] .. Len(e)
          /\ rs[x][1] > 1 => e[rs[x][1]].kind = "keep"
          /\ RangeEnd(rs, x - 1) < rs[x][1]
    /\ \A x \in 0 .. Len(rs) : \A c \in 1 .. Len(e) :
          RangeEnd(rs, x) < c /\ c < NextStart(rs, x, Len(e)) => e[c].kind = "keep"

(* The hunks of any script have ranges like that.                           *)
LEMMA HunkRangesAre ==
    ASSUME NEW S, NEW e \in Seq(S)
    PROVE  IsRanges(e, Text!HunkRanges(e))
<1> DEFINE n == Len(e)
           gs == Text!ChangeGroups(e)
           m == Len(gs)
           rs == Text!HunkRanges(e)
<1>1. n \in Nat /\ Grouped(e, n, gs)
    BY ChangeGroupsAre
<1> HIDE DEF gs
<1>2. gs \in Seq(Nat \X Nat) /\ m \in Nat /\ DOMAIN gs = 1 .. m
    BY <1>1 DEF Grouped
<1>3. \A x \in 1 .. m : gs[x] \in Nat \X Nat
    BY <1>2
<1>4. \A x \in 1 .. m : /\ gs[x][1] \in Nat /\ gs[x][2] \in Nat
                        /\ 1 <= gs[x][1] /\ gs[x][1] <= gs[x][2] /\ gs[x][2] <= n
    BY <1>1, <1>3 DEF Grouped
<1>5. \A x, y \in 1 .. m : x < y => gs[x][2] + 7 < gs[y][1]
    BY <1>1 DEF Grouped
<1>6. \A c \in 1 .. n : e[c].kind # "keep" => \E x \in 1 .. m : gs[x][1] <= c /\ c <= gs[x][2]
    BY <1>1 DEF Grouped
<1>7. rs = [x \in 1 .. m |-> <<Text!Larger(gs[x][1] - 3, 1), Text!Smaller(gs[x][2] + 3, n)>>]
    BY <1>2 DEF Text!HunkRanges, Text!Context, gs
<1> HIDE DEF rs, n, m
<1>8. ASSUME NEW x \in 1 .. m
      PROVE  /\ rs[x] \in Nat \X Nat
             /\ rs[x][1] \in Nat /\ rs[x][2] \in Nat
             /\ rs[x][1] = (IF gs[x][1] - 3 >= 1 THEN gs[x][1] - 3 ELSE 1)
             /\ rs[x][2] = (IF gs[x][2] + 3 <= n THEN gs[x][2] + 3 ELSE n)
    <2>1. /\ rs[x][1] = (IF gs[x][1] - 3 >= 1 THEN gs[x][1] - 3 ELSE 1)
          /\ rs[x][2] = (IF gs[x][2] + 3 <= n THEN gs[x][2] + 3 ELSE n)
          /\ rs[x] = <<rs[x][1], rs[x][2]>>
        BY <1>7 DEF Text!Larger, Text!Smaller
    <2>2. rs[x][1] \in Nat /\ rs[x][2] \in Nat
        BY <1>1, <1>4, <2>1
    <2>3. QED
        BY <2>1, <2>2
<1>9. rs \in Seq(Nat \X Nat) /\ Len(rs) = m
    <2>1. rs \in [1 .. m -> Nat \X Nat]
        BY <1>7, <1>8
    <2>2. QED
        BY <1>2, <2>1
<1>10. ASSUME NEW x \in 1 .. m
       PROVE  /\ rs[x][1] \in 1 .. n /\ rs[x][2] \in rs[x][1] .. n
              /\ rs[x][1] <= gs[x][1] /\ gs[x][2] <= rs[x][2]
              /\ gs[x][1] <= rs[x][1] + 3 /\ rs[x][2] <= gs[x][2] + 3
              /\ rs[x][1] > 1 => rs[x][1] = gs[x][1] - 3
    <2> DEFINE g1 == gs[x][1]
               g2 == gs[x][2]
               r1 == rs[x][1]
               r2 == rs[x][2]
    <2>1. /\ g1 \in Nat /\ g2 \in Nat /\ 1 <= g1 /\ g1 <= g2 /\ g2 <= n
          /\ r1 \in Nat /\ r1 = (IF g1 - 3 >= 1 THEN g1 - 3 ELSE 1)
          /\ r2 \in Nat /\ r2 = (IF g2 + 3 <= n THEN g2 + 3 ELSE n)
        BY <1>4, <1>8
    <2> HIDE DEF g1, g2, r1, r2
    <2>2. /\ r1 \in 1 .. n /\ r2 \in r1 .. n
          /\ r1 <= g1 /\ g2 <= r2 /\ g1 <= r1 + 3 /\ r2 <= g2 + 3
          /\ r1 > 1 => r1 = g1 - 3
        BY <1>1, <2>1
    <2>3. QED
        BY <2>2 DEF g1, g2, r1, r2
<1>11. \A x, y \in 1 .. m : x < y => rs[x][2] < rs[y][1]
    <2> SUFFICES ASSUME NEW x \in 1 .. m, NEW y \in 1 .. m, x < y
                 PROVE  rs[x][2] < rs[y][1]
        OBVIOUS
    <2> DEFINE g2 == gs[x][2]
               g1 == gs[y][1]
               r2 == rs[x][2]
               r1 == rs[y][1]
    <2>1. g2 + 7 < g1 /\ r2 <= g2 + 3 /\ g1 <= r1 + 3
        BY <1>5, <1>10
    <2>2. g1 \in Nat /\ g2 \in Nat /\ r1 \in Nat /\ r2 \in Nat
        BY <1>4, <1>8
    <2> HIDE DEF g1, g2, r1, r2
    <2>3. r2 < r1
        BY <2>1, <2>2
    <2>4. QED
        BY <2>3 DEF r1, r2
<1>12. ASSUME NEW x \in 1 .. m, rs[x][1] > 1
       PROVE  e[rs[x][1]].kind = "keep"
    <2> SUFFICES ASSUME e[rs[x][1]].kind # "keep"
                 PROVE  FALSE
        OBVIOUS
    <2>1. rs[x][1] = gs[x][1] - 3 /\ rs[x][1] \in 1 .. n
        BY <1>10, <1>12
    <2>2. PICK y \in 1 .. m : gs[y][1] <= rs[x][1] /\ rs[x][1] <= gs[y][2]
        BY <1>6, <2>1
    <2> DEFINE x1 == gs[x][1]
               x2 == gs[x][2]
               y1 == gs[y][1]
               y2 == gs[y][2]
    <2>3. /\ x1 \in Nat /\ x2 \in Nat /\ y1 \in Nat /\ y2 \in Nat
          /\ x1 <= x2 /\ y1 <= y2 /\ y1 <= x1 - 3 /\ x1 - 3 <= y2
        BY <1>4, <2>1, <2>2
    <2>4. (y < x => y2 + 7 < x1) /\ (x < y => x2 + 7 < y1) /\ (x = y => x1 = y1)
        BY <1>5
    <2> HIDE DEF x1, x2, y1, y2
    <2>5. QED
        BY <1>2, <2>3, <2>4
<1>13. \A x \in 1 .. m : RangeEnd(rs, x - 1) < rs[x][1]
    <2> SUFFICES ASSUME NEW x \in 1 .. m
                 PROVE  RangeEnd(rs, x - 1) < rs[x][1]
        OBVIOUS
    <2>1. CASE x = 1
        <3>1. RangeEnd(rs, x - 1) = 0
            BY <2>1 DEF RangeEnd
        <3>2. QED
            BY <1>10, <3>1
    <2>2. CASE x > 1
        <3>1. x - 1 \in 1 .. m /\ x - 1 < x /\ x - 1 # 0
            BY <1>2, <2>2
        <3>2. RangeEnd(rs, x - 1) = rs[x - 1][2]
            BY <3>1 DEF RangeEnd
        <3>3. QED
            BY <1>11, <3>1, <3>2
    <2>3. QED
        BY <1>2, <2>1, <2>2
<1>14. ASSUME NEW x \in 0 .. m, NEW c \in 1 .. n, RangeEnd(rs, x) < c,
              c < NextStart(rs, x, n)
       PROVE  e[c].kind = "keep"
    <2> SUFFICES ASSUME e[c].kind # "keep"
                 PROVE  FALSE
        OBVIOUS
    <2>1. PICK y \in 1 .. m : gs[y][1] <= c /\ c <= gs[y][2]
        BY <1>6
    <2>2. rs[y][1] <= c /\ c <= rs[y][2]
        <3> DEFINE g1 == gs[y][1]
                   g2 == gs[y][2]
                   r1 == rs[y][1]
                   r2 == rs[y][2]
        <3>1. /\ g1 \in Nat /\ g2 \in Nat /\ r1 \in Nat /\ r2 \in Nat
              /\ r1 <= g1 /\ g2 <= r2 /\ g1 <= c /\ c <= g2
            BY <1>4, <1>8, <1>10, <2>1
        <3> HIDE DEF g1, g2, r1, r2
        <3>2. r1 <= c /\ c <= r2
            BY <1>1, <3>1
        <3>3. QED
            BY <3>2 DEF r1, r2
    <2>3. CASE y <= x
        <3>1. x # 0 /\ x \in 1 .. m
            BY <1>2, <2>3
        <3>2. RangeEnd(rs, x) = rs[x][2]
            BY <3>1 DEF RangeEnd
        <3>3. CASE y = x
            BY <1>8, <1>14, <2>2, <3>2, <3>3
        <3>4. CASE y < x
            <4>1. rs[y][2] < rs[x][1] /\ rs[x][1] <= rs[x][2]
                BY <1>8, <1>10, <1>11, <3>1, <3>4
            <4>2. QED
                BY <1>8, <1>14, <2>2, <3>1, <3>2, <4>1
        <3>5. QED
            BY <1>2, <2>3, <3>3, <3>4
    <2>4. CASE x < y
        <3>1. x # m /\ x + 1 \in 1 .. m
            BY <1>2, <2>4
        <3>2. NextStart(rs, x, n) = rs[x + 1][1]
            BY <1>9, <3>1 DEF NextStart
        <3>3. CASE y = x + 1
            BY <1>8, <1>14, <2>2, <3>2, <3>3
        <3>4. CASE x + 1 < y
            <4>1. rs[x + 1][2] < rs[y][1] /\ rs[x + 1][1] <= rs[x + 1][2]
                BY <1>8, <1>10, <1>11, <3>1, <3>4
            <4>2. QED
                BY <1>8, <1>14, <2>2, <3>1, <3>2, <4>1
        <3>5. QED
            BY <1>2, <2>4, <3>3, <3>4
    <2>5. QED
        BY <1>2, <2>3, <2>4
<1>15. QED
    BY <1>9, <1>10, <1>12, <1>13, <1>14 DEF IsRanges, rs, n

(* What is in a hunk, and the lines it has of either text.                  *)
LEMMA HunkIs ==
    ASSUME NEW S, NEW e \in Seq(S), NEW p \in 1 .. Len(e), NEW q \in p .. Len(e)
    PROVE  LET h == SubSeq(e, p, q)
           IN  /\ h \in Seq(S) /\ Len(h) = q - p + 1 /\ DOMAIN h = 1 .. (q - p + 1)
               /\ \A k \in 1 .. (q - p + 1) : h[k] = e[p + k - 1]
<1>1. p \in Int /\ q \in Int /\ p <= q /\ \A k \in p .. q : e[k] \in S
    OBVIOUS
<1>2. /\ SubSeq(e, p, q) \in Seq(S)
      /\ Len(SubSeq(e, p, q)) = IF p <= q THEN q - p + 1 ELSE 0
      /\ \A k \in 1 .. (q - p + 1) : SubSeq(e, p, q)[k] = e[p + k - 1]
    BY <1>1, SubSeqProperties
<1>3. Len(SubSeq(e, p, q)) = q - p + 1
    BY <1>1, <1>2
<1>4. DOMAIN SubSeq(e, p, q) = 1 .. Len(SubSeq(e, p, q))
    BY <1>2, LenProperties, ElementOfSeq
<1>5. QED
    BY <1>2, <1>3, <1>4

Counts(t, side, f, e, c) ==
    /\ c[0] = 0
    /\ \A y \in 0 .. Len(e) : c[y] \in Nat /\ c[y] <= Len(t)
    /\ \A y \in 0 .. Len(e) : \A x \in 0 .. y : c[x] <= c[y]
    /\ \A k \in 1 .. Len(e) :
          /\ k - 1 \in 0 .. Len(e) /\ k \in 0 .. Len(e)
          /\ IF e[k].kind \in {"keep", side}
             THEN /\ c[k] = c[k - 1] + 1 /\ c[k] <= Len(t)
                  /\ e[k][f] = c[k] /\ e[k].line = t[c[k]]
             ELSE c[k] = c[k - 1] /\ e[k][f] = 0

(* How far a script has spelled a text never goes back.                     *)
LEMMA CountsRise ==
    ASSUME NEW L, NEW t \in Seq(L), NEW side, NEW f, NEW e \in Seq(TextEdits(L)), NEW c,
           Spells(t, side, f, e, c)
    PROVE  Counts(t, side, f, e, c)
<1> DEFINE n == Len(e)
<1>1. n \in Nat /\ Len(t) \in Nat /\ Len(t) >= 0
    OBVIOUS
<1>2. c \in [0 .. n -> Nat] /\ c[0] = 0
    BY DEF Spells
<1>3. \A k \in 1 .. n :
         IF e[k].kind \in {"keep", side}
         THEN /\ c[k] = c[k - 1] + 1 /\ c[k] <= Len(t)
              /\ e[k][f] = c[k] /\ e[k].line = t[c[k]]
         ELSE c[k] = c[k - 1] /\ e[k][f] = 0
    BY DEF Spells
<1>4. \A y \in 0 .. n : c[y] \in Nat
    BY <1>2
<1> HIDE DEF n
<1> DEFINE T == {y \in Nat : y <= n => c[y] <= Len(t) /\ \A x \in 0 .. y : c[x] <= c[y]}
<1>5. 0 \in T
    <2>1. \A x \in 0 .. 0 : x = 0
        OBVIOUS
    <2>2. QED
        BY <1>1, <1>2, <2>1
<1>6. ASSUME NEW y \in T
      PROVE  y + 1 \in T
    <2>1. SUFFICES ASSUME y + 1 <= n
                   PROVE  c[y + 1] <= Len(t) /\ \A x \in 0 .. (y + 1) : c[x] <= c[y + 1]
        OBVIOUS
    <2>2. /\ y \in Nat /\ y + 1 \in 1 .. n /\ (y + 1) - 1 = y /\ y \in 0 .. n /\ y + 1 \in 0 .. n
          /\ c[y] <= Len(t) /\ \A x \in 0 .. y : c[x] <= c[y]
        BY <1>1, <2>1
    <2>3. c[y] \in Nat /\ c[y + 1] \in Nat
        BY <1>4, <2>2
    <2>4. c[y + 1] <= Len(t) /\ (c[y + 1] = c[y] + 1 \/ c[y + 1] = c[y])
        BY <1>3, <2>2
    <2>5. ASSUME NEW x \in 0 .. (y + 1)
          PROVE  c[x] <= c[y + 1]
        <3>1. CASE x = y + 1
            BY <2>3, <3>1
        <3>2. CASE x \in 0 .. y
            <4>1. x \in 0 .. n /\ c[x] <= c[y]
                <5>1. \A z \in 0 .. y : z \in 0 .. n
                    BY <1>1, <2>2
                <5>2. QED
                    BY <2>2, <3>2, <5>1
            <4>2. c[x] \in Nat
                BY <1>4, <4>1
            <4>3. QED
                BY <2>3, <2>4, <4>1, <4>2
        <3>3. QED
            BY <2>2, <3>1, <3>2
    <2>6. QED
        BY <2>4, <2>5
<1>7. T = Nat
    <2> HIDE DEF T
    <2> QED
        BY <1>5, <1>6, Induction DEF T
<1>8. \A y \in 0 .. n : c[y] <= Len(t) /\ \A x \in 0 .. y : c[x] <= c[y]
    BY <1>1, <1>7
<1>9. \A k \in 1 .. n : k - 1 \in 0 .. n /\ k \in 0 .. n
    BY <1>1
<1> HIDE DEF T
<1>10. QED
    BY <1>2, <1>3, <1>4, <1>8, <1>9 DEF n, Counts

(* The lines of one side of a hunk, edit by edit.                           *)
LEMMA LinesUnfold ==
    ASSUME NEW L, NEW e \in Seq(TextEdits(L)), NEW side
    PROVE  \E r : /\ r[0] = <<>>
                  /\ \A k \in 0 .. Len(e) : r[k] \in Seq(L)
                  /\ \A k \in 1 .. Len(e) : r[k] = Text!TakeLine(e, side, r[k - 1], k)
                  /\ Text!Lines(e, side) = r[Len(e)]
<1> DEFINE n == Len(e)
           A == Seq(L)
           base == <<>>
           Next1(r, k) == Text!TakeLine(e, side, r, k)
           step == [p \in A \X (1 .. n) |-> Next1(p[1], p[2])]
           Unfolds(f) == f = [k \in 0 .. n |-> IF k = 0 THEN base ELSE Next1(f[k - 1], k)]
           lines == CHOOSE f : Unfolds(f)
<1>1. n \in Nat
    OBVIOUS
<1>2. base \in A
    OBVIOUS
<1>3. step \in [A \X (1 .. n) -> A]
    <2>1. ASSUME NEW p \in A \X (1 .. n)
          PROVE  Next1(p[1], p[2]) \in A
        <3>1. p[1] \in Seq(L) /\ e[p[2]] \in TextEdits(L)
            BY <1>1
        <3>2. e[p[2]].line \in L
            BY <3>1 DEF TextEdits
        <3>3. QED
            BY <3>1, <3>2 DEF Text!TakeLine
    <2>2. QED
        BY <2>1
<1>4. Text!Lines(e, side) = lines[n]
    BY DEF Text!Lines
<1> HIDE DEF A, base, Next1
<1>5. \A r \in A, k \in 1 .. n : step[<<r, k>>] = Next1(r, k)
    OBVIOUS
<1> HIDE DEF n, step
<1>6. PICK f : StepsUp(n, A, base, step, f)
    BY <1>1, <1>2, <1>3, StepsExist
<1>7. Unfolds(f)
    <2>1. \A k \in 1 .. n : f[k - 1] \in A /\ f[k] = Next1(f[k - 1], k)
        <3>1. \A k \in 1 .. n : k - 1 \in 0 .. n
            BY <1>1
        <3>2. \A k \in 1 .. n : f[k - 1] \in A /\ f[k] = step[<<f[k - 1], k>>]
            BY <1>6, <3>1 DEF StepsUp
        <3>3. QED
            BY <1>5, <3>2
    <2>2. f = [k \in 0 .. n |-> f[k]]
        BY <1>6 DEF StepsUp
    <2>3. \A k \in 0 .. n : f[k] = IF k = 0 THEN base ELSE Next1(f[k - 1], k)
        BY <1>1, <1>6, <2>1 DEF StepsUp
    <2>4. QED
        BY <2>2, <2>3
<1>8. Unfolds(lines)
    <2> HIDE DEF Unfolds
    <2> QED
        BY <1>7
<1> HIDE DEF lines
<1>9. lines[0] = base /\ \A k \in 1 .. n : lines[k] = Next1(lines[k - 1], k)
    BY <1>1, <1>8
<1>10. \A k \in 0 .. n : lines[k] \in A
    <2>1. StepsWithin(n, A, base, step, lines)
        BY <1>5, <1>9 DEF StepsWithin
    <2>2. QED
        BY <1>1, <1>2, <1>3, <2>1, StepsTyped
<1>11. QED
    BY <1>4, <1>9, <1>10 DEF n, A, base, Next1

(* A stretch of a text with the line that follows it.                       *)
LEMMA OneLineMore ==
    ASSUME NEW L, NEW t \in Seq(L), NEW x \in Nat, NEW y \in Nat, x <= y, y + 1 <= Len(t)
    PROVE  Append(SubSeq(t, x + 1, y), t[y + 1]) = SubSeq(t, x + 1, y + 1)
<1>1. x + 1 \in 1 .. Len(t) /\ y + 1 \in (x + 1) .. Len(t) /\ (y + 1) - 1 = y /\ y + 1 \in 1 .. Len(t)
    OBVIOUS
<1>2. SubSeq(t, x + 1, y + 1) = SubSeq(t, x + 1, y) \o <<t[y + 1]>>
    BY <1>1, SubSeqRecursiveSecond
<1>3. SubSeq(t, x + 1, y) \in Seq(L)
    <2>1. x + 1 \in Int /\ y \in Int /\ \A k \in (x + 1) .. y : t[k] \in L
        OBVIOUS
    <2>2. QED
        BY <2>1, SubSeqProperties
<1>4. t[y + 1] \in L
    BY <1>1
<1>5. QED
    BY <1>2, <1>3, <1>4, AppendIsConcat

(* The lines of one side of a hunk are a stretch of that text.              *)
LEMMA HunkLines ==
    ASSUME NEW L, NEW t \in Seq(L), NEW side, NEW f, NEW e \in Seq(TextEdits(L)), NEW c,
           Spells(t, side, f, e, c), NEW p \in 1 .. Len(e), NEW q \in p .. Len(e)
    PROVE  Text!Lines(SubSeq(e, p, q), side) = SubSeq(t, c[p - 1] + 1, c[q])
<1> DEFINE h == SubSeq(e, p, q)
           n == q - p + 1
<1>1. /\ h \in Seq(TextEdits(L)) /\ Len(h) = n
      /\ \A k \in 1 .. n : h[k] = e[p + k - 1]
    BY HunkIs
<1>2. /\ n \in Nat /\ p \in Nat /\ p - 1 \in 0 .. Len(e)
      /\ \A k \in 0 .. n : p - 1 + k \in 0 .. Len(e)
      /\ p - 1 + n = q
    OBVIOUS
<1>3. PICK r : /\ r[0] = <<>>
               /\ \A k \in 0 .. n : r[k] \in Seq(L)
               /\ \A k \in 1 .. n : r[k] = Text!TakeLine(h, side, r[k - 1], k)
               /\ Text!Lines(h, side) = r[n]
    <2> HIDE DEF h, n
    <2>1. \E r : /\ r[0] = <<>>
                 /\ \A k \in 0 .. Len(h) : r[k] \in Seq(L)
                 /\ \A k \in 1 .. Len(h) : r[k] = Text!TakeLine(h, side, r[k - 1], k)
                 /\ Text!Lines(h, side) = r[Len(h)]
        BY <1>1, LinesUnfold
    <2>2. Len(h) = n
        BY <1>1
    <2>3. QED
        BY <2>1, <2>2
<1> HIDE DEF h, n
<1>4. /\ \A y \in 0 .. Len(e) : c[y] \in Nat /\ c[y] <= Len(t)
      /\ \A y \in 0 .. Len(e) : \A x \in 0 .. y : c[x] <= c[y]
    BY CountsRise DEF Counts
<1>5. \A k \in 1 .. Len(e) :
         IF e[k].kind \in {"keep", side}
         THEN c[k] = c[k - 1] + 1 /\ c[k] <= Len(t) /\ e[k].line = t[c[k]]
         ELSE c[k] = c[k - 1]
    BY DEF Spells
<1> DEFINE T == {k \in Nat : k <= n => r[k] = SubSeq(t, c[p - 1] + 1, c[p - 1 + k])}
<1>6. 0 \in T
    <2>1. p - 1 + 0 = p - 1 /\ c[p - 1] \in Nat
        BY <1>2, <1>4
    <2>2. c[p - 1] + 1 \in Int /\ c[p - 1] \in Int /\ c[p - 1] < c[p - 1] + 1
        BY <2>1
    <2>3. SubSeq(t, c[p - 1] + 1, c[p - 1]) = <<>>
        BY <2>2, SubSeqEmpty
    <2>4. QED
        BY <1>3, <2>1, <2>3
<1>7. ASSUME NEW k \in T
      PROVE  k + 1 \in T
    <2>1. SUFFICES ASSUME k + 1 <= n
                   PROVE  r[k + 1] = SubSeq(t, c[p - 1] + 1, c[p - 1 + (k + 1)])
        OBVIOUS
    <2> DEFINE x == p - 1
               y == p - 1 + k
    <2>2. /\ k \in Nat /\ k <= n /\ k + 1 \in 1 .. n /\ (k + 1) - 1 = k /\ k \in 0 .. n
          /\ r[k] = SubSeq(t, c[x] + 1, c[y])
        BY <1>2, <2>1
    <2>3. /\ p - 1 + (k + 1) = y + 1 /\ p + (k + 1) - 1 = y + 1 /\ (y + 1) - 1 = y
          /\ y \in 0 .. Len(e) /\ x \in 0 .. y /\ x \in 0 .. Len(e)
        BY <1>2, <2>2
    <2>4. y + 1 \in 0 .. Len(e)
        BY <1>2, <2>2, <2>3
    <2>5. y + 1 \in 1 .. Len(e)
        BY <2>3, <2>4
    <2>6. r[k + 1] = Text!TakeLine(h, side, r[k], k + 1)
        BY <1>3, <2>2
    <2> HIDE DEF x, y, T
    <2>11. h[k + 1] = e[y + 1]
        BY <1>1, <2>2, <2>3
    <2>7. c[x] \in Nat /\ c[y] \in Nat /\ c[x] <= c[y]
        BY <1>4, <2>3
    <2>8. CASE e[y + 1].kind \in {"keep", side}
        <3>1. c[y + 1] = c[y] + 1 /\ c[y + 1] <= Len(t) /\ e[y + 1].line = t[c[y + 1]]
            BY <1>5, <2>3, <2>5, <2>8
        <3>2. r[k + 1] = Append(r[k], t[c[y] + 1])
            BY <2>6, <2>8, <2>11, <3>1 DEF Text!TakeLine
        <3>3. Append(SubSeq(t, c[x] + 1, c[y]), t[c[y] + 1]) = SubSeq(t, c[x] + 1, c[y] + 1)
            BY <2>7, <3>1, OneLineMore
        <3>4. QED
            BY <2>2, <2>3, <3>1, <3>2, <3>3 DEF x
    <2>9. CASE e[y + 1].kind \notin {"keep", side}
        <3>1. c[y + 1] = c[y]
            BY <1>5, <2>3, <2>5, <2>9
        <3>2. r[k + 1] = r[k]
            BY <2>6, <2>9, <2>11 DEF Text!TakeLine
        <3>3. QED
            BY <2>2, <2>3, <3>1, <3>2 DEF x
    <2>10. QED
        BY <2>8, <2>9
<1>8. T = Nat
    <2> HIDE DEF T
    <2> QED
        BY <1>6, <1>7, Induction DEF T
<1>9. r[n] = SubSeq(t, c[p - 1] + 1, c[p - 1 + n])
    BY <1>2, <1>8
<1>10. QED
    BY <1>2, <1>3, <1>9 DEF h

(* The numbers of those lines.                                              *)
Numbers(h, f) == {h[k][f] : k \in DOMAIN h} \ {0}

(* Their numbers are those of that stretch.                                 *)
LEMMA HunkNumbers ==
    ASSUME NEW L, NEW t \in Seq(L), NEW side, NEW f, NEW e \in Seq(TextEdits(L)), NEW c,
           Spells(t, side, f, e, c), NEW p \in 1 .. Len(e), NEW q \in p .. Len(e)
    PROVE  Numbers(SubSeq(e, p, q), f) = (c[p - 1] + 1) .. c[q]
<1> DEFINE h == SubSeq(e, p, q)
           n == Len(e)
           N == {h[k][f] : k \in DOMAIN h} \ {0}
<1>1. DOMAIN h = 1 .. (q - p + 1) /\ \A k \in 1 .. (q - p + 1) : h[k] = e[p + k - 1]
    BY HunkIs
<1>2. /\ \A y \in 0 .. n : c[y] \in Nat
      /\ \A y \in 0 .. n : \A x \in 0 .. y : c[x] <= c[y]
      /\ \A k \in 1 .. n : /\ k - 1 \in 0 .. n /\ k \in 0 .. n
                           /\ \/ c[k] = c[k - 1] + 1 /\ e[k][f] = c[k]
                              \/ c[k] = c[k - 1] /\ e[k][f] = 0
    <2>1. Counts(t, side, f, e, c)
        BY CountsRise
    <2>2. QED
        BY <2>1 DEF Counts
<1> HIDE DEF h
<1>3. n \in Nat /\ p \in Nat /\ q \in Nat /\ 1 <= p /\ p <= q /\ q <= n
    OBVIOUS
<1> HIDE DEF n
<1>4. N = {e[k][f] : k \in p .. q} \ {0}
    <2>1. \A k \in p .. q : k - p + 1 \in 1 .. (q - p + 1) /\ p + (k - p + 1) - 1 = k
        BY <1>3
    <2>2. \A k \in 1 .. (q - p + 1) : p + k - 1 \in p .. q
        BY <1>3
    <2>3. {h[k][f] : k \in DOMAIN h} = {e[k][f] : k \in p .. q}
        <3>1. \A k \in DOMAIN h : h[k][f] \in {e[x][f] : x \in p .. q}
            BY <1>1, <2>2
        <3>2. \A k \in p .. q : k - p + 1 \in DOMAIN h /\ h[k - p + 1][f] = e[k][f]
            BY <1>1, <2>1
        <3>3. QED
            BY <3>1, <3>2
    <2>4. QED
        BY <2>3
<1> HIDE DEF N
<1>5. ASSUME NEW k \in p .. q, e[k][f] # 0
      PROVE  e[k][f] \in (c[p - 1] + 1) .. c[q]
    <2>1. /\ k \in 1 .. n /\ k \in 0 .. q /\ q \in 0 .. n /\ k - 1 \in 0 .. n /\ p - 1 \in 0 .. (k - 1)
          /\ k \in 0 .. n /\ p - 1 \in 0 .. n
        BY <1>3
    <2>2. c[k] = c[k - 1] + 1 /\ e[k][f] = c[k]
        BY <1>2, <1>5, <2>1
    <2>3. c[p - 1] <= c[k - 1] /\ c[k] <= c[q]
        BY <1>2, <2>1
    <2>4. c[p - 1] \in Nat /\ c[k - 1] \in Nat /\ c[k] \in Nat /\ c[q] \in Nat
        BY <1>2, <2>1
    <2>5. QED
        BY <2>2, <2>3, <2>4
<1> DEFINE T == {k \in Nat : k >= p - 1 /\ k <= q =>
                    \A v \in (c[p - 1] + 1) .. c[k] : \E x \in p .. k : e[x][f] = v}
<1>6. 0 \in T
    <2>1. SUFFICES ASSUME 0 >= p - 1
                   PROVE  \A v \in (c[p - 1] + 1) .. c[0] : \E x \in p .. 0 : e[x][f] = v
        OBVIOUS
    <2>2. p - 1 = 0 /\ 0 \in 0 .. n
        BY <1>3, <2>1
    <2>3. c[0] \in Nat
        BY <1>2, <2>2
    <2>4. QED
        BY <2>2, <2>3
<1>7. ASSUME NEW k \in T
      PROVE  k + 1 \in T
    <2> SUFFICES ASSUME k + 1 >= p - 1, k + 1 <= q
                 PROVE  \A v \in (c[p - 1] + 1) .. c[k + 1] : \E x \in p .. (k + 1) : e[x][f] = v
        OBVIOUS
    <2> TAKE v \in (c[p - 1] + 1) .. c[k + 1]
    <2>1. k + 1 >= p - 1 /\ k + 1 <= q
        OBVIOUS
    <2>2. k \in Nat /\ k + 1 \in 0 .. n /\ k \in 0 .. n /\ p - 1 \in 0 .. n
        BY <1>3, <2>1
    <2>3. c[k] \in Nat /\ c[k + 1] \in Nat /\ c[p - 1] \in Nat
        BY <1>2, <2>2
    <2>4. CASE k + 1 = p - 1
        BY <2>3, <2>4
    <2>5. CASE k >= p - 1
        <3>1. /\ k + 1 \in 1 .. n /\ (k + 1) - 1 = k /\ k + 1 \in p .. (k + 1) /\ k <= q
              /\ \A x \in p .. k : x \in p .. (k + 1)
            BY <1>3, <2>1, <2>2, <2>5
        <3>2. \/ c[k + 1] = c[k] + 1 /\ e[k + 1][f] = c[k + 1]
              \/ c[k + 1] = c[k] /\ e[k + 1][f] = 0
            BY <1>2, <3>1
        <3>3. CASE v = c[k + 1] /\ c[k + 1] = c[k] + 1
            <4>1. e[k + 1][f] = v
                BY <2>3, <3>2, <3>3
            <4>2. QED
                BY <3>1, <4>1
        <3>4. CASE ~ (v = c[k + 1] /\ c[k + 1] = c[k] + 1)
            <4>1. v \in (c[p - 1] + 1) .. c[k]
                BY <2>3, <3>2, <3>4
            <4>2. \E x \in p .. k : e[x][f] = v
                BY <2>2, <2>5, <3>1, <4>1
            <4>3. QED
                BY <3>1, <4>2
        <3>5. QED
            BY <3>3, <3>4
    <2>6. QED
        BY <1>3, <2>1, <2>2, <2>4, <2>5
<1>8. T = Nat
    <2> HIDE DEF T
    <2> QED
        BY <1>6, <1>7, Induction DEF T
<1>9. \A v \in (c[p - 1] + 1) .. c[q] : \E x \in p .. q : e[x][f] = v
    BY <1>3, <1>8
<1>10. \A v \in (c[p - 1] + 1) .. c[q] : v # 0
    <2>1. p - 1 \in 0 .. n
        BY <1>3
    <2>2. c[p - 1] \in Nat
        BY <1>2, <2>1
    <2>3. QED
        BY <2>2
<1> HIDE DEF T
<1>11. N = (c[p - 1] + 1) .. c[q]
    BY <1>4, <1>5, <1>9, <1>10
<1>12. QED
    BY <1>11 DEF N, h, Numbers

(* The least number of an interval.                                         *)
LEMMA LeastOfInterval ==
    ASSUME NEW lo \in Int, NEW hi \in Int, lo <= hi
    PROVE  Text!Min(lo .. hi) = lo
<1>1. lo \in lo .. hi /\ \A y \in lo .. hi : lo <= y
    OBVIOUS
<1>2. \A x \in lo .. hi : (\A y \in lo .. hi : x <= y) => x = lo
    OBVIOUS
<1>3. QED
    BY <1>1, <1>2 DEF Text!Min

(* How many numbers an interval has.                                        *)
LEMMA CountOfInterval ==
    ASSUME NEW lo \in Int, NEW hi \in Int
    PROVE  Text!Cardinality(lo .. hi) = IF lo > hi THEN 0 ELSE hi - lo + 1
<1>1. Text!Cardinality(lo .. hi) = Cardinality(lo .. hi)
    BY DEF Text!Cardinality, Cardinality
<1>2. QED
    BY <1>1, FS_Interval

(* The script e spells a with A and b with B.                               *)
IsScript(L, a, b, e, A, B) ==
    /\ a \in Seq(L) /\ b \in Seq(L) /\ e \in Seq(TextEdits(L))
    /\ Spells(a, "delete", "a", e, A) /\ Spells(b, "add", "b", e, B)

(* What a script has spelled of either text never goes back.                *)
LEMMA ScriptCounts ==
    ASSUME NEW L, NEW a, NEW b, NEW e, NEW A, NEW B, IsScript(L, a, b, e, A, B)
    PROVE  Counts(a, "delete", "a", e, A) /\ Counts(b, "add", "b", e, B)
BY CountsRise DEF IsScript

(* The numbers of the lines of a hunk, on either side.                      *)
LEMMA ScriptNumbers ==
    ASSUME NEW L, NEW a, NEW b, NEW e, NEW A, NEW B, IsScript(L, a, b, e, A, B),
           NEW p \in 1 .. Len(e), NEW q \in p .. Len(e)
    PROVE  /\ Numbers(SubSeq(e, p, q), "a") = (A[p - 1] + 1) .. A[q]
           /\ Numbers(SubSeq(e, p, q), "b") = (B[p - 1] + 1) .. B[q]
BY HunkNumbers DEF IsScript

StartsKept(e, p) == p > 1 => e[p].kind = "keep"

(* The header of a hunk says which old lines it is about.                   *)
LEMMA HeaderIs ==
    ASSUME NEW L, NEW a, NEW b, NEW e, NEW A, NEW B, IsScript(L, a, b, e, A, B),
           NEW p \in 1 .. Len(e), NEW q \in p .. Len(e), StartsKept(e, p)
    PROVE  LET h == Text!Header(e, <<p, q>>)
           IN  h.aCount = A[q] - A[p - 1] /\ Text!Before(h) = A[p - 1]
<1> DEFINE hunk == SubSeq(e, p, q)
           NA == Numbers(hunk, "a")
           NB == Numbers(hunk, "b")
           h == Text!Header(e, <<p, q>>)
<1>1. /\ h.aCount = Text!Cardinality(NA)
      /\ h.aStart = IF NA = {} THEN Text!Min(NB) - 1 ELSE Text!Min(NA)
    BY DEF Text!Header, Numbers
<1>2. NA = (A[p - 1] + 1) .. A[q] /\ NB = (B[p - 1] + 1) .. B[q]
    BY ScriptNumbers
<1> HIDE DEF hunk, NA, NB, h
<1>3. Counts(a, "delete", "a", e, A) /\ Counts(b, "add", "b", e, B)
    BY ScriptCounts
<1>4. p \in 0 .. q /\ p - 1 \in 0 .. q /\ p \in 0 .. Len(e) /\ q \in 0 .. Len(e) /\ p - 1 \in 0 .. Len(e)
    BY DEF IsScript
<1>5. /\ A[p - 1] \in Nat /\ A[p] \in Nat /\ A[q] \in Nat /\ A[p - 1] <= A[q] /\ A[p] <= A[q]
      /\ B[p - 1] \in Nat /\ B[p] \in Nat /\ B[q] \in Nat /\ B[p] <= B[q]
    BY <1>3, <1>4 DEF Counts
<1>6. h.aCount = A[q] - A[p - 1]
    <2>1. Text!Cardinality(NA) = IF A[p - 1] + 1 > A[q] THEN 0 ELSE A[q] - (A[p - 1] + 1) + 1
        <3>1. A[p - 1] + 1 \in Int /\ A[q] \in Int
            BY <1>5
        <3>2. QED
            BY <1>2, <3>1, CountOfInterval
    <2>2. QED
        BY <1>1, <1>5, <2>1
<1>7. CASE A[p - 1] < A[q]
    <2>1. NA # {} /\ Text!Min(NA) = A[p - 1] + 1
        <3>1. A[p - 1] + 1 \in Int /\ A[q] \in Int /\ A[p - 1] + 1 <= A[q]
            BY <1>5, <1>7
        <3>2. A[p - 1] + 1 \in NA
            BY <1>2, <3>1
        <3>3. QED
            BY <1>2, <3>1, <3>2, LeastOfInterval
    <2>2. h.aStart = A[p - 1] + 1 /\ h.aCount # 0
        BY <1>1, <1>5, <1>6, <1>7, <2>1
    <2>3. Text!Before(h) = A[p - 1]
        BY <1>5, <2>2 DEF Text!Before
    <2>4. QED
        BY <1>6, <2>3 DEF h
<1>8. CASE A[p - 1] = A[q]
    <2>1. A[p] = A[p - 1]
        <3>1. A[p] = A[p - 1] + 1 \/ A[p] = A[p - 1]
            BY <1>3 DEF Counts
        <3>2. QED
            BY <1>5, <1>8, <3>1
    <2>2. e[p].kind \notin {"keep", "delete"}
        <3>1. e[p].kind \in {"keep", "delete"} => A[p] = A[p - 1] + 1
            BY <1>3 DEF Counts
        <3>2. QED
            BY <1>5, <2>1, <3>1
    <2>3. p = 1
        BY <2>2 DEF StartsKept
    <2>4. e[p].kind = "add"
        <3>1. e[p] \in TextEdits(L)
            BY DEF IsScript
        <3>2. QED
            BY <2>2, <3>1 DEF TextEdits
    <2>5. B[p] = B[p - 1] + 1
        BY <1>3, <2>4 DEF Counts
    <2>6. A[p - 1] = 0 /\ B[p - 1] = 0
        BY <1>3, <2>3 DEF Counts
    <2>7. NA = {}
        BY <1>2, <1>5, <1>8
    <2>8. Text!Min(NB) = 1
        <3>1. NB = 1 .. B[q] /\ 1 <= B[q] /\ 1 \in Int /\ B[q] \in Int
            BY <1>2, <1>5, <2>5, <2>6
        <3>2. QED
            BY <3>1, LeastOfInterval
    <2>9. h.aStart = 0 /\ h.aCount = 0
        BY <1>1, <1>5, <1>6, <1>8, <2>7, <2>8
    <2>10. Text!Before(h) = 0
        BY <2>9 DEF Text!Before
    <2>11. QED
        BY <1>6, <2>6, <2>10 DEF h
<1>9. QED
    BY <1>5, <1>7, <1>8

(* Where a script keeps its lines, the texts are the same.                  *)
AllKept(e, u, v) == \A k \in (u + 1) .. v : e[k].kind = "keep"

SameStretch(a, b, A, B, u, v) ==
    SubSeq(a, A[u] + 1, A[v]) = SubSeq(b, B[u] + 1, B[v])

(* Where a script keeps its lines, the two texts are the same.              *)
LEMMA KeptStretch ==
    ASSUME NEW L, NEW a, NEW b, NEW e, NEW A, NEW B, IsScript(L, a, b, e, A, B),
           NEW u \in 0 .. Len(e), NEW v \in u .. Len(e),
           AllKept(e, u, v)
    PROVE  SameStretch(a, b, A, B, u, v)
<1> DEFINE n == Len(e)
           Same(k) == SubSeq(a, A[u] + 1, A[k]) = SubSeq(b, B[u] + 1, B[k])
           T == {k \in Nat : u + k <= v => Same(u + k)}
<1>1. n \in Nat /\ u \in Nat /\ v \in Nat /\ u <= v /\ v <= n /\ u \in 0 .. n
    BY DEF IsScript
<1>2. Counts(a, "delete", "a", e, A) /\ Counts(b, "add", "b", e, B)
    BY ScriptCounts
<1>3. \A k \in 0 .. n : A[k] \in Nat /\ B[k] \in Nat
    BY <1>2 DEF Counts
<1>4. 0 \in T
    <2>1. u + 0 = u /\ A[u] \in Nat /\ B[u] \in Nat
        BY <1>1, <1>3
    <2>2. A[u] + 1 \in Int /\ A[u] \in Int /\ A[u] < A[u] + 1 /\ B[u] + 1 \in Int /\ B[u] \in Int
          /\ B[u] < B[u] + 1
        BY <2>1
    <2>3. SubSeq(a, A[u] + 1, A[u]) = <<>> /\ SubSeq(b, B[u] + 1, B[u]) = <<>>
        BY <2>2, SubSeqEmpty
    <2>4. QED
        BY <2>1, <2>3
<1>5. ASSUME NEW k \in T
      PROVE  k + 1 \in T
    <2>1. SUFFICES ASSUME u + (k + 1) <= v
                   PROVE  Same(u + (k + 1))
        <3> HIDE DEF Same
        <3> QED
            OBVIOUS
    <2> DEFINE y == u + k
    <2>2. /\ k \in Nat /\ y <= v /\ y \in 0 .. n /\ u \in 0 .. y /\ y + 1 \in 1 .. n /\ y + 1 \in 0 .. n
          /\ y + 1 \in (u + 1) .. v /\ u + (k + 1) = y + 1 /\ (y + 1) - 1 = y
        BY <1>1, <2>1
    <2>3. Same(y)
        BY <2>2
    <2> HIDE DEF y, T
    <2>4. e[y + 1].kind \in {"keep", "delete"} /\ e[y + 1].kind \in {"keep", "add"}
        BY <2>2 DEF AllKept
    <2>5. A[y + 1] = A[y] + 1 /\ A[y + 1] <= Len(a) /\ e[y + 1].line = a[A[y + 1]]
        <3>1. IF e[y + 1].kind \in {"keep", "delete"}
              THEN /\ A[y + 1] = A[(y + 1) - 1] + 1 /\ A[y + 1] <= Len(a)
                   /\ e[y + 1].line = a[A[y + 1]]
              ELSE TRUE
            BY <1>2, <2>2 DEF Counts
        <3>2. QED
            BY <2>2, <2>4, <3>1
    <2>6. B[y + 1] = B[y] + 1 /\ B[y + 1] <= Len(b) /\ e[y + 1].line = b[B[y + 1]]
        <3>1. IF e[y + 1].kind \in {"keep", "add"}
              THEN /\ B[y + 1] = B[(y + 1) - 1] + 1 /\ B[y + 1] <= Len(b)
                   /\ e[y + 1].line = b[B[y + 1]]
              ELSE TRUE
            BY <1>2, <2>2 DEF Counts
        <3>2. QED
            BY <2>2, <2>4, <3>1
    <2>7. /\ A[u] \in Nat /\ A[y] \in Nat /\ A[u] <= A[y]
          /\ B[u] \in Nat /\ B[y] \in Nat /\ B[u] <= B[y]
        BY <1>1, <1>2, <2>2 DEF Counts
    <2>8. Append(SubSeq(a, A[u] + 1, A[y]), a[A[y] + 1]) = SubSeq(a, A[u] + 1, A[y] + 1)
        <3>1. A[y] + 1 <= Len(a)
            BY <2>5
        <3>2. QED
            BY <2>7, <3>1, OneLineMore DEF IsScript
    <2>9. Append(SubSeq(b, B[u] + 1, B[y]), b[B[y] + 1]) = SubSeq(b, B[u] + 1, B[y] + 1)
        <3>1. B[y] + 1 <= Len(b)
            BY <2>6
        <3>2. QED
            BY <2>7, <3>1, OneLineMore DEF IsScript
    <2>10. a[A[y] + 1] = b[B[y] + 1]
        BY <2>5, <2>6
    <2>11. SubSeq(a, A[u] + 1, A[y] + 1) = SubSeq(b, B[u] + 1, B[y] + 1)
        BY <2>3, <2>8, <2>9, <2>10
    <2>12. Same(y + 1)
        BY <2>5, <2>6, <2>11
    <2>13. QED
        BY <2>2, <2>12
<1>6. T = Nat
    <2> HIDE DEF T
    <2> QED
        BY <1>4, <1>5, Induction DEF T
<1>7. v - u \in Nat /\ u + (v - u) = v
    BY <1>1
<1>8. Same(v)
    <2> HIDE DEF Same
    <2>1. v - u \in T
        BY <1>6, <1>7
    <2>2. QED
        BY <1>1, <1>7, <2>1
<1>9. QED
    BY <1>8 DEF SameStretch

(* A patch is what its steps make.                                          *)
LEMMA PatchIs ==
    ASSUME NEW S, NEW a, NEW hunks \in Seq(S), NEW R, NEW g \in [0 .. Len(hunks) -> R],
           g[0] = [used |-> 0, text |-> <<>>],
           \A k \in 1 .. Len(hunks) : g[k] = Text!PatchHunk(a, g[k - 1], hunks[k])
    PROVE  Text!Patch(a, hunks)
             = g[Len(hunks)].text \o SubSeq(a, g[Len(hunks)].used + 1, Len(a))
<1> DEFINE n == Len(hunks)
           base == [used |-> 0, text |-> <<>>]
           Unfolds(f) == f = [k \in 0 .. n |->
                                IF k = 0 THEN base ELSE Text!PatchHunk(a, f[k - 1], hunks[k])]
           patched == CHOOSE f : Unfolds(f)
<1>1. n \in Nat
    OBVIOUS
<1>2. Text!Patch(a, hunks) = patched[n].text \o SubSeq(a, patched[n].used + 1, Len(a))
    BY DEF Text!Patch
<1>3. Unfolds(g)
    <2>1. \A k \in 0 .. n : g[k] = IF k = 0 THEN base ELSE Text!PatchHunk(a, g[k - 1], hunks[k])
        <3>1. \A k \in 0 .. n : k # 0 => k \in 1 .. n
            BY <1>1
        <3>2. QED
            BY <3>1
    <2>2. QED
        BY <2>1
<1>4. Unfolds(patched)
    <2> HIDE DEF Unfolds
    <2> QED
        BY <1>3
<1> HIDE DEF patched
<1>5. patched[0] = base /\ \A k \in 1 .. n : patched[k] = Text!PatchHunk(a, patched[k - 1], hunks[k])
    BY <1>1, <1>4
<1> HIDE DEF Unfolds, n, base
<1> DEFINE T == {k \in Nat : k <= n => patched[k] = g[k]}
<1>6. 0 \in T
    BY <1>5 DEF base
<1>7. ASSUME NEW k \in T
      PROVE  k + 1 \in T
    <2>1. SUFFICES ASSUME k + 1 <= n
                   PROVE  patched[k + 1] = g[k + 1]
        OBVIOUS
    <2>2. k \in Nat /\ k <= n /\ k + 1 \in 1 .. n /\ (k + 1) - 1 = k
        BY <1>1, <2>1
    <2>3. patched[k] = g[k]
        BY <2>2
    <2>4. g[k + 1] = Text!PatchHunk(a, g[k], hunks[k + 1])
        <3>1. k + 1 \in 1 .. Len(hunks)
            BY <2>2 DEF n
        <3>2. g[k + 1] = Text!PatchHunk(a, g[(k + 1) - 1], hunks[k + 1])
            BY <3>1
        <3>3. QED
            BY <2>2, <3>2
    <2>5. patched[k + 1] = Text!PatchHunk(a, patched[k], hunks[k + 1])
        BY <1>5, <2>2
    <2>6. QED
        BY <2>3, <2>4, <2>5
<1>8. T = Nat
    <2> HIDE DEF T
    <2> QED
        BY <1>6, <1>7, Induction DEF T
<1>9. patched[n] = g[n]
    <2>1. n \in T
        BY <1>1, <1>8
    <2>2. QED
        BY <1>1, <2>1
<1>10. QED
    BY <1>2, <1>9 DEF n

(* A hunk, of the script between two texts, from its range.                 *)
HunkOf(e, range) ==
    [header |-> Text!Header(e, range), edits |-> SubSeq(e, range[1], range[2])]

(* What is known of one range.                                              *)
LEMMA RangeIs ==
    ASSUME NEW L, NEW e \in Seq(TextEdits(L)), NEW rs, IsRanges(e, rs), NEW x \in 1 .. Len(rs)
    PROVE  /\ rs[x][1] \in 1 .. Len(e) /\ rs[x][2] \in rs[x][1] .. Len(e)
           /\ rs[x][1] > 1 => e[rs[x][1]].kind = "keep"
           /\ rs[x] = <<rs[x][1], rs[x][2]>>
           /\ x - 1 \in 0 .. Len(rs) /\ RangeEnd(rs, x) = rs[x][2]
           /\ RangeEnd(rs, x - 1) \in 0 .. (rs[x][1] - 1)
<1>1. rs \in Seq(Nat \X Nat) /\ Len(rs) \in Nat /\ x \in Nat /\ x # 0
    BY DEF IsRanges
<1>2. rs[x] \in Nat \X Nat
    BY <1>1
<1>3. /\ rs[x][1] \in 1 .. Len(e) /\ rs[x][2] \in rs[x][1] .. Len(e)
      /\ rs[x][1] > 1 => e[rs[x][1]].kind = "keep"
      /\ RangeEnd(rs, x - 1) < rs[x][1]
    BY DEF IsRanges
<1>4. RangeEnd(rs, x - 1) \in Nat
    <2>1. CASE x = 1
        BY <2>1 DEF RangeEnd
    <2>2. CASE x # 1
        <3>1. x - 1 \in 1 .. Len(rs) /\ x - 1 # 0
            BY <1>1, <2>2
        <3>2. rs[x - 1] \in Nat \X Nat
            BY <1>1, <3>1
        <3>3. QED
            BY <3>1, <3>2 DEF RangeEnd
    <2>3. QED
        BY <2>1, <2>2
<1>5. rs[x] = <<rs[x][1], rs[x][2]>>
    BY <1>2
<1>6. RangeEnd(rs, x) = rs[x][2]
    BY <1>1 DEF RangeEnd
<1>7. x - 1 \in 0 .. Len(rs)
    BY <1>1
<1>8. RangeEnd(rs, x - 1) \in 0 .. (rs[x][1] - 1)
    BY <1>2, <1>3, <1>4
<1>9. QED
    BY <1>3, <1>5, <1>6, <1>7, <1>8

(* What is true of each hunk: the lines it is about, on either side.        *)
Covers(a, b, A, B, hunk, p, q) ==
    /\ hunk.header.aCount = A[q] - A[p - 1]
    /\ Text!Before(hunk.header) = A[p - 1]
    /\ Text!OldLines(hunk.edits) = SubSeq(a, A[p - 1] + 1, A[q])
    /\ Text!NewLines(hunk.edits) = SubSeq(b, B[p - 1] + 1, B[q])

(* A hunk is about a stretch of either text.                                *)
LEMMA HunkOfIs ==
    ASSUME NEW L, NEW a, NEW b, NEW e, NEW A, NEW B, IsScript(L, a, b, e, A, B),
           NEW p \in 1 .. Len(e), NEW q \in p .. Len(e), StartsKept(e, p)
    PROVE  Covers(a, b, A, B, HunkOf(e, <<p, q>>), p, q)
<1>2. LET h == Text!Header(e, <<p, q>>)
      IN  h.aCount = A[q] - A[p - 1] /\ Text!Before(h) = A[p - 1]
    BY HeaderIs
<1>3. Text!Lines(SubSeq(e, p, q), "delete") = SubSeq(a, A[p - 1] + 1, A[q])
    BY HunkLines DEF IsScript
<1>4. Text!Lines(SubSeq(e, p, q), "add") = SubSeq(b, B[p - 1] + 1, B[q])
    BY HunkLines DEF IsScript
<1> DEFINE hunk == HunkOf(e, <<p, q>>)
<1>5. hunk.header = Text!Header(e, <<p, q>>) /\ hunk.edits = SubSeq(e, p, q)
    BY DEF HunkOf
<1> HIDE DEF hunk
<1>6. /\ hunk.header.aCount = A[q] - A[p - 1] /\ Text!Before(hunk.header) = A[p - 1]
      /\ Text!OldLines(hunk.edits) = SubSeq(a, A[p - 1] + 1, A[q])
      /\ Text!NewLines(hunk.edits) = SubSeq(b, B[p - 1] + 1, B[q])
    BY <1>2, <1>3, <1>4, <1>5 DEF Text!OldLines, Text!NewLines
<1>7. Covers(a, b, A, B, hunk, p, q)
    BY <1>6 DEF Covers
<1>8. QED
    BY <1>7 DEF hunk

(* So does each hunk of a script.                                           *)
LEMMA HunkAtIs ==
    ASSUME NEW L, NEW a, NEW b, NEW e, NEW A, NEW B, IsScript(L, a, b, e, A, B),
           NEW rs, IsRanges(e, rs), NEW x \in 1 .. Len(rs)
    PROVE  Covers(a, b, A, B, HunkOf(e, rs[x]), rs[x][1], rs[x][2])
<1>1. \A p \in 1 .. Len(e), q \in 1 .. Len(e) :
         q \in p .. Len(e) /\ StartsKept(e, p) =>
            Covers(a, b, A, B, HunkOf(e, <<p, q>>), p, q)
    BY HunkOfIs
<1>2. /\ rs[x][1] \in 1 .. Len(e) /\ rs[x][2] \in rs[x][1] .. Len(e)
      /\ StartsKept(e, rs[x][1])
      /\ rs[x] = <<rs[x][1], rs[x][2]>>
    BY RangeIs DEF StartsKept, IsScript
<1>3. rs[x][2] \in 1 .. Len(e)
    BY <1>2
<1>4. QED
    BY <1>1, <1>2, <1>3

(* Two stretches of a text that meet.                                       *)
LEMMA Adjacent ==
    ASSUME NEW L, NEW t \in Seq(L), NEW x \in Nat, NEW y \in Nat, x <= y, y <= Len(t)
    PROVE  SubSeq(t, 1, x) \o SubSeq(t, x + 1, y) = SubSeq(t, 1, y)
<1>1. 1 \in 1 .. (Len(t) + 1) /\ x \in (1 - 1) .. Len(t) /\ y \in x .. Len(t)
    OBVIOUS
<1>2. QED
    BY <1>1, ConcatAdjacentSubSeq

(* The patch after some of the hunks: it has used the old text and made the *)
(* new one up to the end of the last of them.                               *)
PatchedTo(b, A, B, rs, x) ==
    [used |-> A[RangeEnd(rs, x)], text |-> SubSeq(b, 1, B[RangeEnd(rs, x)])]

(* One hunk more takes the patch to the end of that hunk.                   *)
LEMMA PatchedMore ==
    ASSUME NEW L, NEW a, NEW b, NEW e, NEW A, NEW B, IsScript(L, a, b, e, A, B),
           NEW rs, IsRanges(e, rs), NEW x \in 1 .. Len(rs)
    PROVE  Text!PatchHunk(a, PatchedTo(b, A, B, rs, x - 1), HunkOf(e, rs[x]))
             = PatchedTo(b, A, B, rs, x)
<1> DEFINE p == rs[x][1]
           q == rs[x][2]
           u == RangeEnd(rs, x - 1)
           hunk == HunkOf(e, rs[x])
           n == Len(e)
<1>1. /\ p \in 1 .. n /\ q \in p .. n /\ x - 1 \in 0 .. Len(rs) /\ RangeEnd(rs, x) = q
      /\ u \in 0 .. (p - 1)
    BY RangeIs DEF IsScript
<1>2. /\ hunk.header.aCount = A[q] - A[p - 1]
      /\ Text!Before(hunk.header) = A[p - 1]
      /\ Text!NewLines(hunk.edits) = SubSeq(b, B[p - 1] + 1, B[q])
    <2>1. Covers(a, b, A, B, HunkOf(e, rs[x]), rs[x][1], rs[x][2])
        BY HunkAtIs
    <2>2. QED
        BY <2>1 DEF Covers
<1>3. \A c \in (u + 1) .. (p - 1) : e[c].kind = "keep"
    <2> SUFFICES ASSUME NEW c \in (u + 1) .. (p - 1)
                 PROVE  e[c].kind = "keep"
        OBVIOUS
    <2>1. c \in 1 .. n /\ u < c /\ c < p
        BY <1>1
    <2>2. NextStart(rs, x - 1, n) = p
        <3>1. Len(rs) \in Nat /\ x \in Nat /\ x - 1 # Len(rs) /\ (x - 1) + 1 = x
            BY DEF IsRanges
        <3>2. QED
            BY <3>1 DEF NextStart
    <2>3. QED
        BY <1>1, <2>1, <2>2 DEF IsRanges
<1> HIDE DEF p, q, u, hunk
<1>4. Counts(a, "delete", "a", e, A) /\ Counts(b, "add", "b", e, B)
    BY ScriptCounts
<1> HIDE DEF n
<1>5. n \in Nat /\ u \in 0 .. n /\ p - 1 \in u .. n /\ q \in 0 .. n /\ p - 1 \in 0 .. q /\ p - 1 \in 0 .. n
      /\ u \in 0 .. (p - 1)
    BY <1>1 DEF n, IsScript
<1>6. /\ A[p - 1] \in Nat /\ A[q] \in Nat
      /\ B[u] \in Nat /\ B[p - 1] \in Nat /\ B[q] \in Nat
      /\ B[u] <= B[p - 1] /\ B[p - 1] <= B[q] /\ B[q] <= Len(b) /\ B[p - 1] <= Len(b)
    BY <1>4, <1>5 DEF Counts, n
<1>7. SubSeq(a, A[u] + 1, A[p - 1]) = SubSeq(b, B[u] + 1, B[p - 1])
    <2>1. PICK y \in 0 .. Len(e) : y = u
        BY <1>5 DEF n
    <2>2. PICK z \in y .. Len(e) : z = p - 1
        BY <1>5, <2>1 DEF n
    <2>3. AllKept(e, y, z)
        BY <1>3, <2>1, <2>2 DEF AllKept
    <2>4. SameStretch(a, b, A, B, y, z)
        BY <2>3, KeptStretch
    <2>5. QED
        BY <2>1, <2>2, <2>4 DEF SameStretch
<1>8. SubSeq(b, 1, B[u]) \o SubSeq(b, B[u] + 1, B[p - 1]) = SubSeq(b, 1, B[p - 1])
    BY <1>6, Adjacent DEF IsScript
<1>9. SubSeq(b, 1, B[p - 1]) \o SubSeq(b, B[p - 1] + 1, B[q]) = SubSeq(b, 1, B[q])
    BY <1>6, Adjacent DEF IsScript
<1> DEFINE done == PatchedTo(b, A, B, rs, x - 1)
<1>10. done.used = A[u] /\ done.text = SubSeq(b, 1, B[u])
    BY DEF PatchedTo, u
<1> HIDE DEF done
<1>11. Text!PatchHunk(a, done, hunk)
         = [used |-> A[p - 1] + (A[q] - A[p - 1]),
            text |-> done.text \o SubSeq(a, done.used + 1, A[p - 1]) \o SubSeq(b, B[p - 1] + 1, B[q])]
    BY <1>2 DEF Text!PatchHunk
<1>12. A[p - 1] + (A[q] - A[p - 1]) = A[q]
    BY <1>6
<1>13. done.text \o SubSeq(a, done.used + 1, A[p - 1]) \o SubSeq(b, B[p - 1] + 1, B[q])
         = SubSeq(b, 1, B[q])
    BY <1>7, <1>8, <1>9, <1>10
<1>14. PatchedTo(b, A, B, rs, x) = [used |-> A[q], text |-> SubSeq(b, 1, B[q])]
    BY <1>1 DEF PatchedTo, q
<1>15. QED
    BY <1>11, <1>12, <1>13, <1>14 DEF done, hunk

(* The hunks of a script's ranges.                                          *)
HunksOf(e, rs) == [k \in DOMAIN rs |-> HunkOf(e, rs[k])]

(* A script that spells the two texts to their ends.                        *)
IsWholeScript(L, a, b, e, A, B) ==
    IsScript(L, a, b, e, A, B) /\ A[Len(e)] = Len(a) /\ B[Len(e)] = Len(b)

(* The script from one text to another spells both of them to their ends.   *)
LEMMA WholeScriptExists ==
    ASSUME NEW L, NEW a \in Seq(L), NEW b \in Seq(L), NEW e, e = Text!EditScript(a, b)
    PROVE  /\ e \in Seq(TextEdits(L))
           /\ \E A, B : IsWholeScript(L, a, b, e, A, B)
           /\ Cardinality(Kept(e)) = Text!Lcs(a, b)[1][1]
<1>1. /\ e \in Seq(TextEdits(L))
      /\ SpelledUpTo(a, "delete", "a", e, Len(a))
      /\ SpelledUpTo(b, "add", "b", e, Len(b))
      /\ Cardinality(Kept(e)) = Text!Lcs(a, b)[1][1]
    BY ScriptIs
<1>2. PICK A : Spells(a, "delete", "a", e, A) /\ A[Len(e)] = Len(a)
    BY <1>1 DEF SpelledUpTo
<1>3. PICK B : Spells(b, "add", "b", e, B) /\ B[Len(e)] = Len(b)
    BY <1>1 DEF SpelledUpTo
<1>4. IsWholeScript(L, a, b, e, A, B)
    BY <1>1, <1>2, <1>3 DEF IsWholeScript, IsScript
<1>5. QED
    BY <1>1, <1>4

(* The hunks are as many as the ranges.                                     *)
LEMMA HunksAre ==
    ASSUME NEW L, NEW e \in Seq(TextEdits(L)), NEW rs, IsRanges(e, rs)
    PROVE  /\ HunksOf(e, rs) \in Seq({HunkOf(e, rs[k]) : k \in 1 .. Len(rs)})
           /\ Len(HunksOf(e, rs)) = Len(rs) /\ DOMAIN HunksOf(e, rs) = 1 .. Len(rs)
           /\ Len(rs) \in Nat
           /\ \A k \in 1 .. Len(rs) : HunksOf(e, rs)[k] = HunkOf(e, rs[k])
<1> DEFINE n == Len(rs)
           S == {HunkOf(e, rs[k]) : k \in 1 .. Len(rs)}
           hs == HunksOf(e, rs)
<1>1. n \in Nat /\ DOMAIN rs = 1 .. n
    BY DEF IsRanges
<1>2. hs = [k \in 1 .. n |-> HunkOf(e, rs[k])]
    BY <1>1 DEF HunksOf
<1>3. \A k \in 1 .. n : HunkOf(e, rs[k]) \in S
    OBVIOUS
<1> HIDE DEF hs, S, n
<1>4. hs \in [1 .. n -> S]
    BY <1>2, <1>3
<1>5. hs \in Seq(S) /\ Len(hs) = n /\ DOMAIN hs = 1 .. n
    BY <1>1, <1>4
<1>6. \A k \in 1 .. n : hs[k] = HunkOf(e, rs[k])
    BY <1>2
<1>7. QED
    BY <1>1, <1>5, <1>6 DEF hs, S, n

(* The hunks of a script make its new text of its old one.                  *)
LEMMA PatchMakes ==
    ASSUME NEW L, NEW a, NEW b, NEW e, NEW A, NEW B, IsWholeScript(L, a, b, e, A, B),
           NEW rs, IsRanges(e, rs)
    PROVE  Text!Patch(a, HunksOf(e, rs)) = b
<1> DEFINE n == Len(rs)
           hs == HunksOf(e, rs)
           g == [k \in 0 .. n |-> PatchedTo(b, A, B, rs, k)]
           u == RangeEnd(rs, n)
           v == Len(e)
<1>0. IsScript(L, a, b, e, A, B) /\ A[v] = Len(a) /\ B[v] = Len(b)
    BY DEF IsWholeScript
<1>1. a \in Seq(L) /\ b \in Seq(L) /\ e \in Seq(TextEdits(L)) /\ v \in Nat
    BY <1>0 DEF IsScript
<1>2. /\ hs \in Seq({HunkOf(e, rs[k]) : k \in 1 .. n})
      /\ Len(hs) = n /\ n \in Nat
      /\ \A k \in 1 .. n : hs[k] = HunkOf(e, rs[k])
    BY <1>1, HunksAre
<1>3. Counts(a, "delete", "a", e, A) /\ Counts(b, "add", "b", e, B)
    BY <1>0, ScriptCounts
<1>4. u \in 0 .. v
    <2>1. CASE n = 0
        BY <1>1, <2>1 DEF RangeEnd
    <2>2. CASE n # 0
        <3>1. n \in 1 .. Len(rs)
            BY <1>2, <2>2
        <3>2. /\ rs[n][1] \in 1 .. Len(e) /\ rs[n][2] \in rs[n][1] .. Len(e)
              /\ RangeEnd(rs, n) = rs[n][2]
            BY <1>1, <3>1, RangeIs
        <3>3. QED
            BY <1>1, <3>2
    <2>3. QED
        BY <2>1, <2>2
<1>5. AllKept(e, u, v)
    <2>1. NextStart(rs, n, v) = v + 1
        BY DEF NextStart
    <2>2. n \in 0 .. Len(rs)
        BY <1>2
    <2>3. \A c \in 1 .. v : u < c /\ c < v + 1 => e[c].kind = "keep"
        BY <2>1, <2>2 DEF IsRanges
    <2>4. \A c \in (u + 1) .. v : c \in 1 .. v /\ u < c /\ c < v + 1
        BY <1>1, <1>4
    <2>5. QED
        BY <2>3, <2>4 DEF AllKept
<1>6. g[0] = [used |-> 0, text |-> <<>>]
    <2>1. A[0] = 0 /\ B[0] = 0
        BY <1>3 DEF Counts
    <2>2. SubSeq(b, 1, 0) = <<>>
        BY SubSeqEmpty
    <2>3. PatchedTo(b, A, B, rs, 0) = [used |-> 0, text |-> <<>>]
        BY <2>1, <2>2 DEF PatchedTo, RangeEnd
    <2>4. 0 \in 0 .. n
        BY <1>2
    <2>5. QED
        BY <2>3, <2>4
<1>7. \A k \in 1 .. n : g[k] = Text!PatchHunk(a, g[k - 1], hs[k])
    <2> SUFFICES ASSUME NEW k \in 1 .. n
                 PROVE  g[k] = Text!PatchHunk(a, g[k - 1], hs[k])
        OBVIOUS
    <2>1. k \in 0 .. n /\ k - 1 \in 0 .. n
        BY <1>2
    <2>2. g[k] = PatchedTo(b, A, B, rs, k) /\ g[k - 1] = PatchedTo(b, A, B, rs, k - 1)
        BY <2>1
    <2>3. Text!PatchHunk(a, PatchedTo(b, A, B, rs, k - 1), HunkOf(e, rs[k]))
            = PatchedTo(b, A, B, rs, k)
        BY <1>0, PatchedMore
    <2>4. QED
        BY <1>2, <2>2, <2>3
<1>8. g \in [0 .. n -> {PatchedTo(b, A, B, rs, k) : k \in 0 .. n}]
    OBVIOUS
<1>9. g[n].text = SubSeq(b, 1, B[u]) /\ g[n].used = A[u]
    <2>1. g[n] = PatchedTo(b, A, B, rs, n)
        BY <1>2
    <2> DEFINE done == PatchedTo(b, A, B, rs, n)
    <2>2. done.text = SubSeq(b, 1, B[u]) /\ done.used = A[u]
        BY DEF PatchedTo
    <2> HIDE DEF g, n, u, done
    <2>3. g[n] = done
        BY <2>1 DEF done
    <2>4. QED
        BY <2>2, <2>3
<1> HIDE DEF g, hs, u, v, n
<1>10. Text!Patch(a, hs) = SubSeq(b, 1, B[u]) \o SubSeq(a, A[u] + 1, Len(a))
    <2>1. g \in [0 .. Len(hs) -> {PatchedTo(b, A, B, rs, k) : k \in 0 .. n}]
        BY <1>2, <1>8
    <2>2. \A k \in 1 .. Len(hs) : g[k] = Text!PatchHunk(a, g[k - 1], hs[k])
        BY <1>2, <1>7
    <2>3. Text!Patch(a, hs) = g[Len(hs)].text \o SubSeq(a, g[Len(hs)].used + 1, Len(a))
        BY <1>2, <1>6, <2>1, <2>2, PatchIs
    <2>4. QED
        BY <1>2, <1>9, <2>3
<1>11. SubSeq(a, A[u] + 1, A[v]) = SubSeq(b, B[u] + 1, B[v])
    <2>1. PICK y \in 0 .. Len(e) : y = u
        BY <1>4 DEF v
    <2>2. PICK z \in y .. Len(e) : z = v
        BY <1>1, <1>4, <2>1 DEF v
    <2>3. AllKept(e, y, z)
        BY <1>5, <2>1, <2>2
    <2>4. SameStretch(a, b, A, B, y, z)
        BY <1>0, <2>3, KeptStretch
    <2>5. QED
        BY <2>1, <2>2, <2>4 DEF SameStretch
<1>12. B[u] \in Nat /\ Len(b) \in Nat /\ B[u] <= Len(b)
    BY <1>1, <1>3, <1>4 DEF Counts, v
<1>13. SubSeq(b, 1, B[u]) \o SubSeq(b, B[u] + 1, Len(b)) = SubSeq(b, 1, Len(b))
    <2>1. PICK x \in Nat : x = B[u]
        BY <1>12
    <2>2. PICK y \in Nat : y = Len(b)
        BY <1>12
    <2>3. b \in Seq(L) /\ x <= y /\ y <= Len(b)
        BY <1>1, <1>12, <2>1, <2>2
    <2>4. SubSeq(b, 1, x) \o SubSeq(b, x + 1, y) = SubSeq(b, 1, y)
        BY <2>3, Adjacent
    <2>5. QED
        BY <2>1, <2>2, <2>4
<1>14. SubSeq(b, 1, Len(b)) = b
    BY <1>1, SubSeqFull
<1>15. QED
    BY <1>0, <1>10, <1>11, <1>13, <1>14 DEF hs

(* A text that does not change has no hunks, and stays what it is.          *)
LEMMA NothingToPatch ==
    ASSUME NEW L, NEW a \in Seq(L)
    PROVE  Text!Patch(a, <<>>) = a
<1> DEFINE base == [used |-> 0, text |-> <<>>]
           g == [k \in 0 .. 0 |-> base]
           none == <<>>
<1>1. none \in Seq({}) /\ Len(none) = 0
    OBVIOUS
<1>2. g \in [0 .. Len(none) -> {base}] /\ g[0] = base
    BY <1>1
<1>3. \A k \in 1 .. Len(none) : g[k] = Text!PatchHunk(a, g[k - 1], none[k])
    BY <1>1
<1>4. base.text = <<>> /\ base.used + 1 = 1
    OBVIOUS
<1> HIDE DEF g, none, base
<1>5. Text!Patch(a, none) = g[Len(none)].text \o SubSeq(a, g[Len(none)].used + 1, Len(a))
    BY <1>1, <1>2, <1>3, PatchIs DEF base
<1>6. SubSeq(a, 1, Len(a)) = a /\ <<>> \o a = a
    BY SubSeqFull, ConcatEmptySeq
<1>7. QED
    BY <1>1, <1>2, <1>4, <1>5, <1>6 DEF none

(* Each hunk is about the old lines that its header says, after those of    *)
(* the hunk before it.                                                      *)
LEMMA HunksInOrder ==
    ASSUME NEW L, NEW a, NEW b, NEW e, NEW A, NEW B, IsScript(L, a, b, e, A, B),
           NEW rs, IsRanges(e, rs), NEW k \in 1 .. Len(rs)
    PROVE  LET hs == HunksOf(e, rs)
               h == hs[k].header
           IN  /\ Text!OldLines(hs[k].edits)
                    = SubSeq(a, Text!Before(h) + 1, Text!Before(h) + h.aCount)
               /\ k > 1 => Text!Before(h) >= Text!Before(hs[k - 1].header)
                                               + hs[k - 1].header.aCount
<1> DEFINE hs == HunksOf(e, rs)
           h == hs[k].header
           p == rs[k][1]
           q == rs[k][2]
<1>1. e \in Seq(TextEdits(L)) /\ Len(e) \in Nat
    BY DEF IsScript
<1>2. Len(rs) \in Nat /\ \A x \in 1 .. Len(rs) : hs[x] = HunkOf(e, rs[x])
    BY <1>1, HunksAre
<1>3. /\ p \in 1 .. Len(e) /\ q \in p .. Len(e)
      /\ RangeEnd(rs, k - 1) \in 0 .. (p - 1)
    BY <1>1, RangeIs
<1>4. Covers(a, b, A, B, hs[k], p, q)
    BY <1>2, HunkAtIs
<1>5. Counts(a, "delete", "a", e, A)
    BY ScriptCounts
<1> HIDE DEF hs, p, q
<1>6. h.aCount = A[q] - A[p - 1] /\ Text!Before(h) = A[p - 1]
      /\ Text!OldLines(hs[k].edits) = SubSeq(a, A[p - 1] + 1, A[q])
    BY <1>4 DEF Covers
<1>7. p - 1 \in 0 .. Len(e) /\ q \in 0 .. Len(e)
    BY <1>1, <1>3
<1>8. A[p - 1] \in Nat /\ A[q] \in Nat
    BY <1>5, <1>7 DEF Counts
<1> HIDE DEF h
<1>9. Text!OldLines(hs[k].edits) = SubSeq(a, Text!Before(h) + 1, Text!Before(h) + h.aCount)
    <2>1. Text!Before(h) + h.aCount = A[q]
        BY <1>6, <1>8
    <2>2. QED
        BY <1>6, <2>1
<1>10. ASSUME k > 1
       PROVE  Text!Before(h) >= Text!Before(hs[k - 1].header) + hs[k - 1].header.aCount
    <2>1. PICK x \in 1 .. Len(rs) : x = k - 1
        BY <1>2, <1>10
    <2> DEFINE s == rs[x][1]
               t == rs[x][2]
    <2>2. s \in 1 .. Len(e) /\ t \in s .. Len(e) /\ RangeEnd(rs, x) = t
        BY <1>1, RangeIs
    <2>3. Covers(a, b, A, B, hs[x], s, t)
        BY <1>2, HunkAtIs
    <2> HIDE DEF s, t
    <2>4. hs[x].header.aCount = A[t] - A[s - 1] /\ Text!Before(hs[x].header) = A[s - 1]
        BY <2>3 DEF Covers
    <2>5. s - 1 \in 0 .. Len(e) /\ t \in 0 .. Len(e) /\ t \in 0 .. (p - 1)
        BY <1>1, <1>3, <2>1, <2>2
    <2>6. A[s - 1] \in Nat /\ A[t] \in Nat /\ A[t] <= A[p - 1]
        BY <1>5, <1>7, <2>5 DEF Counts
    <2>7. Text!Before(hs[x].header) + hs[x].header.aCount = A[t]
        BY <2>4, <2>6
    <2>8. QED
        BY <1>6, <1>8, <2>1, <2>6, <2>7
<1>11. QED
    BY <1>9, <1>10 DEF h, hs

(* No lines matched in their order are more than a script keeps.            *)
LEMMA ScriptKeepsMost ==
    ASSUME NEW L, NEW a \in Seq(L), NEW b \in Seq(L)
    PROVE  KeepsMost(a, b)
<1> DEFINE e == Text!EditScript(a, b)
           t == Text!Lcs(a, b)
<1>1. Cardinality(Kept(e)) = t[1][1]
    BY WholeScriptExists
<1>2. IsLcs(a, b, t)
    BY LcsIs
<1>3. DOMAIN a = 1 .. Len(a) /\ DOMAIN b = 1 .. Len(b)
    OBVIOUS
<1> HIDE DEF e, t
<1>4. ASSUME NEW part \in SUBSET DOMAIN a, NEW match \in [part -> DOMAIN b],
             InOrder(a, b, match)
      PROVE  Cardinality(part) <= Cardinality(Kept(e))
    <2>1. part \in SUBSET (1 .. Len(a)) /\ match \in [part -> 1 .. Len(b)]
        BY <1>3
    <2>2. Cardinality(part) <= t[1][1]
        BY <1>2, <1>4, <2>1, NoMatchIsLonger
    <2>3. QED
        BY <1>1, <2>2
<1>5. QED
    BY <1>4 DEF KeepsMost, Kept, e

(* What a diff prints is right for a program that applies it, for texts of  *)
(* any length: it makes the new text of the old one, its hunks name the old *)
(* lines they stand for and do not overlap, and no diff keeps more lines    *)
(* (internal/diff).                                                         *)
THEOREM AnyDiffApplies ==
    ASSUME NEW L, case.kind = "text" => case.old \in Seq(L) /\ case.new \in Seq(L)
    PROVE  /\ DiffApplies
           /\ case.kind = "text" => KeepsMost(case.old, case.new)
<1> SUFFICES ASSUME case.kind = "text"
             PROVE  DiffApplies /\ KeepsMost(case.old, case.new)
    BY DEF DiffApplies
<1> DEFINE a == case.old
           b == case.new
           hunks == Text!Unified(a, b)
           e == Text!EditScript(a, b)
           rs == Text!HunkRanges(e)
           InPlace(k) ==
                LET h == hunks[k].header IN
                /\ Text!OldLines(hunks[k].edits)
                     = SubSeq(a, Text!Before(h) + 1, Text!Before(h) + h.aCount)
                /\ k > 1 => Text!Before(h) >= Text!Before(hunks[k - 1].header)
                                                + hunks[k - 1].header.aCount
<1>1. a \in Seq(L) /\ b \in Seq(L)
    OBVIOUS
<1>2. hunks = IF a = b THEN <<>> ELSE HunksOf(e, rs)
    BY DEF Text!Unified, HunksOf, HunkOf
<1> HIDE DEF a, b, hunks, e, rs
<1>3. KeepsMost(a, b)
    BY <1>1, ScriptKeepsMost
<1>4. Text!Patch(a, hunks) = b /\ \A k \in DOMAIN hunks : InPlace(k)
    <2>1. CASE a = b
        <3>1. hunks = <<>>
            BY <1>2, <2>1
        <3>2. Text!Patch(a, <<>>) = a
            BY <1>1, NothingToPatch
        <3>3. DOMAIN hunks = {}
            BY <3>1
        <3>4. QED
            BY <2>1, <3>1, <3>2, <3>3
    <2>2. CASE a # b
        <3>1. hunks = HunksOf(e, rs)
            BY <1>2, <2>2
        <3>2. e \in Seq(TextEdits(L)) /\ \E A, B : IsWholeScript(L, a, b, e, A, B)
            BY <1>1, WholeScriptExists DEF e
        <3>3. PICK A, B : IsWholeScript(L, a, b, e, A, B)
            BY <3>2
        <3>4. IsRanges(e, rs)
            BY <3>2, HunkRangesAre DEF rs
        <3>5. Text!Patch(a, hunks) = b
            BY <3>1, <3>3, <3>4, PatchMakes
        <3>6. IsScript(L, a, b, e, A, B)
            BY <3>3 DEF IsWholeScript
        <3>7. DOMAIN hunks = 1 .. Len(rs)
            BY <3>1, <3>2, <3>4, HunksAre
        <3>8. \A k \in 1 .. Len(rs) : InPlace(k)
            BY <3>1, <3>4, <3>6, HunksInOrder
        <3>9. QED
            BY <3>5, <3>7, <3>8
    <2>3. QED
        BY <2>1, <2>2
<1>5. DiffApplies
    BY <1>3, <1>4 DEF DiffApplies, a, b, hunks
<1>6. QED
    BY <1>3, <1>5 DEF a, b
=============================================================================
