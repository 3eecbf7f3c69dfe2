------------------------------- MODULE Usage --------------------------------
(***************************************************************************)
(* shared-scripts/tpu-usage.py and tpu-heatmap.py: what they make of one   *)
(* node's history.csv.  The file is its header, its lines, and a last line *)
(* without a newline, if a short write left one.  A line is the time of a  *)
(* poll and the user of each chip; of a torn line, cut is the column the   *)
(* write stopped in, 0 for the timestamp.                                  *)
(***************************************************************************)
EXTENDS Integers, Sequences, SequencesExt, FiniteSets, FiniteSetsExt

CONSTANTS NChips,       \* columns dev0, dev1, ... are numbered from 1
          NoUser,       \* "-"
          Stranger,     \* any text in a user column that is no user's name
          DayLength     \* a day, in the unit of the timestamps

ASSUME UsageAssumption == NChips \in Nat \ {0} /\ DayLength \in Nat \ {0}

Columns == 1..NChips

\* float() of the rest of one timestamp and all of another, or of a part of
\* one: an error, or a time that has nothing to do with either.
Nonsense == 0

\* A row appended to a torn line shares its line: the fields keep their order,
\* so behind the cut the row's own users stand in the wrong columns.
Glue(torn, row) ==
    [ts    |-> IF torn.cut = 0 THEN Nonsense ELSE torn.ts,
     users |-> [c \in Columns |-> IF c < torn.cut THEN torn.users[c]
                                  ELSE IF c = torn.cut THEN Stranger
                                  ELSE row.users[c - torn.cut]]]

\* What csv.DictReader yields.  A file without its header gives its first line
\* away as field names.  A torn last line ends with missing fields; nobody
\* reads the users of the last row.
Rows(file) ==
    LET torn == {Glue(t, [users |-> [c \in Columns |-> Stranger]]) : t \in file.tail}
        all  == file.lines \o SetToSeq(torn)
    IN  IF file.header = "whole" \/ all = <<>> THEN all ELSE Tail(all)

\* The readers come to the end, and the times they subtract are times.
Readable(file) ==
    \/ Len(Rows(file)) < 2
    \/ file.header = "whole" /\ \A i \in DOMAIN Rows(file) : Rows(file)[i].ts # Nonsense

DayOf(ts) == ts \div DayLength

\* zip(rows, rows[1:]): the time between two rows belongs to the day and to the
\* users of the first of them.  Nothing is charged after the last row.
Intervals(rows) == {i \in DOMAIN rows : i + 1 \in DOMAIN rows}
Delta(rows, i)  == rows[i + 1].ts - rows[i].ts

DayOfEnd(rows, i)  == DayOf(rows[i + 1].ts)   \* mutant: the date of b
DayOfStart(rows, i) == DayOf(rows[i].ts)

\* What the loops' += come to for the list d of summands.
Total(d) ==
    LET sum[i \in 0..Len(d)] == IF i = 0 THEN 0 ELSE sum[i - 1] + d[i]
    IN  sum[Len(d)]

TotalOver(S, f) == LET all == SetToSeq(S) IN Total([k \in DOMAIN all |-> f[all[k]]])

\* The chips among dev0, dev1, ... that a row names u for.
ChipsOf(row, u) == Cardinality({c \in Columns : row.users[c] = u})
UsedChips(row)  == Cardinality({c \in Columns : row.users[c] # NoUser})

\* usage[day][user] of tpu-usage, and usage["forever"][user].
Daily(rows, day, u) ==
    Total([i \in Intervals(rows) |->
        IF DayOfStart(rows, i) = day THEN Delta(rows, i) * ChipsOf(rows[i], u) ELSE 0])

Forever(rows, u) ==
    Total([i \in Intervals(rows) |-> Delta(rows, i) * ChipsOf(rows[i], u)])

\* The days tpu-usage prints, and the names in its leaderboards.
UsageDays(rows) == {DayOfStart(rows, i) : i \in Intervals(rows)}
Names(rows)     == (UNION {Range(rows[i].users) : i \in Intervals(rows)}) \ {NoUser}

\* daily_total and daily_used of tpu-heatmap, which looks at no names but "-".
HeatTotal(rows, day) ==
    Total([i \in Intervals(rows) |->
        IF DayOf(rows[i].ts) = day THEN Delta(rows, i) * NChips ELSE 0])

HeatBooked(rows, day) ==     \* mutant: EXIT and FREE chips count as used
    HeatTotal(rows, day)

HeatUsed(rows, day) ==
    Total([i \in Intervals(rows) |->
        IF DayOf(rows[i].ts) = day THEN Delta(rows, i) * UsedChips(rows[i]) ELSE 0])

\* The days it colours.
HeatDays(rows, last) == {day \in 0..last : HeatTotal(rows, day) > 0}
=============================================================================
