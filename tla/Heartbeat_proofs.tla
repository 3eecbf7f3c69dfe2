--------------------------- MODULE Heartbeat_proofs ---------------------------
(***************************************************************************)
(* Proofs about the daemon, and about what the tools make of its           *)
(* history.csv: accounting from the log against accounting from every      *)
(* poll, forever and by the day, and tpu-usage against tpu-heatmap.  They  *)
(* hold for any processes, chips, MAX_LOG_WAIT, time and number of crashes *)
(* and short writes.                                                       *)
(***************************************************************************)
EXTENDS Heartbeat, SequenceTheorems, FiniteSetTheorems, WellFoundedInduction, TLAPS

USE HeartbeatAssumption, UsageAssumption

-----------------------------------------------------------------------------
(* Least and greatest numbers.  The induction behind them is that of the   *)
(* library's theorem on minimal elements of a well-founded relation.       *)

LEMMA LeastNat ==
    ASSUME NEW T \in SUBSET Nat, T # {}
    PROVE  \E n \in T : \A m \in T : n <= m
<1>. DEFINE R == {ss \in Nat \X Nat : ss[1] < ss[2]}
<1>1. IsWellFoundedOn(R, Nat)
  BY NatLessThanWellFounded DEF OpToRel
<1>2. PICK n \in T : \A m \in T : ~ (<<m, n>> \in R)
  <2>. HIDE DEF R
  <2>. QED
    BY <1>1, WFMin, Zenon
<1>3. \A m \in T : n <= m
  <2>1. SUFFICES ASSUME NEW m \in T, m < n PROVE FALSE
    OBVIOUS
  <2>2. <<m, n>> \in R
    BY <2>1
  <2>. QED
    BY <1>2, <2>2, Zenon
<1>. QED
  BY <1>3

LEMMA GreatestNat ==
    ASSUME NEW T \in SUBSET Nat, T # {}, NEW b \in Nat, \A n \in T : n <= b
    PROVE  \E n \in T : \A m \in T : n >= m
<1>. DEFINE U == {u \in Nat : \A m \in T : m <= u}
<1>1. PICK u \in U : \A v \in U : u <= v
  BY LeastNat
<1>2. u \in T
  <2>1. SUFFICES ASSUME u \notin T PROVE FALSE
    OBVIOUS
  <2>2. \A m \in T : m < u
    BY <2>1
  <2>3. u # 0
    <3>1. PICK m \in T : TRUE
      OBVIOUS
    <3>. QED
      BY <2>2, <3>1
  <2>4. u - 1 \in U
    BY <2>2, <2>3
  <2>. QED
    BY <2>4, <1>1
<1>. QED
  BY <1>1, <1>2


LEMMA MaxFacts ==
    ASSUME NEW T \in SUBSET Nat, T # {}, NEW b \in Nat, \A n \in T : n <= b
    PROVE  Max(T) \in T /\ \A m \in T : Max(T) >= m
BY GreatestNat DEF Max

-----------------------------------------------------------------------------
(* The inductive invariant. *)

Someone == Range(UserOf) \union {NoUser, Stranger}
UserRow == [Chips -> Someone]
Lines   == [ts : Nat, users : UserRow]
Torn    == [ts : Nat \ {0}, users : UserRow, cut : 0..NChips]
Phases  == InTry \union {"start", "header", "sleep", "down"}

Types ==
    /\ clock \in Nat \ {0} /\ pc \in Phases
    /\ devices \in [Chips -> Device]
    /\ lastLog \in SUBSET Lines
    /\ tmp \in {"absent", "partial", "whole"} /\ status \in {"absent", "partial", "whole"}
    /\ log \in [header : {"absent", "empty", "whole"}, lines : Seq(Lines), tail : SUBSET Torn]
    /\ polled \in Seq(Lines)
    /\ torn \in SUBSET [ts : Nat, cut : Nat]

\* status.json comes from a file that was written to its end, and before the
\* first row.
Atomic ==
    /\ pc = "rename" => tmp = "whole"
    /\ status # "partial"
    /\ pc = "log" => status # "absent"
    /\ status = "absent" => log.lines = <<>> /\ log.tail = {}

\* No row is from now or later.  A torn row is the latest there is.
Past ==
    /\ \A i \in 1..Len(log.lines) : log.lines[i].ts < clock
    /\ \A i \in 1..Len(polled) : polled[i].ts < clock
    /\ \A t \in log.tail : /\ log.tail = {t}
                           /\ t.ts < clock
                           /\ \E x \in torn : x.ts = t.ts
                           /\ \A i \in 1..Len(log.lines) : log.lines[i].ts <= t.ts

\* The row the daemon remembers is the last line, unless a torn row came between.
Remembered ==
    \A last \in lastLog :
        /\ lastLog = {last} /\ last.ts # 0 /\ last.ts < clock
        /\ \/ log.lines # <<>> /\ log.lines[Len(log.lines)] = last
           \/ \E x \in torn : /\ x.ts < clock
                              /\ \A i \in 1..Len(log.lines) : log.lines[i].ts <= x.ts

\* What the log has of a poll.
Kept(o) ==
    \/ TornBefore(o.ts)
    \/ /\ RowAt(o.ts) > 0
       /\ log.lines[RowAt(o.ts)].users = o.users
       /\ o.ts - log.lines[RowAt(o.ts)].ts <= MaxLogWait

AllKept == \A i \in 1..Len(polled) : Kept(polled[i])

Inv == Types /\ Atomic /\ Past /\ Remembered /\ AllKept

-----------------------------------------------------------------------------
(* The row in force. *)

LEMMA LinesFacts ==
    ASSUME NEW lines \in Seq(Lines)
    PROVE  /\ Len(lines) \in Nat /\ DOMAIN lines = 1..Len(lines)
           /\ \A i \in 1..Len(lines) : lines[i] \in Lines /\ lines[i].ts \in Nat
<1>1. Len(lines) \in Nat /\ DOMAIN lines = 1..Len(lines)
  BY LenProperties
<1>2. \A i \in 1..Len(lines) : lines[i] \in Lines
  BY ElementOfSeq
<1>3. \A line \in Lines : line.ts \in Nat
  BY DEF Lines
<1>. QED
  BY <1>1, <1>2, <1>3

LEMMA LastUpToFacts ==
    ASSUME NEW lines \in Seq(Lines), NEW t \in Nat
    PROVE  /\ LastUpTo(lines, t) \in 0..Len(lines)
           /\ LastUpTo(lines, t) # 0 => lines[LastUpTo(lines, t)].ts \in 1..t
           /\ \A i \in 1..Len(lines) : i > LastUpTo(lines, t) => lines[i].ts \notin 1..t
<1>. DEFINE I == {i \in 1..Len(lines) : lines[i].ts \in 1..t}
<1>1. Len(lines) \in Nat
  BY LinesFacts
<1>2. LastUpTo(lines, t) = IF I # {} THEN Max(I) ELSE 0
  BY DEF LastUpTo, SelectLastInSeq
<1>3. CASE I = {}
  BY <1>1, <1>2, <1>3
<1>4. CASE I # {}
  <2>1. I \in SUBSET Nat /\ \A i \in I : i <= Len(lines)
    BY <1>1
  <2>2. Max(I) \in I /\ \A i \in I : Max(I) >= i
    <3>. HIDE DEF I
    <3>. QED
      BY <1>1, <1>4, <2>1, MaxFacts
  <2>3. LastUpTo(lines, t) = Max(I)
    BY <1>2, <1>4
  <2>. DEFINE m == Max(I)
  <2>4. m \in 1..Len(lines) /\ lines[m].ts \in 1..t
    BY <2>2
  <2>5. \A i \in 1..Len(lines) : lines[i].ts \in 1..t => m >= i
    BY <2>2
  <2>. HIDE DEF m
  <2>6. \A i \in 1..Len(lines) : i > m => ~ (m >= i)
    BY <1>1, <2>4
  <2>7. LastUpTo(lines, t) = m
    BY <2>3 DEF m
  <2>. QED
    BY <1>1, <2>4, <2>5, <2>6, <2>7
<1>. QED
  BY <1>3, <1>4

LEMMA LastUpToIs ==
    ASSUME NEW lines \in Seq(Lines), NEW t \in Nat, NEW r \in 0..Len(lines),
           r # 0 => lines[r].ts \in 1..t,
           \A i \in 1..Len(lines) : i > r => lines[i].ts \notin 1..t
    PROVE  LastUpTo(lines, t) = r
<1>. DEFINE s == LastUpTo(lines, t)
<1>1. /\ s \in 0..Len(lines) /\ (s # 0 => lines[s].ts \in 1..t)
      /\ \A i \in 1..Len(lines) : i > s => lines[i].ts \notin 1..t
  BY LastUpToFacts
<1>2. Len(lines) \in Nat
  BY LinesFacts
<1>. HIDE DEF s
<1>3. ~ (s > r) /\ ~ (r > s)
  BY <1>1, <1>2
<1>4. s = r
  BY <1>1, <1>2, <1>3
<1>. QED
  BY <1>4 DEF s

LEMMA LastUpToAppend ==
    ASSUME NEW lines \in Seq(Lines), NEW line \in Lines, NEW t \in Nat
    PROVE  LastUpTo(Append(lines, line), t)
              = IF line.ts \in 1..t THEN Len(lines) + 1 ELSE LastUpTo(lines, t)
<1>. DEFINE more == Append(lines, line)
            r    == LastUpTo(lines, t)
<1>1. /\ more \in Seq(Lines) /\ Len(more) = Len(lines) + 1
      /\ \A i \in 1..Len(lines) : more[i] = lines[i]
      /\ more[Len(lines) + 1] = line
  BY AppendProperties
<1>2. Len(lines) \in Nat
  BY LinesFacts
<1>3. /\ r \in 0..Len(lines) /\ (r # 0 => lines[r].ts \in 1..t)
      /\ \A i \in 1..Len(lines) : i > r => lines[i].ts \notin 1..t
  BY LastUpToFacts
<1>. HIDE DEF more, r
<1>4. CASE line.ts \in 1..t
  <2>1. LastUpTo(more, t) = Len(lines) + 1
    <3>1. Len(lines) + 1 \in 0..Len(more)
      BY <1>1, <1>2
    <3>2. more[Len(lines) + 1].ts \in 1..t
      BY <1>1, <1>4
    <3>3. \A i \in 1..Len(more) : ~ (i > Len(lines) + 1)
      BY <1>1, <1>2
    <3>. QED
      BY <1>1, <3>1, <3>2, <3>3, LastUpToIs
  <2>. QED
    BY <1>4, <2>1 DEF more
<1>5. CASE line.ts \notin 1..t
  <2>1. LastUpTo(more, t) = r
    <3>1. r \in 0..Len(more)
      BY <1>1, <1>2, <1>3
    <3>2. r # 0 => more[r].ts \in 1..t
      BY <1>1, <1>2, <1>3
    <3>3. ASSUME NEW i \in 1..Len(more), i > r PROVE more[i].ts \notin 1..t
      <4>1. CASE i = Len(lines) + 1
        BY <1>1, <1>5, <4>1
      <4>2. CASE i \in 1..Len(lines)
        BY <1>1, <1>3, <3>3, <4>2
      <4>. QED
        BY <1>1, <1>2, <4>1, <4>2
    <3>. QED
      BY <1>1, <3>1, <3>2, <3>3, LastUpToIs
  <2>. QED
    BY <1>5, <2>1 DEF more, r
<1>. QED
  BY <1>4, <1>5

-----------------------------------------------------------------------------
(* Rows. *)

LEMMA TypesFacts ==
    ASSUME Types
    PROVE  /\ clock \in Nat \ {0}
           /\ log.lines \in Seq(Lines) /\ log.tail \subseteq Torn
           /\ log.header \in {"absent", "empty", "whole"}
           /\ log = [header |-> log.header, lines |-> log.lines, tail |-> log.tail]
           /\ Len(log.lines) \in Nat /\ Len(polled) \in Nat
           /\ \A i \in 1..Len(log.lines) : log.lines[i] \in Lines /\ log.lines[i].ts \in Nat
           /\ \A i \in 1..Len(polled) : polled[i] \in Lines /\ polled[i].ts \in Nat
           /\ \A x \in torn : x.ts \in Nat
           /\ \A last \in lastLog : last \in Lines /\ last.ts \in Nat
           /\ \A t \in log.tail : t.ts \in Nat \ {0} /\ t.cut \in 0..NChips
<1>1. /\ log.lines \in Seq(Lines) /\ log.tail \subseteq Torn
      /\ log.header \in {"absent", "empty", "whole"}
      /\ log = [header |-> log.header, lines |-> log.lines, tail |-> log.tail]
  BY DEF Types
<1>2. clock \in Nat \ {0} /\ polled \in Seq(Lines)
  BY DEF Types
<1>3. /\ \A x \in torn : x.ts \in Nat
      /\ \A last \in lastLog : last \in Lines /\ last.ts \in Nat
      /\ \A t \in log.tail : t.ts \in Nat \ {0} /\ t.cut \in 0..NChips
  BY <1>1 DEF Types, Lines, Torn
<1>. QED
  BY <1>1, <1>2, <1>3, LinesFacts

LEMMA LogExcept ==
    ASSUME Types
    PROVE  /\ \A h : [log EXCEPT !.header = h]
                        = [header |-> h, lines |-> log.lines, tail |-> log.tail]
           /\ \A t : [log EXCEPT !.tail = t]
                        = [header |-> log.header, lines |-> log.lines, tail |-> t]
           /\ \A l, t : [log EXCEPT !.lines = Append(@, l), !.tail = t]
                  = [header |-> log.header, lines |-> Append(log.lines, l), tail |-> t]
<1>1. PICK a, b, c : a = log.header /\ b = log.lines /\ c = log.tail
  OBVIOUS
<1>2. log = [header |-> a, lines |-> b, tail |-> c]
  BY <1>1, TypesFacts
<1>3. \A h : [log EXCEPT !.header = h] = [header |-> h, lines |-> b, tail |-> c]
  BY <1>2
<1>4. \A t : [log EXCEPT !.tail = t] = [header |-> a, lines |-> b, tail |-> t]
  BY <1>2
<1>5. ASSUME NEW l, NEW t
      PROVE  [log EXCEPT !.lines = Append(@, l), !.tail = t]
                  = [header |-> a, lines |-> Append(b, l), tail |-> t]
  <2>1. [log EXCEPT !.lines = Append(@, l), !.tail = t]
           = [[log EXCEPT !.lines = Append(log.lines, l)] EXCEPT !.tail = t]
    OBVIOUS
  <2>2. PICK m : m = Append(b, l)
    OBVIOUS
  <2>3. Append(log.lines, l) = m
    BY <1>1, <2>2
  <2>4. [log EXCEPT !.lines = m] = [header |-> a, lines |-> m, tail |-> c]
    BY <1>2
  <2>5. [[header |-> a, lines |-> m, tail |-> c] EXCEPT !.tail = t]
           = [header |-> a, lines |-> m, tail |-> t]
    OBVIOUS
  <2>. QED
    BY <2>1, <2>2, <2>3, <2>4, <2>5, Zenon
<1>. QED
  BY <1>1, <1>3, <1>4, <1>5

LEMMA GlueFacts ==
    ASSUME NEW t \in Torn, NEW row \in Lines
    PROVE  /\ Glue(t, row) \in Lines
           /\ Glue(t, row).ts = IF t.cut = 0 THEN 0 ELSE t.ts
<1>1. /\ t.ts \in Nat /\ t.users \in UserRow /\ t.cut \in 0..NChips /\ row.users \in UserRow
  BY DEF Torn, Lines
<1>2. ASSUME NEW c \in Columns
      PROVE  (IF c < t.cut THEN t.users[c]
              ELSE IF c = t.cut THEN Stranger ELSE row.users[c - t.cut]) \in Someone
  <2>1. CASE c < t.cut
    BY <1>1, <2>1 DEF UserRow, Chips
  <2>2. CASE c = t.cut
    BY <1>1, <2>2 DEF Someone
  <2>3. CASE c > t.cut
    <3>1. c - t.cut \in Chips
      BY <1>1, <2>3 DEF Columns, Chips
    <3>2. row.users[c - t.cut] \in Someone
      BY <1>1, <3>1 DEF UserRow
    <3>. QED
      BY <1>1, <2>3, <3>2 DEF Columns
  <2>. QED
    BY <1>1, <2>1, <2>2, <2>3 DEF Columns
<1>. DEFINE users == [c \in Columns |-> IF c < t.cut THEN t.users[c]
                      ELSE IF c = t.cut THEN Stranger ELSE row.users[c - t.cut]]
            ts    == IF t.cut = 0 THEN 0 ELSE t.ts
<1>3. users \in UserRow /\ ts \in Nat
  BY <1>1, <1>2 DEF UserRow, Chips
<1>4. Glue(t, row) = [ts |-> ts, users |-> users]
  BY DEF Glue, Nonsense
<1>. HIDE DEF users, ts
<1>5. Glue(t, row) \in Lines /\ Glue(t, row).ts = ts
  BY <1>3, <1>4 DEF Lines
<1>. QED
  BY <1>5 DEF ts

\* The row of a poll names the user of every chip.
LEMMA RowFacts ==
    ASSUME Types
    PROVE  /\ Row \in Lines /\ Row.ts = clock /\ Row.users = Users(devices)
           /\ Users(devices) \in UserRow
<1>1. ASSUME NEW c \in Chips, devices[c].state = "BUSY" PROVE UserOf[devices[c].pid] \in Someone
  <2>1. devices[c].pid \in Procs
    BY <1>1 DEF Types, Device
  <2>. QED
    BY <2>1 DEF Someone, Range
<1>2. Users(devices) \in UserRow
  BY <1>1 DEF Users, UserRow, Someone
<1>. QED
  BY <1>2, TypesFacts DEF Row, Lines

LEMMA LineOfFacts ==
    ASSUME Types, Past
    PROVE  /\ LineOf(Row) \in Lines
           /\ log.tail = {} => LineOf(Row) = Row
           /\ \A t \in log.tail : LineOf(Row).ts = IF t.cut = 0 THEN 0 ELSE t.ts
<1>1. CASE log.tail = {}
  BY <1>1, RowFacts DEF LineOf
<1>2. ASSUME NEW t \in log.tail
      PROVE  LineOf(Row) \in Lines /\ LineOf(Row).ts = IF t.cut = 0 THEN 0 ELSE t.ts
  <2>1. log.tail = {t} /\ t \in Torn
    BY TypesFacts DEF Past
  <2>2. LineOf(Row) = Glue(t, Row)
    BY <2>1 DEF LineOf
  <2>. QED
    BY <2>1, <2>2, RowFacts, GlueFacts
<1>. QED
  BY <1>1, <1>2

-----------------------------------------------------------------------------
(* The log keeps what it has of a poll. *)

LEMMA RowAtIs ==
    ASSUME NEW t
    PROVE  RowAt(t) = LastUpTo(log.lines, t) /\ RowAt(t)' = LastUpTo(log'.lines, t)
BY DEF RowAt, LastUpTo, SelectLastInSeq

LEMMA KeptSame ==
    ASSUME Types, log'.lines = log.lines, torn \subseteq torn', NEW o \in Lines, Kept(o)
    PROVE  Kept(o)'
<1>1. RowAt(o.ts)' = RowAt(o.ts)
  BY RowAtIs
<1>2. TornBefore(o.ts) => TornBefore(o.ts)'
  BY <1>1 DEF TornBefore
<1>. QED
  BY <1>1, <1>2 DEF Kept

\* A line that comes to be in force at an old poll is the rest of a row torn
\* before that poll.
LEMMA KeptOnAppend ==
    ASSUME Types, NEW line \in Lines, log'.lines = Append(log.lines, line),
           torn \subseteq torn', NEW o \in Lines, Kept(o),
           line.ts \in 1..o.ts => \E x \in torn' : x.ts = line.ts
    PROVE  Kept(o)'
<1>. DEFINE lines == log.lines
            r     == LastUpTo(lines, o.ts)
            s     == LastUpTo(Append(lines, line), o.ts)
<1>1. lines \in Seq(Lines) /\ o.ts \in Nat /\ line.ts \in Nat
  BY TypesFacts DEF Lines
<1>2. RowAt(o.ts) = r /\ RowAt(o.ts)' = s
  BY RowAtIs
<1>3. s = IF line.ts \in 1..o.ts THEN Len(lines) + 1 ELSE r
  BY <1>1, LastUpToAppend
<1>4. /\ \A i \in 1..Len(lines) : log'.lines[i] = lines[i]
      /\ log'.lines[Len(lines) + 1] = line
      /\ Len(lines) \in Nat
  BY <1>1, AppendProperties, LinesFacts
<1>5. r \in 0..Len(lines)
  BY <1>1, LastUpToFacts
<1>. HIDE DEF r, s, lines
<1>6. CASE line.ts \in 1..o.ts
  <2>1. s = Len(lines) + 1
    BY <1>3, <1>6
  <2>2. PICK x \in torn' : x.ts = line.ts
    BY <1>6
  <2>3. x.ts <= o.ts /\ log'.lines[s].ts <= x.ts
    <3>1. log'.lines[s].ts = line.ts
      BY <1>4, <2>1, Zenon
    <3>. QED
      BY <1>1, <1>6, <2>2, <3>1
  <2>4. TornBefore(o.ts)'
    BY <1>2, <2>3 DEF TornBefore
  <2>. QED
    BY <2>4 DEF Kept
<1>7. CASE line.ts \notin 1..o.ts
  <2>1. s = r /\ (r > 0 => log'.lines[r] = lines[r])
    <3>1. s = r
      BY <1>3, <1>7, Zenon
    <3>2. r > 0 => r \in 1..Len(lines)
      BY <1>4, <1>5
    <3>. QED
      BY <1>4, <3>1, <3>2, Zenon
  <2>2. TornBefore(o.ts) => TornBefore(o.ts)'
    <3>1. SUFFICES ASSUME NEW x \in torn, x.ts <= o.ts, r = 0 \/ lines[r].ts <= x.ts
                   PROVE  TornBefore(o.ts)'
      BY <1>2 DEF TornBefore, lines
    <3>2. x \in torn' /\ (s = 0 \/ log'.lines[s].ts <= x.ts)
      <4>1. r = 0 \/ r > 0
        BY <1>4, <1>5
      <4>. QED
        BY <2>1, <3>1, <4>1, Zenon
    <3>. QED
      BY <1>2, <3>1, <3>2 DEF TornBefore
  <2>. QED
    BY <1>2, <2>1, <2>2 DEF Kept, lines
<1>. QED
  BY <1>6, <1>7

\* A poll whose row, or whose torn row, is the last thing in the log.
LEMMA KeptNow ==
    ASSUME NEW lines \in Seq(Lines), NEW o \in Lines, o.ts # 0, log'.lines = lines,
           \A i \in 1..Len(lines) : lines[i].ts <= o.ts,
           \/ /\ lines # <<>> /\ lines[Len(lines)].ts # 0
              /\ lines[Len(lines)].users = o.users
              /\ o.ts - lines[Len(lines)].ts <= MaxLogWait
           \/ \E x \in torn' : /\ x.ts \in Nat /\ x.ts <= o.ts
                               /\ \A i \in 1..Len(lines) : lines[i].ts <= x.ts
    PROVE  Kept(o)'
<1>. DEFINE r == LastUpTo(lines, o.ts)
<1>1. RowAt(o.ts)' = r
  BY RowAtIs
<1>2. /\ Len(lines) \in Nat /\ o.ts \in Nat
      /\ \A i \in 1..Len(lines) : lines[i].ts \in Nat
  BY LinesFacts DEF Lines
<1>3. r \in 0..Len(lines)
  BY <1>2, LastUpToFacts
<1>4. CASE /\ lines # <<>> /\ lines[Len(lines)].ts # 0
           /\ lines[Len(lines)].users = o.users
           /\ o.ts - lines[Len(lines)].ts <= MaxLogWait
  <2>1. Len(lines) \in 1..Len(lines)
    BY <1>2, <1>4, EmptySeq
  <2>2. lines[Len(lines)].ts \in 1..o.ts
    BY <1>2, <1>4, <2>1
  <2>3. r = Len(lines)
    <3>1. Len(lines) \in 0..Len(lines) /\ \A i \in 1..Len(lines) : ~ (i > Len(lines))
      BY <1>2
    <3>. QED
      BY <1>2, <2>2, <3>1, LastUpToIs
  <2>. HIDE DEF r
  <2>4. r > 0
    BY <1>2, <2>1, <2>3
  <2>. QED
    BY <1>1, <1>4, <2>3, <2>4 DEF Kept
<1>. HIDE DEF r
<1>5. ASSUME NEW x \in torn', x.ts <= o.ts, \A i \in 1..Len(lines) : lines[i].ts <= x.ts
      PROVE  TornBefore(o.ts)'
  <2>1. r = 0 \/ log'.lines[r].ts <= x.ts
    BY <1>2, <1>3, <1>5
  <2>. QED
    BY <1>1, <1>5, <2>1 DEF TornBefore
<1>. QED
  BY <1>4, <1>5 DEF Kept

-----------------------------------------------------------------------------
(* The steps. *)

LEMMA InitInv == Init => Inv
<1>. SUFFICES ASSUME Init PROVE Inv
  OBVIOUS
<1>1. /\ clock = 1 /\ pc = "start" /\ devices = Unread /\ lastLog = {}
      /\ tmp = "absent" /\ status = "absent" /\ polled = <<>> /\ torn = {}
      /\ log = [header |-> "absent", lines |-> <<>>, tail |-> {}]
  BY DEF Init
<1>2. log.header = "absent" /\ log.lines = <<>> /\ log.tail = {}
  BY <1>1
<1>3. <<>> \in Seq(Lines) /\ Len(<<>>) = 0
  BY EmptySeq
<1>4. Types
  <2>1. Unread \in [Chips -> Device]
    BY DEF Unread, Device
  <2>2. log \in [header : {"absent", "empty", "whole"}, lines : Seq(Lines), tail : SUBSET Torn]
    BY <1>1, <1>3
  <2>3. polled \in Seq(Lines) /\ lastLog \in SUBSET Lines /\ torn \in SUBSET [ts : Nat, cut : Nat]
    BY <1>1, <1>3
  <2>4. clock \in Nat \ {0} /\ pc \in Phases
    BY <1>1 DEF Phases
  <2>. QED
    BY <1>1, <2>1, <2>2, <2>3, <2>4, Zenon DEF Types
<1>5. Atomic
  BY <1>1, <1>2 DEF Atomic
<1>6. Past
  BY <1>1, <1>2, <1>3 DEF Past
<1>7. Remembered
  BY <1>1 DEF Remembered
<1>8. AllKept
  BY <1>1, <1>3 DEF AllKept
<1>. QED
  BY <1>4, <1>5, <1>6, <1>7, <1>8 DEF Inv

\* A step that adds no line, no torn row and no poll.
LEMMA QuietInv ==
    ASSUME Inv, UNCHANGED <<polled, torn>>, NEW h \in {"absent", "empty", "whole"},
           log' = [header |-> h, lines |-> log.lines, tail |-> log.tail],
           clock' \in Nat, clock <= clock', lastLog' = lastLog \/ lastLog' = {},
           pc' \in Phases, devices' \in [Chips -> Device],
           tmp' \in {"absent", "partial", "whole"}, status' \in {"absent", "partial", "whole"},
           Atomic'
    PROVE  Inv'
<1>1. Types /\ Past /\ Remembered /\ AllKept
  BY DEF Inv
<1>2. /\ clock \in Nat /\ clock # 0 /\ log.lines \in Seq(Lines) /\ log.tail \subseteq Torn
      /\ \A i \in 1..Len(log.lines) : log.lines[i].ts \in Nat
      /\ \A i \in 1..Len(polled) : polled[i] \in Lines /\ polled[i].ts \in Nat
      /\ \A x \in torn : x.ts \in Nat
      /\ \A last \in lastLog : last.ts \in Nat
      /\ \A t \in log.tail : t.ts \in Nat
  BY <1>1, TypesFacts
<1>3. log'.lines = log.lines /\ log'.tail = log.tail
  OBVIOUS
<1>4. Types'
  <2>1. log' \in [header : {"absent", "empty", "whole"}, lines : Seq(Lines), tail : SUBSET Torn]
    BY <1>2
  <2>2. clock' \in Nat \ {0}
    BY <1>2
  <2>. QED
    BY <1>1, <2>1, <2>2, Zenon DEF Types
<1>5. \A n \in Nat : n < clock => n < clock'
  BY <1>2
<1>6. Past'
  BY <1>1, <1>2, <1>3, <1>5 DEF Past
<1>7. Remembered'
  <2>1. CASE lastLog' = {}
    BY <2>1 DEF Remembered
  <2>2. CASE lastLog' = lastLog
    BY <1>1, <1>2, <1>3, <1>5, <2>2 DEF Remembered
  <2>. QED
    BY <2>1, <2>2
<1>8. AllKept'
  <2>1. \A i \in 1..Len(polled) : Kept(polled[i])'
    BY <1>1, <1>2, <1>3, KeptSame DEF AllKept
  <2>. QED
    BY <2>1 DEF AllKept
<1>. QED
  BY <1>4, <1>6, <1>7, <1>8 DEF Inv

\* The log as it is, for the steps that do not touch it.
LEMMA SameLog ==
    ASSUME Inv, log' = log
    PROVE  /\ log.header \in {"absent", "empty", "whole"}
           /\ log' = [header |-> log.header, lines |-> log.lines, tail |-> log.tail]
BY TypesFacts DEF Inv

LEMMA UnreadFacts == Unread \in [Chips -> Device]
BY DEF Unread, Device

LEMMA QuietSteps ==
    ASSUME Inv,
           \/ MakeFile \/ WriteHeader \/ ReadSysfs \/ RunPs \/ OpenTemp \/ Dump \/ Rename
           \/ Fail \/ Crash \/ Restart \/ UNCHANGED vars
    PROVE  Inv'
<1>1. Types /\ Atomic
  BY DEF Inv
<1>2. /\ clock \in Nat /\ pc \in Phases /\ devices \in [Chips -> Device]
      /\ tmp \in {"absent", "partial", "whole"} /\ status \in {"absent", "partial", "whole"}
      /\ log.header \in {"absent", "empty", "whole"}
  BY <1>1, TypesFacts DEF Types
<1>3. clock <= clock
  BY <1>2
<1>4. CASE MakeFile
  <2>1. /\ pc = "start" /\ pc' \in {"header", "sleep"}
        /\ UNCHANGED <<clock, devices, lastLog, tmp, status, polled, torn>>
    BY <1>4 DEF MakeFile, history
  <2>2. \E h \in {"absent", "empty", "whole"} :
           log' = [header |-> h, lines |-> log.lines, tail |-> log.tail]
    <3>1. CASE log.header = "absent"
      <4>1. log' = [log EXCEPT !.header = "empty"]
        BY <1>4, <3>1 DEF MakeFile
      <4>. QED
        BY <1>1, <4>1, LogExcept
    <3>2. CASE log.header # "absent"
      BY <1>4, <3>2, SameLog DEF MakeFile
    <3>. QED
      BY <3>1, <3>2
  <2>3. Atomic'
    BY <1>1, <2>1, <2>2 DEF Atomic
  <2>4. pc' \in Phases
    BY <2>1 DEF Phases
  <2>. QED
    BY <1>2, <1>3, <2>1, <2>2, <2>3, <2>4, QuietInv
<1>5. CASE WriteHeader
  <2>1. /\ pc' = "sleep"
        /\ UNCHANGED <<clock, devices, lastLog, tmp, status, polled, torn>>
    BY <1>5 DEF WriteHeader, history
  <2>2. log' = [header |-> "whole", lines |-> log.lines, tail |-> log.tail]
    BY <1>1, <1>5, LogExcept DEF WriteHeader
  <2>3. Atomic'
    BY <1>1, <2>1, <2>2 DEF Atomic
  <2>4. pc' \in Phases
    BY <2>1 DEF Phases
  <2>. QED
    BY <1>2, <1>3, <2>1, <2>2, <2>3, <2>4, QuietInv
<1>6. ASSUME UNCHANGED <<log, polled, torn>>, clock' \in Nat, clock <= clock',
             lastLog' = lastLog \/ lastLog' = {},
             pc' \in Phases, devices' \in [Chips -> Device],
             tmp' \in {"absent", "partial", "whole"}, status' \in {"absent", "partial", "whole"},
             Atomic'
      PROVE  Inv'
  BY <1>6, SameLog, QuietInv
<1>7. CASE ReadSysfs
  <2>1. pc' = "ps" /\ UNCHANGED <<clock, lastLog, tmp, status, log, polled, torn>>
    BY <1>7 DEF ReadSysfs, disk, history
  <2>2. devices' \in [Chips -> Device]
    <3>1. {[state |-> "FREE"]} \union [state : {"BUSY"}, pid : Procs] \subseteq Device
      BY DEF Device
    <3>2. devices' \in [Chips -> {[state |-> "FREE"]} \union [state : {"BUSY"}, pid : Procs]]
      BY <1>7 DEF ReadSysfs
    <3>. QED
      BY <3>1, <3>2
  <2>3. Atomic' /\ pc' \in Phases
    BY <1>1, <2>1 DEF Atomic, Phases, InTry
  <2>. QED
    BY <1>2, <1>3, <1>6, <2>1, <2>2, <2>3
<1>8. CASE RunPs
  <2>1. pc' = "write" /\ UNCHANGED <<clock, lastLog, tmp, status, log, polled, torn>>
    BY <1>8 DEF RunPs, disk, history
  <2>2. devices' \in [Chips -> Device]
    <3>1. \A d \in Device : d.state = "BUSY" => Exited(d) \in Device
      BY DEF Device, Exited
    <3>2. PICK gone : devices' = [c \in Chips |->
              IF devices[c].state = "BUSY" /\ devices[c].pid \in gone
              THEN Exited(devices[c]) ELSE devices[c]]
      BY <1>8 DEF RunPs
    <3>. QED
      BY <1>2, <3>1, <3>2
  <2>3. Atomic' /\ pc' \in Phases
    BY <1>1, <2>1 DEF Atomic, Phases, InTry
  <2>. QED
    BY <1>2, <1>3, <1>6, <2>1, <2>2, <2>3
<1>9. CASE OpenTemp \/ Dump
  <2>1. /\ pc' \in {"dump", "rename"} /\ tmp' \in {"partial", "whole"}
        /\ (pc' = "rename" => tmp' = "whole")
        /\ UNCHANGED <<clock, devices, lastLog, status, log, polled, torn>>
    BY <1>9 DEF OpenTemp, Dump, history
  <2>2. Atomic' /\ pc' \in Phases
    BY <1>1, <2>1 DEF Atomic, Phases, InTry
  <2>. QED
    BY <1>2, <1>3, <1>6, <2>1, <2>2
<1>10. CASE Rename
  <2>1. /\ pc' = "log" /\ status' = "whole" /\ tmp' = "absent"
        /\ UNCHANGED <<clock, devices, lastLog, log, polled, torn>>
    BY <1>1, <1>10 DEF Rename, history, Atomic
  <2>2. Atomic' /\ pc' \in Phases
    BY <1>1, <2>1 DEF Atomic, Phases, InTry
  <2>. QED
    BY <1>2, <1>3, <1>6, <2>1, <2>2
<1>11. CASE Fail
  <2>1. /\ pc' = "sleep" /\ clock' = clock + 1 /\ devices' = Unread
        /\ UNCHANGED <<lastLog, tmp, status, log, polled, torn>>
    BY <1>11 DEF Fail, Sleep, Forget, disk, history
  <2>2. Atomic' /\ pc' \in Phases
    BY <1>1, <2>1 DEF Atomic, Phases, InTry
  <2>3. clock' \in Nat /\ clock <= clock'
    BY <1>2, <2>1
  <2>. QED
    BY <1>2, <1>6, <2>1, <2>2, <2>3, UnreadFacts
<1>12. CASE Crash
  <2>1. /\ pc' = "down" /\ lastLog' = {} /\ devices' = Unread
        /\ UNCHANGED <<clock, tmp, status, log, polled, torn>>
    BY <1>12 DEF Crash, Forget, disk, history
  <2>2. Atomic' /\ pc' \in Phases
    BY <1>1, <2>1 DEF Atomic, Phases, InTry
  <2>. QED
    BY <1>2, <1>3, <1>6, <2>1, <2>2, UnreadFacts
<1>13. CASE Restart
  <2>1. /\ pc' = "start" /\ clock' \in (clock + 1)..MaxTime
        /\ UNCHANGED <<devices, lastLog, tmp, status, log, polled, torn>>
    BY <1>13 DEF Restart, disk, history
  <2>2. Atomic' /\ pc' \in Phases
    BY <1>1, <2>1 DEF Atomic, Phases, InTry
  <2>3. clock' \in Nat /\ clock <= clock'
    BY <1>2, <2>1
  <2>. QED
    BY <1>2, <1>6, <2>1, <2>2, <2>3
<1>14. CASE UNCHANGED vars
  <2>1. UNCHANGED <<clock, pc, devices, lastLog, tmp, status, log, polled, torn>>
    BY <1>14 DEF vars, memory, disk, history
  <2>2. Atomic'
    BY <1>1, <2>1 DEF Atomic
  <2>. QED
    BY <1>2, <1>3, <1>6, <2>1, <2>2
<1>. QED
  BY <1>4, <1>5, <1>7, <1>8, <1>9, <1>10, <1>11, <1>12, <1>13, <1>14

\* A poll that got as far as its row.
LEMMA PollInv ==
    ASSUME Inv, pc = "log", NEW row \in Lines, row.ts = clock, polled' = Append(polled, row),
           clock' = clock + 1, pc' = "sleep", devices' = Unread, UNCHANGED <<tmp, status>>,
           NEW lines \in Seq(Lines), NEW tail \in SUBSET Torn,
           log' = [header |-> log.header, lines |-> lines, tail |-> tail],
           lastLog' \in SUBSET Lines, torn \subseteq torn',
           torn' \in SUBSET [ts : Nat, cut : Nat],
           \A i \in 1..Len(lines) : lines[i].ts <= clock,
           \A t \in tail : /\ tail = {t} /\ t.ts <= clock /\ (\E x \in torn' : x.ts = t.ts)
                           /\ \A i \in 1..Len(lines) : lines[i].ts <= t.ts,
           Remembered',
           \A o \in Lines : o.ts < clock /\ Kept(o) => Kept(o)',
           Kept(row)'
    PROVE  Inv'
<1>1. Types /\ Atomic /\ Past /\ AllKept
  BY DEF Inv
<1>2. /\ clock \in Nat /\ log.header \in {"absent", "empty", "whole"}
      /\ Len(polled) \in Nat
      /\ \A i \in 1..Len(polled) : polled[i] \in Lines
      /\ polled \in Seq(Lines)
  BY <1>1, TypesFacts DEF Types
<1>3. /\ polled' \in Seq(Lines) /\ Len(polled') = Len(polled) + 1
      /\ \A i \in 1..Len(polled) : polled'[i] = polled[i]
      /\ polled'[Len(polled) + 1] = row
  BY <1>2, AppendProperties
<1>4. /\ Len(lines) \in Nat /\ \A i \in 1..Len(lines) : lines[i].ts \in Nat
      /\ \A t \in tail : t.ts \in Nat
  BY LinesFacts DEF Torn
<1>5. log'.lines = lines /\ log'.tail = tail
  OBVIOUS
<1>6. Types'
  <2>1. log' \in [header : {"absent", "empty", "whole"}, lines : Seq(Lines), tail : SUBSET Torn]
    BY <1>2
  <2>2. clock' \in Nat \ {0} /\ pc' \in Phases
    BY <1>2 DEF Phases
  <2>. QED
    BY <1>1, <1>3, <2>1, <2>2, UnreadFacts, Zenon DEF Types
<1>7. Atomic'
  BY <1>1, <1>5 DEF Atomic
<1>8. Past'
  <2>1. \A n \in Nat : n <= clock => n < clock'
    BY <1>2
  <2>2. \A i \in 1..Len(polled') : polled'[i].ts < clock'
    <3>1. \A i \in 1..Len(polled) : polled[i].ts \in Nat /\ polled[i].ts <= clock
      BY <1>1, TypesFacts DEF Past
    <3>2. \A i \in 1..Len(polled') : i \in 1..Len(polled) \/ i = Len(polled) + 1
      BY <1>2, <1>3
    <3>3. row.ts < clock'
      BY <1>2
    <3>. QED
      BY <1>3, <2>1, <3>1, <3>2, <3>3
  <2>. QED
    BY <1>4, <1>5, <2>1, <2>2 DEF Past
<1>9. AllKept'
  <2>1. \A i \in 1..Len(polled) : Kept(polled[i])'
    <3>1. \A i \in 1..Len(polled) : polled[i].ts < clock /\ Kept(polled[i])
      BY <1>1 DEF Past, AllKept
    <3>2. \A i \in 1..Len(polled) : polled'[i] = polled[i]
      BY <1>3
    <3>. QED
      BY <1>2, <3>1, <3>2
  <2>2. \A i \in 1..Len(polled') : i \in 1..Len(polled) \/ i = Len(polled) + 1
    BY <1>2, <1>3
  <2>. QED
    BY <1>3, <2>1, <2>2 DEF AllKept
<1>. QED
  BY <1>6, <1>7, <1>8, <1>9 DEF Inv

LEMMA AppendRowInv == ASSUME Inv, AppendRow PROVE Inv'
<1>1. PICK row, line : row = Row /\ line = LineOf(Row)
  OBVIOUS
<1>2. Types /\ Past /\ AllKept
  BY DEF Inv
<1>3. /\ row \in Lines /\ row.ts = clock /\ line \in Lines
      /\ log.tail = {} => line = row
      /\ \A t \in log.tail : line.ts = IF t.cut = 0 THEN 0 ELSE t.ts
  BY <1>1, <1>2, RowFacts, LineOfFacts
<1>4. /\ pc = "log" /\ pc' = "sleep" /\ clock' = clock + 1 /\ devices' = Unread
      /\ lastLog' = {row} /\ polled' = Append(polled, row)
      /\ UNCHANGED <<tmp, status, torn>>
  BY <1>1 DEF AppendRow, Sleep, Forget
<1>5. log' = [header |-> log.header, lines |-> Append(log.lines, line), tail |-> {}]
  BY <1>1, <1>2, LogExcept DEF AppendRow
<1>6. /\ clock \in Nat /\ clock # 0 /\ log.lines \in Seq(Lines) /\ Len(log.lines) \in Nat
      /\ \A i \in 1..Len(log.lines) : log.lines[i].ts \in Nat
      /\ \A t \in log.tail : t.ts \in Nat
      /\ torn \in SUBSET [ts : Nat, cut : Nat]
      /\ \A x \in torn : x.ts \in Nat
  BY <1>2, TypesFacts DEF Types
<1>7. PICK lines \in Seq(Lines) :
         /\ lines = Append(log.lines, line) /\ Len(lines) = Len(log.lines) + 1
         /\ \A i \in 1..Len(log.lines) : lines[i] = log.lines[i]
         /\ lines[Len(lines)] = line /\ lines # <<>>
  <2>1. log.lines \in Seq(Lines) /\ line \in Lines
    BY <1>3, <1>6
  <2>2. PICK old : old = log.lines
    OBVIOUS
  <2>3. old \in Seq(Lines)
    BY <2>1, <2>2, Zenon
  <2>4. /\ Append(old, line) \in Seq(Lines) /\ Append(old, line) # <<>>
        /\ Len(Append(old, line)) = Len(old) + 1
        /\ \A i \in 1..Len(old) : Append(old, line)[i] = old[i]
        /\ Append(old, line)[Len(old) + 1] = line
    BY <2>1, <2>3, AppendProperties
  <2>5. /\ Append(old, line)[Len(Append(old, line))] = line
    BY <2>4, Zenon
  <2>. QED
    BY <2>2, <2>4, <2>5, Zenon
<1>8. \A i \in 1..Len(lines) : i \in 1..Len(log.lines) \/ lines[i] = line
  BY <1>6, <1>7
<1>9. line.ts \in Nat
  BY <1>3 DEF Lines
\* Behind a torn row the line keeps its time or has none.
<1>10. \/ line = row
       \/ \E x \in torn : /\ x.ts < clock /\ (line.ts # 0 => line.ts = x.ts)
                          /\ \A i \in 1..Len(lines) : lines[i].ts <= x.ts
  <2>1. CASE log.tail = {}
    BY <1>3, <2>1
  <2>2. ASSUME NEW t \in log.tail
        PROVE  \E x \in torn : /\ x.ts < clock /\ (line.ts # 0 => line.ts = x.ts)
                               /\ \A i \in 1..Len(lines) : lines[i].ts <= x.ts
    <3>1. t.ts < clock /\ \A i \in 1..Len(log.lines) : log.lines[i].ts <= t.ts
      BY <1>2 DEF Past
    <3>2. PICK x \in torn : x.ts = t.ts
      BY <1>2 DEF Past
    <3>3. line.ts = 0 \/ line.ts = x.ts
      BY <1>3, <3>2
    <3>4. line.ts <= x.ts
      BY <1>6, <3>3
    <3>. QED
      BY <1>7, <1>8, <3>1, <3>2, <3>3, <3>4
  <2>. QED
    BY <2>1, <2>2
<1>11. \A i \in 1..Len(lines) : lines[i].ts <= clock
  <2>1. line.ts <= clock
    <3>1. CASE line = row
      BY <1>3, <1>6, <3>1
    <3>2. CASE line.ts # 0 /\ \E x \in torn : x.ts < clock /\ line.ts = x.ts
      BY <1>6, <3>2
    <3>3. CASE line.ts = 0
      BY <1>6, <3>3
    <3>. QED
      BY <1>10, <3>1, <3>2, <3>3
  <2>2. \A i \in 1..Len(log.lines) : log.lines[i].ts <= clock
    BY <1>2, <1>6 DEF Past
  <2>. QED
    BY <1>7, <1>8, <2>1, <2>2
<1>12. Remembered'
  <2>1. row.ts # 0 /\ row.ts < clock'
    BY <1>3, <1>4, <1>6
  <2>2. log'.lines = lines /\ torn' = torn
    BY <1>4, <1>5, <1>7
  <2>3. CASE line = row
    BY <1>4, <1>7, <2>1, <2>2, <2>3 DEF Remembered
  <2>4. CASE \E x \in torn : /\ x.ts < clock
                             /\ \A i \in 1..Len(lines) : lines[i].ts <= x.ts
    <3>1. \A x \in torn : x.ts < clock => x.ts < clock'
      BY <1>4, <1>6
    <3>. QED
      BY <1>4, <2>1, <2>2, <2>4, <3>1 DEF Remembered
  <2>. QED
    BY <1>10, <2>3, <2>4
<1>13. ASSUME NEW o \in Lines, o.ts < clock, Kept(o) PROVE Kept(o)'
  <2>1. o.ts \in Nat
    BY DEF Lines
  <2>2. line.ts \in 1..o.ts => \E x \in torn' : x.ts = line.ts
    <3>1. ASSUME line.ts \in 1..o.ts PROVE line # row /\ line.ts # 0
      BY <1>3, <1>6, <1>13, <2>1, <3>1
    <3>. QED
      BY <1>4, <1>10, <3>1
  <2>3. log'.lines = Append(log.lines, line) /\ torn \subseteq torn'
    BY <1>4, <1>5
  <2>. QED
    BY <1>2, <1>3, <1>13, <2>2, <2>3, KeptOnAppend
<1>14. Kept(row)'
  <2>1. \A i \in 1..Len(lines) : lines[i].ts <= row.ts
    BY <1>3, <1>11
  <2>2. row.ts # 0 /\ log'.lines = lines /\ torn' = torn
    BY <1>3, <1>4, <1>5, <1>6, <1>7
  <2>3. CASE line = row
    <3>1. row.ts - row.ts <= MaxLogWait
      BY <1>3, <1>6
    <3>2. /\ lines # <<>> /\ lines[Len(lines)].ts # 0
          /\ lines[Len(lines)].users = row.users
          /\ row.ts - lines[Len(lines)].ts <= MaxLogWait
      BY <1>7, <2>2, <2>3, <3>1, Zenon
    <3>. QED
      BY <1>3, <2>1, <2>2, <3>2, KeptNow
  <2>4. CASE \E x \in torn : /\ x.ts < clock
                             /\ \A i \in 1..Len(lines) : lines[i].ts <= x.ts
    <3>1. \E x \in torn' : /\ x.ts \in Nat /\ x.ts <= row.ts
                           /\ \A i \in 1..Len(lines) : lines[i].ts <= x.ts
      BY <1>3, <1>6, <2>2, <2>4
    <3>. QED
      BY <1>3, <2>1, <2>2, <3>1, KeptNow
  <2>. QED
    BY <1>10, <2>3, <2>4
<1>. DEFINE tail == {}
<1>15. /\ tail \in SUBSET Torn /\ lastLog' \in SUBSET Lines
       /\ log' = [header |-> log.header, lines |-> lines, tail |-> tail]
       /\ \A t \in tail : /\ tail = {t} /\ t.ts <= clock /\ (\E x \in torn' : x.ts = t.ts)
                          /\ \A i \in 1..Len(lines) : lines[i].ts <= t.ts
  BY <1>3, <1>4, <1>5, <1>7
<1>16. torn \subseteq torn' /\ torn' \in SUBSET [ts : Nat, cut : Nat]
  BY <1>4, <1>6
<1>. HIDE DEF tail
<1>. QED
  BY <1>3, <1>4, <1>11, <1>12, <1>13, <1>14, <1>15, <1>16, PollInv

LEMMA TearRowInv == ASSUME Inv, NEW k \in 0..NChips, TearRow(k) PROVE Inv'
<1>. DEFINE new == [ts |-> clock, users |-> Users(devices), cut |-> k]
            x   == [ts |-> clock, cut |-> k]
<1>1. PICK row, t, y : row = Row /\ t = new /\ y = x
  OBVIOUS
<1>2. Types /\ Past /\ Remembered
  BY DEF Inv
<1>3. /\ clock \in Nat /\ clock # 0 /\ log.lines \in Seq(Lines) /\ Len(log.lines) \in Nat
      /\ \A i \in 1..Len(log.lines) : log.lines[i].ts \in Nat
      /\ torn \in SUBSET [ts : Nat, cut : Nat]
      /\ \A last \in lastLog : last.ts \in Nat
      /\ \A z \in torn : z.ts \in Nat
      /\ lastLog \in SUBSET Lines
  BY <1>2, TypesFacts DEF Types
<1>4. /\ row \in Lines /\ row.ts = clock
      /\ t \in Torn /\ t.ts = clock
      /\ y \in [ts : Nat, cut : Nat] /\ y.ts = clock
  BY <1>1, <1>2, <1>3, RowFacts DEF Torn
<1>. HIDE DEF new, x
<1>5. /\ pc = "log" /\ pc' = "sleep" /\ clock' = clock + 1 /\ devices' = Unread
      /\ polled' = Append(polled, row) /\ torn' = torn \union {y}
      /\ UNCHANGED <<tmp, status, lastLog>>
  BY <1>1 DEF TearRow, Sleep, Forget, x
<1>6. log' = [header |-> log.header, lines |-> log.lines, tail |-> {t}]
  BY <1>1, <1>2, LogExcept DEF TearRow, new
<1>7. log'.lines = log.lines
  BY <1>6
<1>8. \A i \in 1..Len(log.lines) : log.lines[i].ts <= clock
  BY <1>2, <1>3 DEF Past
<1>9. torn \subseteq torn' /\ y \in torn' /\ torn' \in SUBSET [ts : Nat, cut : Nat]
  BY <1>3, <1>4, <1>5
<1>10. Remembered'
  <2>1. \A n \in Nat : n < clock => n < clock'
    BY <1>3, <1>5
  <2>. QED
    BY <1>2, <1>3, <1>5, <1>7, <1>9, <2>1 DEF Remembered
<1>11. \A o \in Lines : o.ts < clock /\ Kept(o) => Kept(o)'
  BY <1>2, <1>7, <1>9, KeptSame
<1>12. Kept(row)'
  <2>1. y.ts \in Nat /\ y.ts <= row.ts /\ row.ts # 0
    BY <1>3, <1>4
  <2>2. \A i \in 1..Len(log.lines) : log.lines[i].ts <= row.ts /\ log.lines[i].ts <= y.ts
    BY <1>4, <1>8
  <2>. QED
    BY <1>3, <1>4, <1>7, <1>9, <2>1, <2>2, KeptNow
<1>. DEFINE tail == {t}
<1>13. /\ tail \in SUBSET Torn
       /\ \A s \in tail : /\ tail = {s} /\ s.ts <= clock /\ (\E z \in torn' : z.ts = s.ts)
                          /\ \A i \in 1..Len(log.lines) : log.lines[i].ts <= s.ts
  BY <1>3, <1>4, <1>8, <1>9
<1>14. log' = [header |-> log.header, lines |-> log.lines, tail |-> tail]
  BY <1>6
<1>15. lastLog' \in SUBSET Lines
  BY <1>3, <1>5
<1>. HIDE DEF tail
<1>. QED
  BY <1>3, <1>4, <1>5, <1>8, <1>9, <1>10, <1>11, <1>12, <1>13, <1>14, <1>15, PollInv

LEMMA SkipRowInv == ASSUME Inv, SkipRow PROVE Inv'
<1>1. PICK row : row = Row
  OBVIOUS
<1>2. Types /\ Past /\ Remembered
  BY DEF Inv
<1>3. /\ clock \in Nat /\ clock # 0 /\ log.lines \in Seq(Lines) /\ Len(log.lines) \in Nat
      /\ log.tail \in SUBSET Torn
      /\ \A i \in 1..Len(log.lines) : log.lines[i].ts \in Nat
      /\ torn \in SUBSET [ts : Nat, cut : Nat]
      /\ \A last \in lastLog : last.ts \in Nat
      /\ \A z \in torn : z.ts \in Nat
      /\ lastLog \in SUBSET Lines
  BY <1>2, TypesFacts DEF Types
<1>4. row \in Lines /\ row.ts = clock /\ row.users = Users(devices)
  BY <1>1, <1>2, RowFacts
<1>5. /\ pc = "log" /\ pc' = "sleep" /\ clock' = clock + 1 /\ devices' = Unread
      /\ polled' = Append(polled, row) /\ UNCHANGED <<tmp, status, lastLog, log, torn>>
  BY <1>1 DEF SkipRow, Sleep, Forget, disk
<1>6. log' = [header |-> log.header, lines |-> log.lines, tail |-> log.tail]
  BY <1>5, SameLog
<1>7. \A i \in 1..Len(log.lines) : log.lines[i].ts <= clock
  BY <1>2, <1>3 DEF Past
<1>8. Remembered'
  <2>1. \A n \in Nat : n < clock => n < clock'
    BY <1>3, <1>5
  <2>. QED
    BY <1>2, <1>3, <1>5, <2>1 DEF Remembered
<1>9. \A o \in Lines : o.ts < clock /\ Kept(o) => Kept(o)'
  BY <1>2, <1>5, KeptSame
<1>10. Kept(row)'
  <2>1. PICK last \in lastLog : last.users = Users(devices) /\ ~ (clock - last.ts > MaxLogWait)
    BY DEF SkipRow, LogDue
  <2>2. \A i \in 1..Len(log.lines) : log.lines[i].ts <= row.ts
    BY <1>4, <1>7
  <2>3. row.ts # 0
    BY <1>3, <1>4
  <2>4. CASE log.lines # <<>> /\ log.lines[Len(log.lines)] = last
    <3>1. last.ts # 0 /\ row.ts - last.ts <= MaxLogWait /\ last.users = row.users
      BY <1>2, <1>3, <1>4, <2>1 DEF Remembered
    <3>2. /\ log.lines # <<>> /\ log.lines[Len(log.lines)].ts # 0
          /\ log.lines[Len(log.lines)].users = row.users
          /\ row.ts - log.lines[Len(log.lines)].ts <= MaxLogWait
      BY <2>4, <3>1, Zenon
    <3>. QED
      BY <1>3, <1>4, <1>5, <2>2, <2>3, <3>2, KeptNow
  <2>5. CASE \E x \in torn : /\ x.ts < clock
                             /\ \A i \in 1..Len(log.lines) : log.lines[i].ts <= x.ts
    <3>1. \E x \in torn' : /\ x.ts \in Nat /\ x.ts <= row.ts
                           /\ \A i \in 1..Len(log.lines) : log.lines[i].ts <= x.ts
      BY <1>3, <1>4, <1>5, <2>5
    <3>. QED
      BY <1>3, <1>4, <1>5, <2>2, <2>3, <3>1, KeptNow
  <2>. QED
    BY <1>2, <2>4, <2>5 DEF Remembered
<1>11. \A t \in log.tail : /\ log.tail = {t} /\ t.ts <= clock /\ (\E x \in torn' : x.ts = t.ts)
                           /\ \A i \in 1..Len(log.lines) : log.lines[i].ts <= t.ts
  <2>1. \A t \in log.tail : t.ts \in Nat
    BY <1>2, TypesFacts
  <2>. QED
    BY <1>2, <1>3, <1>5, <2>1 DEF Past
<1>12. lastLog' \in SUBSET Lines /\ torn \subseteq torn' /\ torn' \in SUBSET [ts : Nat, cut : Nat]
  BY <1>3, <1>5
<1>13. pc = "log" /\ pc' = "sleep" /\ clock' = clock + 1 /\ devices' = Unread
       /\ polled' = Append(polled, row) /\ UNCHANGED <<tmp, status>>
  BY <1>5
<1>. QED
  BY <1>3, <1>4, <1>6, <1>7, <1>8, <1>9, <1>10, <1>11, <1>12, <1>13, PollInv

THEOREM InvInductive == Inv /\ [Next]_vars => Inv'
BY QuietSteps, AppendRowInv, TearRowInv, SkipRowInv DEF Next

THEOREM InvCorrect == Spec => []Inv
BY InitInv, InvInductive, PTL DEF Spec

-----------------------------------------------------------------------------
(* What follows from it. *)

\* Type correctness; there is a status.json before there is a row.
THEOREM TypeCorrect == Spec => []TypeOK
<1>1. Inv => TypeOK
  <2>1. Types => /\ pc \in InTry \union {"start", "header", "sleep", "down"}
                 /\ \A c \in Chips : devices[c] \in Device
                 /\ {tmp, status} \subseteq {"absent", "partial", "whole"}
    BY DEF Types, Phases
  <2>. QED
    BY <2>1 DEF Inv, Atomic, TypeOK
<1>. QED
  BY <1>1, InvCorrect, PTL

\* The temporary file and the rename: no reader finds half a status.json.
THEOREM StatusWholeCorrect == Spec => []StatusWhole
<1>1. Inv => StatusWhole
  BY DEF Inv, Atomic, StatusWhole
<1>. QED
  BY <1>1, InvCorrect, PTL

\* Writing on change loses nothing of what the polls saw.
THEOREM LogFaithfulCorrect == Spec => []LogFaithful
<1>1. ASSUME Inv PROVE LogFaithful
  <2>1. DOMAIN polled = 1..Len(polled)
    BY <1>1, LinesFacts DEF Inv, Types
  <2>. QED
    BY <1>1, <2>1 DEF Inv, AllKept, Kept, LogFaithful
<1>. QED
  BY <1>1, InvCorrect, PTL

\* MAX_LOG_WAIT bounds the age of the row in force at every poll.
THEOREM LogNeverSilentCorrect == Spec => []LogNeverSilent
<1>1. ASSUME Inv PROVE LogNeverSilent
  <2>1. DOMAIN polled = 1..Len(polled)
    BY <1>1, LinesFacts DEF Inv, Types
  <2>. QED
    BY <1>1, <2>1 DEF Inv, AllKept, Kept, LogNeverSilent
<1>. QED
  BY <1>1, InvCorrect, PTL

-----------------------------------------------------------------------------
(* From here on: what the tools make of the log. *)

-----------------------------------------------------------------------------
(* Sums. *)

\* A list of n integers, as the provers need to be told.
LEMMA Summands ==
    ASSUME NEW n \in Nat, NEW d \in [1..n -> Int]
    PROVE  d \in Seq(Int) /\ Len(d) = n /\ \A i \in 1..n : d[i] \in Int
OBVIOUS

\* The sums of the first 0, 1, ..., n summands.
Sums(n, d) ==
    {g \in [0..n -> Int] : g[0] = 0 /\ \A i \in 1..n : g[i] = g[i - 1] + d[i]}

\* Every list of integers has its partial sums: else there were a shortest prefix
\* without them.
LEMMA SumsExist ==
    ASSUME NEW n \in Nat, NEW d \in [1..n -> Int]
    PROVE  Sums(n, d) # {}
<1>. DEFINE T == {m \in 0..n : Sums(m, d) = {}}
<1>1. SUFFICES ASSUME T # {} PROVE FALSE
  OBVIOUS
<1>2. PICK m \in T : \A k \in T : m <= k
  <2>1. T \in SUBSET Nat
    OBVIOUS
  <2>. HIDE DEF T
  <2>. QED
    BY <1>1, <2>1, LeastNat
<1>3. m \in 0..n /\ Sums(m, d) = {}
  OBVIOUS
<1>4. CASE m = 0
  <2>. DEFINE g == [i \in 0..0 |-> 0]
  <2>1. g \in [0..0 -> Int] /\ g[0] = 0 /\ 1..0 = {}
    OBVIOUS
  <2>. HIDE DEF g
  <2>2. g \in Sums(0, d)
    BY <2>1 DEF Sums
  <2>. QED
    BY <1>3, <1>4, <2>2
<1>5. CASE m # 0
  <2>1. m - 1 \in 0..n /\ m \in 1..n /\ ~ (m <= m - 1)
    BY <1>3, <1>5
  <2>2. Sums(m - 1, d) # {}
    BY <1>2, <2>1
  <2>3. PICK f : f \in Sums(m - 1, d)
    BY <2>2
  <2>4. /\ f \in [0..(m - 1) -> Int] /\ f[0] = 0
        /\ \A i \in 1..(m - 1) : f[i] = f[i - 1] + d[i]
    BY <2>3 DEF Sums
  <2>5. f[m - 1] \in Int /\ d[m] \in Int
    BY <2>1, <2>4
  <2>. DEFINE g == [i \in 0..m |-> IF i = m THEN f[m - 1] + d[m] ELSE f[i]]
  <2>6. g \in [0..m -> Int] /\ g[0] = 0
    BY <1>5, <2>1, <2>4, <2>5
  <2>7. ASSUME NEW i \in 1..m PROVE g[i] = g[i - 1] + d[i]
    <3>1. CASE i = m
      BY <2>1, <3>1
    <3>2. CASE i # m
      <4>1. i \in 1..(m - 1) /\ i \in 0..m /\ i - 1 \in 0..m /\ i - 1 # m
        BY <2>1, <3>2
      <4>. QED
        BY <2>4, <3>2, <4>1
    <3>. QED
      BY <3>1, <3>2
  <2>. HIDE DEF g
  <2>8. g \in Sums(m, d)
    BY <2>6, <2>7 DEF Sums
  <2>. QED
    BY <1>3, <2>8
<1>. QED
  BY <1>4, <1>5

\* What Total's recursion says of g.
Summing(g, n, d) == \A i \in 0..n : g[i] = IF i = 0 THEN 0 ELSE g[i - 1] + d[i]

\* And only one sequence of them.
LEMMA SumsUnique ==
    ASSUME NEW n \in Nat, NEW d \in [1..n -> Int], NEW f \in Sums(n, d), NEW g,
           Summing(g, n, d)
    PROVE  g[n] = f[n]
<1>. DEFINE T == {m \in 0..n : g[m] # f[m]}
<1>1. SUFFICES ASSUME T # {} PROVE FALSE
  OBVIOUS
<1>2. PICK m \in T : \A k \in T : m <= k
  <2>1. T \in SUBSET Nat
    OBVIOUS
  <2>. HIDE DEF T
  <2>. QED
    BY <1>1, <2>1, LeastNat
<1>3. f[0] = 0 /\ \A i \in 1..n : f[i] = f[i - 1] + d[i]
  BY DEF Sums
<1>4. g[0] = 0 /\ \A i \in 1..n : g[i] = g[i - 1] + d[i]
  BY DEF Summing
<1>5. m # 0
  BY <1>3, <1>4
<1>6. m \in 1..n /\ m - 1 \in 0..n /\ ~ (m <= m - 1)
  BY <1>5
<1>7. g[m - 1] = f[m - 1]
  BY <1>2, <1>6
<1>. QED
  BY <1>2, <1>3, <1>4, <1>6, <1>7

\* Total is the last of any partial sums.
LEMMA TotalIs ==
    ASSUME NEW n \in Nat, NEW d \in [1..n -> Int], NEW f \in Sums(n, d)
    PROVE  Total(d) = f[n] /\ Total(d) \in Int
<1>. DEFINE Step(g, i) == IF i = 0 THEN 0 ELSE g[i - 1] + d[i]
            sum == CHOOSE g : g = [i \in 0..n |-> Step(g, i)]
<1>1. Len(d) = n
  BY Summands
<1>2. Total(d) = sum[n]
  BY <1>1 DEF Total
<1>3. f \in [0..n -> Int] /\ f[0] = 0 /\ \A i \in 1..n : f[i] = f[i - 1] + d[i]
  BY DEF Sums
<1>4. \A i \in 0..n : f[i] = Step(f, i)
  <2>1. \A i \in 0..n : i # 0 => i \in 1..n
    OBVIOUS
  <2>. QED
    BY <1>3, <2>1
<1>5. sum = [i \in 0..n |-> Step(sum, i)]
  <2>1. f = [i \in 0..n |-> Step(f, i)]
    <3>. HIDE DEF Step
    <3>. QED
      BY <1>3, <1>4
  <2>. HIDE DEF Step
  <2>. QED
    BY <2>1
<1>. HIDE DEF sum
<1>6. \A i \in 0..n : sum[i] = Step(sum, i)
  <2>. HIDE DEF Step
  <2>. QED
    BY <1>5
<1>7. sum[n] = f[n]
  <2>1. Summing(sum, n, d)
    BY <1>6 DEF Summing
  <2>. QED
    BY <2>1, SumsUnique, Zenon
<1>. QED
  BY <1>2, <1>3, <1>7

\* What Total returns: an integer; 0 of the empty list; at least 0 if no summand
\* is negative.
LEMMA TotalFacts ==
    ASSUME NEW n \in Nat, NEW d \in [1..n -> Int]
    PROVE  /\ Total(d) \in Int
           /\ n = 0 => Total(d) = 0
           /\ (\A i \in 1..n : d[i] >= 0) => Total(d) >= 0
<1>1. PICK f : f \in Sums(n, d)
  BY SumsExist
<1>2. Total(d) = f[n] /\ Total(d) \in Int
  BY <1>1, TotalIs
<1>3. f \in [0..n -> Int] /\ f[0] = 0 /\ \A i \in 1..n : f[i] = f[i - 1] + d[i]
  BY <1>1 DEF Sums
<1>4. ASSUME \A i \in 1..n : d[i] >= 0 PROVE f[n] >= 0
  <2>. DEFINE T == {m \in 0..n : ~ (f[m] >= 0)}
  <2>1. SUFFICES ASSUME T # {} PROVE FALSE
    OBVIOUS
  <2>2. PICK m \in T : \A k \in T : m <= k
    <3>1. T \in SUBSET Nat
      OBVIOUS
    <3>. HIDE DEF T
    <3>. QED
      BY <2>1, <3>1, LeastNat
  <2>3. m # 0
    BY <1>3
  <2>4. m \in 1..n /\ m - 1 \in 0..n /\ ~ (m <= m - 1)
    BY <2>3
  <2>5. f[m - 1] >= 0 /\ f[m - 1] \in Int /\ d[m] \in Int /\ d[m] >= 0
    BY <1>3, <1>4, <2>2, <2>4
  <2>6. f[m] = f[m - 1] + d[m]
    BY <1>3, <2>4
  <2>. QED
    BY <2>2, <2>5, <2>6
<1>. QED
  BY <1>2, <1>3, <1>4

\* One more summand.
LEMMA TotalMore ==
    ASSUME NEW n \in Nat, NEW d \in [1..n -> Int], NEW e \in [1..(n + 1) -> Int],
           \A i \in 1..n : e[i] = d[i]
    PROVE  Total(e) = Total(d) + e[n + 1]
<1>1. PICK f : f \in Sums(n, d)
  BY SumsExist
<1>2. Total(d) = f[n]
  BY <1>1, TotalIs
<1>3. f \in [0..n -> Int] /\ f[0] = 0 /\ \A i \in 1..n : f[i] = f[i - 1] + d[i]
  BY <1>1 DEF Sums
<1>. DEFINE g == [i \in 0..(n + 1) |-> IF i = n + 1 THEN f[n] + e[n + 1] ELSE f[i]]
<1>4. g \in [0..(n + 1) -> Int] /\ g[0] = 0
  <2>1. f[n] \in Int /\ e[n + 1] \in Int /\ \A i \in 0..(n + 1) : i # n + 1 => f[i] \in Int
    BY <1>3
  <2>. QED
    BY <1>3, <2>1
<1>5. ASSUME NEW i \in 1..(n + 1) PROVE g[i] = g[i - 1] + e[i]
  <2>1. CASE i = n + 1
    BY <2>1
  <2>2. CASE i # n + 1
    <3>1. i \in 1..n /\ i \in 0..(n + 1) /\ i - 1 \in 0..(n + 1) /\ i - 1 # n + 1
      BY <2>2
    <3>. QED
      BY <1>3, <2>2, <3>1
  <2>. QED
    BY <2>1, <2>2
<1>6. g[n + 1] = f[n] + e[n + 1]
  OBVIOUS
<1>. HIDE DEF g
<1>7. g \in Sums(n + 1, e)
  BY <1>4, <1>5 DEF Sums
<1>. QED
  BY <1>2, <1>6, <1>7, TotalIs

-----------------------------------------------------------------------------
(* Charges: a weight of the row an interval starts with, times the time.   *)

Charge(rows, W) == Total([i \in Intervals(rows) |-> Delta(rows, i) * W[rows[i]]])

\* The row rows end with.
Latest(rows) == rows[Len(rows)]

\* The intervals of a log, and what one more row adds to them.
LEMMA IntervalsFacts ==
    ASSUME NEW rows \in Seq(Lines)
    PROVE  /\ Len(rows) \in Nat /\ (rows # <<>> <=> Len(rows) # 0)
           /\ rows # <<>> => Len(rows) - 1 \in Nat /\ Intervals(rows) = 1..(Len(rows) - 1)
           /\ Len(rows) \in {0, 1} => Intervals(rows) = 1..0
           /\ \A i \in 1..Len(rows) : rows[i] \in Lines /\ rows[i].ts \in Nat
           /\ rows # <<>> => Latest(rows) \in Lines /\ Latest(rows).ts \in Nat
<1>1. /\ Len(rows) \in Nat /\ DOMAIN rows = 1..Len(rows)
      /\ \A i \in 1..Len(rows) : rows[i] \in Lines /\ rows[i].ts \in Nat
  BY LinesFacts
<1>2. rows # <<>> <=> Len(rows) # 0
  <2>1. <<>> \in Seq(Lines) /\ Len(<<>>) = 0
    BY EmptySeq
  <2>2. ASSUME Len(rows) = 0 PROVE rows = <<>>
    <3>1. Len(rows) = Len(<<>>) /\ \A i \in 1..Len(rows) : rows[i] = <<>>[i]
      BY <2>1, <2>2
    <3>. QED
      BY <2>1, <3>1, SeqEqual
  <2>. QED
    BY <2>1, <2>2
<1>3. \A n \in Nat : n # 0 =>
         n - 1 \in Nat /\ {i \in 1..n : i + 1 \in 1..n} = 1..(n - 1) /\ n \in 1..n
  OBVIOUS
<1>4. \A n \in {0, 1} : {i \in 1..n : i + 1 \in 1..n} = 1..0
  OBVIOUS
<1>5. Intervals(rows) = {i \in 1..Len(rows) : i + 1 \in 1..Len(rows)}
  BY <1>1 DEF Intervals
<1>6. Len(rows) \in {0, 1} => Intervals(rows) = 1..0
  <2>. SUFFICES ASSUME Len(rows) \in {0, 1} PROVE Intervals(rows) = 1..0
    OBVIOUS
  <2>1. PICK n \in {0, 1} : n = Len(rows)
    OBVIOUS
  <2>2. {i \in 1..n : i + 1 \in 1..n} = 1..0
    BY <1>4
  <2>. QED
    BY <1>5, <2>1, <2>2, Zenon
<1>7. rows # <<>> => Len(rows) - 1 \in Nat /\ Intervals(rows) = 1..(Len(rows) - 1)
  BY <1>1, <1>2, <1>3, <1>5
<1>8. rows # <<>> => Latest(rows) \in Lines /\ Latest(rows).ts \in Nat
  BY <1>1, <1>2, <1>3 DEF Latest
<1>. QED
  BY <1>1, <1>2, <1>6, <1>7, <1>8

\* A charge is an integer.
LEMMA ChargeInt ==
    ASSUME NEW rows \in Seq(Lines), NEW W \in [Lines -> Int]
    PROVE  /\ Charge(rows, W) \in Int
           /\ Len(rows) \in {0, 1} => Charge(rows, W) = 0
<1>. DEFINE n == IF rows = <<>> THEN 0 ELSE Len(rows) - 1
            d == [i \in Intervals(rows) |-> Delta(rows, i) * W[rows[i]]]
<1>1. /\ n \in Nat /\ Intervals(rows) = 1..n /\ (Len(rows) \in {0, 1} => n = 0)
      /\ \A i \in 1..n : i \in 1..Len(rows) /\ i + 1 \in 1..Len(rows)
  <2>1. CASE rows = <<>>
    <3>1. n = 0 /\ Len(rows) = 0 /\ Intervals(rows) = 1..0
      BY <2>1, IntervalsFacts
    <3>. QED
      BY <3>1
  <2>2. CASE rows # <<>>
    <3>1. /\ n = Len(rows) - 1 /\ n \in Nat /\ Intervals(rows) = 1..n
          /\ Len(rows) \in Nat /\ Len(rows) # 0
      BY <2>2, IntervalsFacts
    <3>. HIDE DEF n
    <3>. QED
      BY <3>1
  <2>. QED
    BY <2>1, <2>2
<1>. HIDE DEF n
<1>2. ASSUME NEW i \in 1..n PROVE Delta(rows, i) * W[rows[i]] \in Int
  <2>1. rows[i] \in Lines /\ rows[i].ts \in Int /\ rows[i + 1].ts \in Int
    <3>1. i \in 1..Len(rows) /\ i + 1 \in 1..Len(rows)
      BY <1>1
    <3>2. \A j \in 1..Len(rows) : rows[j] \in Lines /\ rows[j].ts \in Nat
      BY IntervalsFacts
    <3>. QED
      BY <3>1, <3>2
  <2>2. Delta(rows, i) \in Int /\ W[rows[i]] \in Int
    BY <2>1 DEF Delta
  <2>3. \A x, y \in Int : x * y \in Int
    OBVIOUS
  <2>. QED
    BY <2>2, <2>3
<1>3. d \in [1..n -> Int]
  BY <1>1, <1>2
<1>4. Charge(rows, W) = Total(d)
  BY DEF Charge
<1>. HIDE DEF d
<1>. QED
  BY <1>1, <1>3, <1>4, TotalFacts

\* The time up to a new row is charged by the weight of the row before.
LEMMA ChargeMore ==
    ASSUME NEW rows \in Seq(Lines), rows # <<>>, NEW r \in Lines, NEW W \in [Lines -> Int]
    PROVE  Charge(Append(rows, r), W)
              = Charge(rows, W) + (r.ts - Latest(rows).ts) * W[Latest(rows)]
<1>. DEFINE more == Append(rows, r)
            n    == Len(rows) - 1
            d    == [i \in Intervals(rows) |-> Delta(rows, i) * W[rows[i]]]
            e    == [i \in Intervals(more) |-> Delta(more, i) * W[more[i]]]
<1>1. /\ more \in Seq(Lines) /\ Len(more) = Len(rows) + 1
      /\ \A i \in 1..Len(rows) : more[i] = rows[i]
      /\ more[Len(rows) + 1] = r
  BY AppendProperties
<1>2. /\ n \in Nat /\ Len(rows) = n + 1 /\ Intervals(rows) = 1..n
  BY IntervalsFacts
<1>3. more # <<>> /\ Intervals(more) = 1..(n + 1)
  <2>1. Len(more) # 0 /\ Len(more) - 1 = n + 1
    BY <1>1, <1>2
  <2>. HIDE DEF more
  <2>. QED
    BY <1>1, <2>1, IntervalsFacts
<1>. HIDE DEF more, n
<1>4. /\ \A i \in 1..(n + 2) : more[i] \in Lines /\ more[i].ts \in Int
      /\ \A i \in 1..(n + 1) : rows[i] \in Lines /\ rows[i].ts \in Int
  <2>1. /\ \A i \in 1..Len(more) : more[i] \in Lines /\ more[i].ts \in Nat
        /\ \A i \in 1..Len(rows) : rows[i] \in Lines /\ rows[i].ts \in Nat
    BY <1>1, IntervalsFacts
  <2>2. Len(more) = n + 2
    BY <1>1, <1>2
  <2>. QED
    BY <1>2, <2>1, <2>2
<1>5. \A x, y \in Int : x * y \in Int
  OBVIOUS
<1>6. ASSUME NEW i \in 1..n PROVE d[i] \in Int
  <2>1. Delta(rows, i) \in Int /\ W[rows[i]] \in Int
    BY <1>2, <1>4 DEF Delta
  <2>. QED
    BY <1>2, <1>5, <2>1
<1>7. ASSUME NEW i \in 1..(n + 1) PROVE e[i] \in Int
  <2>1. Delta(more, i) \in Int /\ W[more[i]] \in Int
    BY <1>2, <1>4 DEF Delta
  <2>. QED
    BY <1>3, <1>5, <2>1
<1>8. ASSUME NEW i \in 1..n PROVE e[i] = d[i]
  <2>1. /\ i \in 1..Len(rows) /\ i + 1 \in 1..Len(rows)
        /\ i \in Intervals(rows) /\ i \in Intervals(more)
    BY <1>2, <1>3
  <2>2. Delta(more, i) = Delta(rows, i) /\ more[i] = rows[i]
    BY <1>1, <2>1 DEF Delta
  <2>. QED
    BY <2>1, <2>2
<1>9. e[n + 1] = (r.ts - Latest(rows).ts) * W[Latest(rows)]
  <2>1. n + 1 \in Intervals(more) /\ n + 1 \in 1..Len(rows)
    BY <1>2, <1>3
  <2>2. more[n + 1] = Latest(rows) /\ more[n + 1 + 1] = r
    BY <1>1, <1>2, <2>1 DEF Latest
  <2>. QED
    BY <2>1, <2>2 DEF Delta
<1>10. d \in [1..n -> Int] /\ e \in [1..(n + 1) -> Int]
  BY <1>2, <1>3, <1>6, <1>7
<1>11. Charge(rows, W) = Total(d) /\ Charge(more, W) = Total(e)
  BY DEF Charge
<1>. HIDE DEF d, e
<1>12. Total(e) = Total(d) + e[n + 1]
  BY <1>2, <1>8, <1>10, TotalMore
<1>. QED
  BY <1>9, <1>11, <1>12 DEF more

\* The weight of the last row does not matter.
LEMMA ChargeSame ==
    ASSUME NEW rows \in Seq(Lines), NEW alike \in Seq(Lines), Len(alike) = Len(rows),
           \A i \in 1..Len(rows) : alike[i].ts = rows[i].ts,
           \A i \in 1..Len(rows) : i # Len(rows) => alike[i] = rows[i]
    PROVE  \A W : Charge(alike, W) = Charge(rows, W)
<1>. SUFFICES ASSUME NEW W PROVE Charge(alike, W) = Charge(rows, W)
  OBVIOUS
<1>1. Intervals(rows) = Intervals(alike)
  BY LenProperties DEF Intervals
<1>2. ASSUME NEW i \in Intervals(rows)
      PROVE  Delta(alike, i) * W[alike[i]] = Delta(rows, i) * W[rows[i]]
  <2>1. i \in 1..Len(rows) /\ i + 1 \in 1..Len(rows)
    BY LenProperties DEF Intervals
  <2>2. i # Len(rows)
    BY <2>1, LenProperties
  <2>3. alike[i] = rows[i] /\ Delta(alike, i) = Delta(rows, i)
    BY <2>1, <2>2 DEF Delta
  <2>. QED
    BY <2>3
<1>3. [i \in Intervals(alike) |-> Delta(alike, i) * W[alike[i]]]
         = [i \in Intervals(rows) |-> Delta(rows, i) * W[rows[i]]]
  BY <1>1, <1>2
<1>. QED
  BY <1>3 DEF Charge

\* A charge depends on the weights of the rows it charges only.
LEMMA ChargeWeights ==
    ASSUME NEW rows \in Seq(Lines), NEW W, NEW V,
           \A i \in 1..Len(rows) : W[rows[i]] = V[rows[i]]
    PROVE  Charge(rows, W) = Charge(rows, V)
<1>1. ASSUME NEW i \in Intervals(rows)
      PROVE  Delta(rows, i) * W[rows[i]] = Delta(rows, i) * V[rows[i]]
  <2>1. i \in 1..Len(rows)
    BY LenProperties DEF Intervals
  <2>. QED
    BY <2>1
<1>2. [i \in Intervals(rows) |-> Delta(rows, i) * W[rows[i]]]
         = [i \in Intervals(rows) |-> Delta(rows, i) * V[rows[i]]]
  BY <1>1
<1>. QED
  BY <1>2 DEF Charge

\* What tpu-usage charges a user for is such a weight.
ChipsHeldBy(u) == [row \in Lines |-> ChipsOf(row, u)]

\* A user holds between no and all chips.
LEMMA ChipsFacts ==
    ASSUME NEW u
    PROVE  /\ ChipsHeldBy(u) \in [Lines -> 0..NChips]
           /\ \A row \in Lines : ChipsHeldBy(u)[row] = ChipsOf(row, u)
<1>1. ASSUME NEW row \in Lines PROVE ChipsOf(row, u) \in 0..NChips
  <2>. DEFINE S == {c \in Columns : row.users[c] = u}
  <2>1. IsFiniteSet(Columns) /\ Cardinality(Columns) = NChips
    <3>1. IsFiniteSet(1..NChips) /\ Cardinality(1..NChips) = IF 1 > NChips THEN 0 ELSE NChips - 1 + 1
      <4>1. 1 \in Int /\ NChips \in Int
        OBVIOUS
      <4>. QED
        BY <4>1, FS_Interval, Zenon
    <3>2. ~ (1 > NChips) /\ NChips - 1 + 1 = NChips
      OBVIOUS
    <3>. QED
      BY <3>1, <3>2, Zenon DEF Columns
  <2>2. S \subseteq Columns
    OBVIOUS
  <2>. HIDE DEF S
  <2>3. IsFiniteSet(S) /\ Cardinality(S) <= NChips
    BY <2>1, <2>2, FS_Subset
  <2>4. Cardinality(S) \in Nat
    BY <2>3, FS_CardinalityType
  <2>5. Cardinality(S) \in 0..NChips
    BY <2>3, <2>4
  <2>. QED
    BY <2>5 DEF S, ChipsOf
<1>. QED
  BY <1>1 DEF ChipsHeldBy

\* usage['forever'][u] charges u's chips.
LEMMA ForeverIsCharge ==
    ASSUME NEW rows \in Seq(Lines), NEW u
    PROVE  Forever(rows, u) = Charge(rows, ChipsHeldBy(u))
<1>1. ASSUME NEW i \in Intervals(rows) PROVE ChipsHeldBy(u)[rows[i]] = ChipsOf(rows[i], u)
  <2>1. i \in 1..Len(rows)
    BY LenProperties DEF Intervals
  <2>. QED
    BY <2>1, IntervalsFacts, ChipsFacts
<1>2. [i \in Intervals(rows) |-> Delta(rows, i) * ChipsHeldBy(u)[rows[i]]]
         = [i \in Intervals(rows) |-> Delta(rows, i) * ChipsOf(rows[i], u)]
  BY <1>1
<1>. QED
  BY <1>2 DEF Charge, Forever

-----------------------------------------------------------------------------
(* Rows and polls in time. *)

\* A row was torn at the time of row.
TornRow(tn, row) == \E x \in tn : x.ts = row.ts

Increasing(rows, now) ==
    /\ \A i \in 1..Len(rows) : rows[i].ts # 0 /\ rows[i].ts < now
    /\ \A i \in 1..Len(rows) : \A j \in 1..Len(rows) : i < j => rows[i].ts < rows[j].ts

\* The file's rows and the polls, both in order; the last row is no later than
\* the last poll, and a torn row is among the rows.
Timeline(rows, polls, tn, now) ==
    /\ rows \in Seq(Lines) /\ polls \in Seq(Lines)
    /\ rows = <<>> <=> polls = <<>>
    /\ Increasing(rows, now) /\ Increasing(polls, now)
    /\ rows # <<>> => Latest(rows).ts <= Latest(polls).ts
    /\ \A x \in tn : \E i \in 1..Len(rows) : rows[i].ts = x.ts

\* A row more at the end.
LEMMA AppendFacts ==
    ASSUME NEW rows \in Seq(Lines), NEW r \in Lines
    PROVE  /\ Append(rows, r) \in Seq(Lines) /\ Append(rows, r) # <<>>
           /\ Len(Append(rows, r)) = Len(rows) + 1 /\ Len(rows) \in Nat
           /\ \A i \in 1..Len(rows) : Append(rows, r)[i] = rows[i]
           /\ Append(rows, r)[Len(rows) + 1] = r
           /\ Latest(Append(rows, r)) = r
<1>1. /\ Append(rows, r) \in Seq(Lines) /\ Len(Append(rows, r)) = Len(rows) + 1
      /\ \A i \in 1..Len(rows) : Append(rows, r)[i] = rows[i]
      /\ Append(rows, r)[Len(rows) + 1] = r
  BY AppendProperties
<1>2. Len(rows) \in Nat
  BY LenProperties
<1>3. Append(rows, r) # <<>>
  <2>1. Len(Append(rows, r)) # 0
    BY <1>1, <1>2
  <2>. QED
    BY <1>1, <2>1, IntervalsFacts
<1>. QED
  BY <1>1, <1>2, <1>3 DEF Latest

\* A later row keeps the rows in the order of time.
LEMMA IncreasingMore ==
    ASSUME NEW rows \in Seq(Lines), NEW now \in Nat \ {0}, NEW later \in Nat, later > now,
           Increasing(rows, now), NEW r \in Lines, r.ts = now
    PROVE  Increasing(Append(rows, r), later)
<1>1. PICK more : more = Append(rows, r)
  OBVIOUS
<1>2. /\ Len(more) = Len(rows) + 1 /\ Len(rows) \in Nat
      /\ \A i \in 1..Len(rows) : more[i] = rows[i]
      /\ more[Len(rows) + 1] = r
  BY <1>1, AppendFacts
<1>3. \A i \in 1..Len(rows) : rows[i].ts \in Nat
  BY IntervalsFacts
<1>4. \A i \in 1..Len(more) : i \in 1..Len(rows) \/ i = Len(rows) + 1
  BY <1>2
<1>5. \A i \in 1..Len(more) : more[i].ts # 0 /\ more[i].ts < later
  <2>1. ASSUME NEW i \in 1..Len(rows) PROVE more[i].ts # 0 /\ more[i].ts < later
    BY <1>2, <1>3, <2>1 DEF Increasing
  <2>. QED
    BY <1>2, <1>4, <2>1
<1>6. ASSUME NEW i \in 1..Len(more), NEW j \in 1..Len(more), i < j
      PROVE  more[i].ts < more[j].ts
  <2>1. i \in 1..Len(rows)
    BY <1>2, <1>6
  <2>2. CASE j \in 1..Len(rows)
    BY <1>2, <1>6, <2>1, <2>2 DEF Increasing
  <2>3. CASE j = Len(rows) + 1
    BY <1>2, <2>1, <2>3 DEF Increasing
  <2>. QED
    BY <1>4, <2>2, <2>3
<1>. QED
  BY <1>1, <1>5, <1>6 DEF Increasing

\* So does time that passes.
LEMMA IncreasingLater ==
    ASSUME NEW rows \in Seq(Lines), NEW now \in Nat, NEW later \in Nat, later >= now,
           Increasing(rows, now),
           NEW alike \in Seq(Lines), Len(alike) = Len(rows),
           \A i \in 1..Len(rows) : alike[i].ts = rows[i].ts
    PROVE  Increasing(alike, later)
<1>1. \A i \in 1..Len(rows) : rows[i].ts \in Nat
  BY IntervalsFacts
<1>. QED
  BY <1>1 DEF Increasing

\* A poll with a new row.
LEMMA TimelineRow ==
    ASSUME NEW rows, NEW polls, NEW tn, NEW now \in Nat \ {0}, Timeline(rows, polls, tn, now),
           NEW later \in Nat, later > now,
           NEW r \in Lines, r.ts = now, NEW p \in Lines, p.ts = now,
           NEW more, \A x \in more : x \in tn \/ x.ts = now
    PROVE  Timeline(Append(rows, r), Append(polls, p), more, later)
<1>1. rows \in Seq(Lines) /\ polls \in Seq(Lines)
  BY DEF Timeline
<1>2. PICK rs, ps : rs = Append(rows, r) /\ ps = Append(polls, p)
  OBVIOUS
<1>3. /\ rs \in Seq(Lines) /\ ps \in Seq(Lines) /\ rs # <<>> /\ ps # <<>>
      /\ Latest(rs) = r /\ Latest(ps) = p
      /\ Len(rs) = Len(rows) + 1 /\ Len(rows) \in Nat
      /\ \A i \in 1..Len(rows) : rs[i] = rows[i]
      /\ rs[Len(rows) + 1] = r
  BY <1>1, <1>2, AppendFacts
<1>4. Increasing(rs, later) /\ Increasing(ps, later)
  BY <1>1, <1>2, IncreasingMore DEF Timeline
<1>5. Latest(rs).ts <= Latest(ps).ts
  BY <1>3
<1>6. ASSUME NEW x \in more PROVE \E i \in 1..Len(rs) : rs[i].ts = x.ts
  <2>1. CASE x.ts = now
    <3>1. Len(rows) + 1 \in 1..Len(rs)
      BY <1>3
    <3>. QED
      BY <1>3, <2>1, <3>1
  <2>2. CASE x \in tn
    <3>1. PICK i \in 1..Len(rows) : rows[i].ts = x.ts
      BY <2>2 DEF Timeline
    <3>2. i \in 1..Len(rs)
      BY <1>3
    <3>. QED
      BY <1>3, <3>1, <3>2
  <2>. QED
    BY <2>1, <2>2
<1>. QED
  BY <1>2, <1>3, <1>4, <1>5, <1>6 DEF Timeline

\* A poll without a new row; it may have ended the last row's line.
LEMMA TimelinePoll ==
    ASSUME NEW rows, NEW polls, NEW tn, NEW now \in Nat \ {0}, Timeline(rows, polls, tn, now),
           rows # <<>>, NEW later \in Nat, later > now, NEW p \in Lines, p.ts = now,
           NEW alike \in Seq(Lines), Len(alike) = Len(rows),
           \A i \in 1..Len(rows) : alike[i].ts = rows[i].ts
    PROVE  Timeline(alike, Append(polls, p), tn, later)
<1>1. rows \in Seq(Lines) /\ polls \in Seq(Lines)
  BY DEF Timeline
<1>2. PICK ps : ps = Append(polls, p)
  OBVIOUS
<1>3. ps \in Seq(Lines) /\ ps # <<>> /\ Latest(ps) = p
  BY <1>1, <1>2, AppendFacts
<1>4. Increasing(alike, later) /\ Increasing(ps, later)
  BY <1>1, <1>2, IncreasingMore, IncreasingLater DEF Timeline
<1>5. alike # <<>> /\ Len(rows) \in 1..Len(rows) /\ Latest(rows).ts \in Nat
  BY <1>1, IntervalsFacts
<1>6. Latest(alike).ts = Latest(rows).ts /\ Latest(rows).ts < now
  BY <1>1, <1>5 DEF Latest, Timeline, Increasing
<1>7. Latest(alike).ts <= Latest(ps).ts
  BY <1>3, <1>5, <1>6
<1>8. \A x \in tn : \E i \in 1..Len(alike) : alike[i].ts = x.ts
  BY DEF Timeline
<1>. QED
  BY <1>2, <1>3, <1>4, <1>5, <1>7, <1>8 DEF Timeline

\* Time passes: log and polls stay as they are.
LEMMA TimelineLater ==
    ASSUME NEW rows, NEW polls, NEW tn, NEW now \in Nat, Timeline(rows, polls, tn, now),
           NEW later \in Nat, later >= now
    PROVE  Timeline(rows, polls, tn, later)
BY IncreasingLater DEF Timeline

-----------------------------------------------------------------------------
(* The accounts: charges by the rows against charges by the polls.         *)

TornWeight(tn) == [row \in Lines |-> IF TornRow(tn, row) THEN 1 ELSE 0]
Slack(rows, tn) == NChips * Charge(rows, TornWeight(tn))

\* The polls up to t.
Upto(polls, t) == SubSeq(polls, 1, LastUpTo(polls, t))

\* What a user was charged by the rows, more than by the polls.
Surplus(rows, polls, W) == Charge(rows, W) - Charge(polls, W)

\* The polls have gone on since the last row.  If it is a whole row they saw its
\* users, and the row's next interval will make up for them; if it is torn, it
\* may be that nothing or everything of that time will be charged.
Exact(rows, polls, tn, W) ==
    LET since == Latest(polls).ts - Latest(rows).ts
        slack == Slack(rows, tn)
    IN  IF TornRow(tn, Latest(rows))
        THEN /\ - (slack + NChips * since) <= Surplus(rows, polls, W)
             /\ Surplus(rows, polls, W) <= slack
        ELSE /\ W[Latest(polls)] = W[Latest(rows)]
             /\ - slack <= Surplus(rows, polls, W) + since * W[Latest(rows)]
             /\ Surplus(rows, polls, W) + since * W[Latest(rows)] <= slack

Cover(rows, polls, tn, W) ==
    LET surplus == Surplus(rows, Upto(polls, Latest(rows).ts), W)
    IN  - Slack(rows, tn) <= surplus /\ surplus <= Slack(rows, tn)

Books(rows, polls, tn, W) ==
    rows # <<>> => Exact(rows, polls, tn, W) /\ Cover(rows, polls, tn, W)

\* The products below are integers.
LEMMA Products ==
    ASSUME NEW a \in Int, NEW b \in Int, NEW k \in Int
    PROVE  (a - b) * k = a * k - b * k /\ (a + b) * k = a * k + b * k /\ a * k \in Int
           /\ a * k = k * a
OBVIOUS

\* No user holds more than all chips for the time.
LEMMA ProductBounds ==
    ASSUME NEW a \in Nat, NEW n \in Nat, NEW k \in 0..n
    PROVE  0 <= a * k /\ a * k <= n * a
<1>1. \A x, y \in Nat : 0 <= x * y
  OBVIOUS
<1>2. n - k \in Nat
  OBVIOUS
<1>3. 0 <= a * k /\ 0 <= a * (n - k)
  BY <1>1, <1>2
<1>4. a * (n - k) = n * a - a * k
  BY Products
<1>. QED
  BY <1>3, <1>4, Products

\* One more interval: from T to now in the rows, from P to now in the polls.
LEMMA RowArithmetic ==
    ASSUME NEW n \in Nat, NEW k \in 0..n, NEW j \in 0..n, NEW cr \in Int, NEW cp \in Int,
           NEW s \in Int, NEW T \in Nat, NEW P \in Nat, NEW now \in Nat, T <= P, P <= now
    PROVE  /\ - (n * s + n * (P - T)) <= cr - cp /\ cr - cp <= n * s =>
                  /\ - (n * (s + (now - T) * 1)) <= (cr + (now - T) * k) - (cp + (now - P) * j)
                  /\ (cr + (now - T) * k) - (cp + (now - P) * j) <= n * (s + (now - T) * 1)
           /\ j = k /\ - (n * s) <= cr - cp + (P - T) * k /\ cr - cp + (P - T) * k <= n * s =>
                  /\ - (n * (s + (now - T) * 0)) <= (cr + (now - T) * k) - (cp + (now - P) * j)
                  /\ (cr + (now - T) * k) - (cp + (now - P) * j) <= n * (s + (now - T) * 0)
<1>1. now - T \in Nat /\ now - P \in Nat /\ P - T \in Nat
  OBVIOUS
<1>2. PICK nk, pj, ns, ntp, nnt, pk :
         nk = (now - T) * k /\ pj = (now - P) * j /\ ns = n * s /\ ntp = n * (P - T)
         /\ nnt = n * (now - T) /\ pk = (P - T) * k
  OBVIOUS
<1>3. 0 <= nk /\ nk <= nnt
  BY <1>1, <1>2, ProductBounds
<1>4. 0 <= pj /\ pj <= n * (now - P)
  BY <1>1, <1>2, ProductBounds
<1>5. n * (now - P) = nnt - ntp /\ ntp \in Int /\ nnt \in Int /\ ns \in Int
  <2>1. n * (now - P) = n * (now - T) - n * (P - T)
    OBVIOUS
  <2>. QED
    BY <1>1, <1>2, <2>1, Products
<1>6. nk \in Int /\ pj \in Int /\ pk \in Int
  BY <1>1, <1>2, Products
<1>7. n * (s + (now - T) * 1) = ns + nnt /\ n * (s + (now - T) * 0) = ns
  BY <1>2
<1>8. ASSUME - (n * s + n * (P - T)) <= cr - cp, cr - cp <= n * s
      PROVE  - (ns + nnt) <= (cr + nk) - (cp + pj) /\ (cr + nk) - (cp + pj) <= ns + nnt
  <2>1. - (ns + ntp) <= cr - cp /\ cr - cp <= ns
    BY <1>2, <1>8
  <2>. QED
    BY <1>3, <1>4, <1>5, <1>6, <2>1
<1>9. ASSUME j = k, - (n * s) <= cr - cp + (P - T) * k, cr - cp + (P - T) * k <= n * s
      PROVE  - ns <= (cr + nk) - (cp + pj) /\ (cr + nk) - (cp + pj) <= ns
  <2>1. - ns <= cr - cp + pk /\ cr - cp + pk <= ns
    BY <1>2, <1>9
  <2>2. pk = nk - pj
    <3>1. (P - T) * k = (now - T) * k - (now - P) * k
      OBVIOUS
    <3>. QED
      BY <1>2, <1>9, <3>1
  <2>. QED
    BY <1>5, <1>6, <2>1, <2>2
<1>. QED
  BY <1>2, <1>7, <1>8, <1>9

\* A poll without a row: the balance of the time since the last row.
LEMMA PollArithmetic ==
    ASSUME NEW n \in Nat, NEW k \in 0..n, NEW j \in 0..n, NEW cr \in Int, NEW cp \in Int,
           NEW s \in Int, NEW T \in Nat, NEW P \in Nat, NEW now \in Nat, T <= P, P <= now
    PROVE  /\ - (n * s + n * (P - T)) <= cr - cp /\ cr - cp <= n * s =>
                  /\ - (n * s + n * (now - T)) <= cr - (cp + (now - P) * j)
                  /\ cr - (cp + (now - P) * j) <= n * s
           /\ j = k /\ - (n * s) <= cr - cp + (P - T) * k /\ cr - cp + (P - T) * k <= n * s =>
                  /\ - (n * s) <= cr - (cp + (now - P) * j) + (now - T) * k
                  /\ cr - (cp + (now - P) * j) + (now - T) * k <= n * s
<1>1. now - T \in Nat /\ now - P \in Nat /\ P - T \in Nat
  OBVIOUS
<1>2. PICK nk, pj, ns, ntp, nnt, pk :
         nk = (now - T) * k /\ pj = (now - P) * j /\ ns = n * s /\ ntp = n * (P - T)
         /\ nnt = n * (now - T) /\ pk = (P - T) * k
  OBVIOUS
<1>4. 0 <= pj /\ pj <= n * (now - P)
  BY <1>1, <1>2, ProductBounds
<1>5. n * (now - P) = nnt - ntp /\ ntp \in Int /\ nnt \in Int /\ ns \in Int
  <2>1. n * (now - P) = n * (now - T) - n * (P - T)
    OBVIOUS
  <2>. QED
    BY <1>1, <1>2, <2>1, Products
<1>6. nk \in Int /\ pj \in Int /\ pk \in Int
  BY <1>1, <1>2, Products
<1>8. ASSUME - (n * s + n * (P - T)) <= cr - cp, cr - cp <= n * s
      PROVE  - (ns + nnt) <= cr - (cp + pj) /\ cr - (cp + pj) <= ns
  <2>1. - (ns + ntp) <= cr - cp /\ cr - cp <= ns
    BY <1>2, <1>8
  <2>. QED
    BY <1>4, <1>5, <1>6, <2>1
<1>9. ASSUME j = k, - (n * s) <= cr - cp + (P - T) * k, cr - cp + (P - T) * k <= n * s
      PROVE  - ns <= cr - (cp + pj) + nk /\ cr - (cp + pj) + nk <= ns
  <2>1. - ns <= cr - cp + pk /\ cr - cp + pk <= ns
    BY <1>2, <1>9
  <2>2. pk = nk - pj
    <3>1. (P - T) * k = (now - T) * k - (now - P) * k
      OBVIOUS
    <3>. QED
      BY <1>2, <1>9, <3>1
  <2>. QED
    BY <1>5, <1>6, <2>1, <2>2
<1>. QED
  BY <1>2, <1>8, <1>9

\* A later poll changes nothing up to an earlier time.
LEMMA UptoAppend ==
    ASSUME NEW polls \in Seq(Lines), NEW p \in Lines, p.ts # 0
    PROVE  /\ Upto(Append(polls, p), p.ts) = Append(polls, p)
           /\ \A t \in Nat : t < p.ts => Upto(Append(polls, p), t) = Upto(polls, t)
<1>1. PICK ps : ps = Append(polls, p)
  OBVIOUS
<1>2. /\ ps \in Seq(Lines) /\ Len(ps) = Len(polls) + 1 /\ Len(polls) \in Nat
      /\ \A i \in 1..Len(polls) : ps[i] = polls[i]
      /\ p.ts \in Nat
  BY <1>1, AppendFacts DEF Lines
<1>3. \A t \in Nat : LastUpTo(ps, t) = IF p.ts \in 1..t THEN Len(polls) + 1 ELSE LastUpTo(polls, t)
  BY <1>1, LastUpToAppend
<1>4. Upto(ps, p.ts) = ps
  <2>1. LastUpTo(ps, p.ts) = Len(ps)
    <3>1. p.ts \in 1..p.ts
      BY <1>2
    <3>. QED
      BY <1>2, <1>3, <3>1
  <2>. QED
    BY <1>2, <2>1, SubSeqFull DEF Upto
<1>5. ASSUME NEW t \in Nat, t < p.ts PROVE Upto(ps, t) = Upto(polls, t)
  <2>1. p.ts \notin 1..t
    BY <1>2, <1>5
  <2>2. PICK n : n = LastUpTo(polls, t)
    OBVIOUS
  <2>3. LastUpTo(ps, t) = n /\ n \in 0..Len(polls)
    BY <1>3, <2>1, <2>2, LastUpToFacts
  <2>4. \A i \in 1..n : ps[i] \in Lines /\ polls[i] \in Lines /\ ps[i] = polls[i]
    <3>1. \A i \in 1..Len(polls) : polls[i] \in Lines
      BY IntervalsFacts
    <3>2. \A i \in 1..n : i \in 1..Len(polls)
      BY <1>2, <2>3
    <3>. QED
      BY <1>2, <3>1, <3>2
  <2>5. 1 \in Int /\ n \in Int /\ n - 1 + 1 = n
    BY <1>2, <2>3
  <2>6. /\ SubSeq(ps, 1, n) \in Seq(Lines) /\ SubSeq(polls, 1, n) \in Seq(Lines)
        /\ Len(SubSeq(ps, 1, n)) = Len(SubSeq(polls, 1, n))
        /\ Len(SubSeq(ps, 1, n)) = IF 1 <= n THEN n - 1 + 1 ELSE 0
        /\ \A i \in 1..(n - 1 + 1) : SubSeq(ps, 1, n)[i] = ps[1 + i - 1]
        /\ \A i \in 1..(n - 1 + 1) : SubSeq(polls, 1, n)[i] = polls[1 + i - 1]
    BY <2>4, <2>5, SubSeqProperties
  <2>7. PICK a, b : a = SubSeq(ps, 1, n) /\ b = SubSeq(polls, 1, n)
    OBVIOUS
  <2>8. Len(a) = n
    BY <2>3, <2>6, <2>7
  <2>9. \A i \in 1..n : a[i] = b[i]
    BY <2>4, <2>5, <2>6, <2>7
  <2>10. a = b
    BY <2>6, <2>7, <2>8, <2>9, SeqEqual
  <2>. QED
    BY <2>2, <2>3, <2>7, <2>10 DEF Upto
<1>. QED
  BY <1>1, <1>4, <1>5

\* The weights below are integers.
LEMMA WeightsAreInts ==
    /\ \A W \in [Lines -> 0..NChips] : W \in [Lines -> Int]
    /\ \A tn : TornWeight(tn) \in [Lines -> Int]
BY DEF TornWeight

\* The last row and the last poll.
LEMMA TimelineEnds ==
    ASSUME NEW rows, NEW polls, NEW tn, NEW now \in Nat, Timeline(rows, polls, tn, now),
           rows # <<>>
    PROVE  /\ rows \in Seq(Lines) /\ polls \in Seq(Lines) /\ polls # <<>>
           /\ Latest(rows) \in Lines /\ Latest(polls) \in Lines
           /\ Latest(rows).ts \in Nat /\ Latest(polls).ts \in Nat
           /\ Latest(rows).ts <= Latest(polls).ts /\ Latest(polls).ts < now
           /\ \A i \in 1..Len(rows) : i # Len(rows) => rows[i].ts < Latest(rows).ts
<1>1. rows \in Seq(Lines) /\ polls \in Seq(Lines) /\ polls # <<>>
      /\ Latest(rows).ts <= Latest(polls).ts
  BY DEF Timeline
<1>2. Len(polls) \in 1..Len(polls) /\ Len(rows) \in 1..Len(rows)
  BY <1>1, IntervalsFacts
<1>3. Latest(polls).ts < now
  BY <1>2 DEF Timeline, Increasing, Latest
<1>4. ASSUME NEW i \in 1..Len(rows), i # Len(rows) PROVE rows[i].ts < Latest(rows).ts
  <2>1. i < Len(rows)
    BY <1>2, <1>4
  <2>. QED
    BY <1>2, <2>1 DEF Timeline, Increasing, Latest
<1>. QED
  BY <1>1, <1>3, <1>4, IntervalsFacts

\* A row torn now changes no weight of an earlier row.
LEMMA SlackMore ==
    ASSUME NEW rows, NEW polls, NEW tn, NEW now \in Nat \ {0}, Timeline(rows, polls, tn, now),
           rows # <<>>, NEW r \in Lines, r.ts = now,
           NEW more, tn \subseteq more, \A x \in more : x \in tn \/ x.ts = now
    PROVE  /\ Charge(rows, TornWeight(tn)) \in Int
           /\ Slack(Append(rows, r), more)
                = NChips * (Charge(rows, TornWeight(tn))
                    + (now - Latest(rows).ts) * (IF TornRow(tn, Latest(rows)) THEN 1 ELSE 0))
<1>1. /\ rows \in Seq(Lines) /\ Latest(rows) \in Lines /\ now \in Nat
      /\ \A i \in 1..Len(rows) : rows[i].ts \in Nat /\ rows[i] \in Lines
      /\ \A i \in 1..Len(rows) : rows[i].ts < now
      /\ Len(rows) \in 1..Len(rows)
  BY IntervalsFacts DEF Timeline, Increasing
<1>2. \A i \in 1..Len(rows) : TornRow(more, rows[i]) <=> TornRow(tn, rows[i])
  BY <1>1 DEF TornRow
<1>3. \A i \in 1..Len(rows) : TornWeight(more)[rows[i]] = TornWeight(tn)[rows[i]]
  BY <1>1, <1>2 DEF TornWeight
<1>4. Charge(rows, TornWeight(more)) = Charge(rows, TornWeight(tn))
  BY <1>1, <1>3, ChargeWeights
<1>5. TornWeight(more)[Latest(rows)] = IF TornRow(tn, Latest(rows)) THEN 1 ELSE 0
  BY <1>1, <1>2 DEF TornWeight, Latest
<1>6. Charge(Append(rows, r), TornWeight(more))
         = Charge(rows, TornWeight(more)) + (r.ts - Latest(rows).ts) * TornWeight(more)[Latest(rows)]
  BY <1>1, WeightsAreInts, ChargeMore
<1>. QED
  BY <1>1, <1>4, <1>5, <1>6, WeightsAreInts, ChargeInt DEF Slack

\* A row keeps the books.
LEMMA BooksRow ==
    ASSUME NEW rows, NEW polls, NEW tn, NEW now \in Nat \ {0}, Timeline(rows, polls, tn, now),
           NEW W \in [Lines -> 0..NChips], Books(rows, polls, tn, W),
           NEW r \in Lines, r.ts = now, NEW p \in Lines, p.ts = now,
           NEW more, tn \subseteq more, \A x \in more : x \in tn \/ x.ts = now,
           TornRow(more, r) \/ W[p] = W[r]
    PROVE  Books(Append(rows, r), Append(polls, p), more, W)
<1>1. PICK rs, ps : rs = Append(rows, r) /\ ps = Append(polls, p)
  OBVIOUS
<1>2. rows \in Seq(Lines) /\ polls \in Seq(Lines)
  BY DEF Timeline
<1>3. /\ rs \in Seq(Lines) /\ ps \in Seq(Lines) /\ Latest(rs) = r /\ Latest(ps) = p
      /\ Len(rs) = Len(rows) + 1 /\ Len(ps) = Len(polls) + 1
  BY <1>1, <1>2, AppendFacts
<1>4. W \in [Lines -> Int] /\ TornWeight(more) \in [Lines -> Int]
  BY WeightsAreInts
<1>5. Slack(rs, more) \in Int /\ Surplus(rs, ps, W) \in Int
  <2>1. /\ Charge(rs, W) \in Int /\ Charge(ps, W) \in Int
        /\ Charge(rs, TornWeight(more)) \in Int
    BY <1>3, <1>4, ChargeInt
  <2>2. NChips \in Int /\ \A x, y \in Int : x * y \in Int /\ x - y \in Int
    OBVIOUS
  <2>. QED
    BY <2>1, <2>2, Zenon DEF Slack, Surplus
<1>50. - Slack(rs, more) <= Surplus(rs, ps, W) /\ Surplus(rs, ps, W) <= Slack(rs, more)
  <2>1. CASE rows = <<>>
    <3>1. polls = <<>> /\ Len(rows) = 0 /\ Len(polls) = 0
      BY <1>2, <2>1, IntervalsFacts DEF Timeline
    <3>2. Len(rs) = 1 /\ Len(ps) = 1
      BY <1>3, <3>1
    <3>3. Charge(rs, W) = 0 /\ Charge(ps, W) = 0 /\ Charge(rs, TornWeight(more)) = 0
      BY <1>3, <1>4, <3>2, ChargeInt
    <3>4. Slack(rs, more) = 0 /\ Surplus(rs, ps, W) = 0
      BY <3>3 DEF Slack, Surplus
    <3>. QED
      BY <3>4
  <2>2. CASE rows # <<>>
    <3>1. PICK T, P, l, o, s, cr, cp :
             /\ l = Latest(rows) /\ o = Latest(polls) /\ T = l.ts /\ P = o.ts
             /\ s = Charge(rows, TornWeight(tn)) /\ cr = Charge(rows, W) /\ cp = Charge(polls, W)
      OBVIOUS
    <3>2. /\ T \in Nat /\ P \in Nat /\ T <= P /\ P <= now /\ l \in Lines /\ o \in Lines
          /\ polls # <<>> /\ now \in Nat
      BY <2>2, <3>1, TimelineEnds
    <3>3. s \in Int /\ cr \in Int /\ cp \in Int
      BY <1>2, <1>4, <3>1, WeightsAreInts, ChargeInt
    <3>4. W[l] \in 0..NChips /\ W[o] \in 0..NChips /\ NChips \in Nat
      BY <3>2
    <3>5. /\ Charge(rs, W) = cr + (now - T) * W[l]
          /\ Charge(ps, W) = cp + (now - P) * W[o]
      <4>1. Charge(rs, W) = Charge(rows, W) + (r.ts - Latest(rows).ts) * W[Latest(rows)]
        BY <1>1, <1>2, <1>4, <2>2, ChargeMore
      <4>2. Charge(ps, W) = Charge(polls, W) + (p.ts - Latest(polls).ts) * W[Latest(polls)]
        BY <1>1, <1>2, <1>4, <3>2, ChargeMore
      <4>. QED
        BY <3>1, <4>1, <4>2
    <3>6. Slack(rs, more) = NChips * (s + (now - T) * (IF TornRow(tn, l) THEN 1 ELSE 0))
      <4>1. Slack(rs, more)
              = NChips * (Charge(rows, TornWeight(tn))
                  + (now - Latest(rows).ts) * (IF TornRow(tn, Latest(rows)) THEN 1 ELSE 0))
        BY <1>1, <2>2, SlackMore
      <4>. QED
        BY <3>1, <4>1, Zenon
    <3>7. Slack(rows, tn) = NChips * s /\ Surplus(rows, polls, W) = cr - cp
      BY <3>1 DEF Slack, Surplus
    <3>8. Exact(rows, polls, tn, W)
      BY <2>2 DEF Books
    <3>9. Surplus(rs, ps, W) = (cr + (now - T) * W[l]) - (cp + (now - P) * W[o])
      BY <3>5 DEF Surplus
    <3>10. CASE TornRow(tn, l)
      <4>1. - (NChips * s + NChips * (P - T)) <= cr - cp /\ cr - cp <= NChips * s
        BY <3>1, <3>7, <3>8, <3>10 DEF Exact
      <4>2. Slack(rs, more) = NChips * (s + (now - T) * 1)
        BY <3>6, <3>10
      <4>3. /\ - Slack(rs, more) <= Surplus(rs, ps, W) /\ Surplus(rs, ps, W) <= Slack(rs, more)
        <5>1. /\ - (NChips * (s + (now - T) * 1)) <= (cr + (now - T) * W[l]) - (cp + (now - P) * W[o])
              /\ (cr + (now - T) * W[l]) - (cp + (now - P) * W[o]) <= NChips * (s + (now - T) * 1)
          BY <3>2, <3>3, <3>4, <4>1, RowArithmetic, Zenon
        <5>. QED
          BY <3>9, <4>2, <5>1, Zenon
      <4>. QED
        BY <4>3
    <3>11. CASE ~ TornRow(tn, l)
      <4>1. /\ W[o] = W[l] /\ - (NChips * s) <= cr - cp + (P - T) * W[l]
            /\ cr - cp + (P - T) * W[l] <= NChips * s
        BY <3>1, <3>7, <3>8, <3>11 DEF Exact
      <4>2. Slack(rs, more) = NChips * (s + (now - T) * 0)
        BY <3>6, <3>11
      <4>3. /\ - Slack(rs, more) <= Surplus(rs, ps, W) /\ Surplus(rs, ps, W) <= Slack(rs, more)
        <5>1. /\ - (NChips * (s + (now - T) * 0)) <= (cr + (now - T) * W[l]) - (cp + (now - P) * W[o])
              /\ (cr + (now - T) * W[l]) - (cp + (now - P) * W[o]) <= NChips * (s + (now - T) * 0)
          BY <3>2, <3>3, <3>4, <4>1, RowArithmetic, Zenon
        <5>. QED
          BY <3>9, <4>2, <5>1, Zenon
      <4>. QED
        BY <4>3
    <3>. QED
      BY <3>10, <3>11
  <2>. QED
    BY <2>1, <2>2
<1>6. Exact(rs, ps, more, W)
  <2>1. Latest(ps).ts - Latest(rs).ts = 0 /\ NChips * 0 = 0 /\ 0 * W[r] = 0
    <3>1. now - now = 0 /\ W[r] \in Int
      BY <1>4
    <3>. QED
      BY <1>3, <3>1
  <2>2. CASE TornRow(more, r)
    BY <1>3, <1>5, <1>50, <2>1, <2>2 DEF Exact
  <2>3. CASE ~ TornRow(more, r)
    BY <1>3, <1>5, <1>50, <2>1, <2>3 DEF Exact
  <2>. QED
    BY <2>2, <2>3
<1>7. Cover(rs, ps, more, W)
  <2>1. Upto(ps, Latest(rs).ts) = ps
    <3>1. Upto(ps, p.ts) = ps
      BY <1>1, <1>2, UptoAppend
    <3>. QED
      BY <1>3, <3>1
  <2>. QED
    BY <1>50, <2>1 DEF Cover
<1>. QED
  BY <1>1, <1>6, <1>7 DEF Books

\* A poll that adds no row keeps the books.
LEMMA BooksPoll ==
    ASSUME NEW rows, NEW polls, NEW tn, NEW now \in Nat \ {0}, Timeline(rows, polls, tn, now),
           rows # <<>>, NEW W \in [Lines -> 0..NChips], Books(rows, polls, tn, W),
           NEW p \in Lines, p.ts = now,
           NEW alike \in Seq(Lines), Len(alike) = Len(rows),
           \A i \in 1..Len(rows) : alike[i].ts = rows[i].ts,
           \A i \in 1..Len(rows) : i # Len(rows) => alike[i] = rows[i],
           TornRow(tn, Latest(rows)) \/ (alike = rows /\ W[p] = W[Latest(rows)])
    PROVE  Books(alike, Append(polls, p), tn, W)
<1>1. PICK ps : ps = Append(polls, p)
  OBVIOUS
<1>2. PICK T, P, l, o, s, cr, cp :
         /\ l = Latest(rows) /\ o = Latest(polls) /\ T = l.ts /\ P = o.ts
         /\ s = Charge(rows, TornWeight(tn)) /\ cr = Charge(rows, W) /\ cp = Charge(polls, W)
  OBVIOUS
<1>3. /\ rows \in Seq(Lines) /\ polls \in Seq(Lines) /\ polls # <<>>
      /\ T \in Nat /\ P \in Nat /\ T <= P /\ P <= now /\ T < now
      /\ l \in Lines /\ o \in Lines /\ now \in Nat
  BY <1>2, TimelineEnds
<1>4. W \in [Lines -> Int] /\ TornWeight(tn) \in [Lines -> Int]
  BY WeightsAreInts
<1>5. s \in Int /\ cr \in Int /\ cp \in Int
  BY <1>2, <1>3, <1>4, ChargeInt
<1>6. W[l] \in 0..NChips /\ W[o] \in 0..NChips /\ NChips \in Nat
  BY <1>3
<1>7. ps \in Seq(Lines) /\ Latest(ps) = p
  BY <1>1, <1>3, AppendFacts
<1>8. alike # <<>> /\ Len(rows) \in 1..Len(rows)
  BY <1>3, IntervalsFacts
<1>9. Latest(alike).ts = T
  BY <1>2, <1>8 DEF Latest
<1>10. Charge(alike, W) = cr /\ Charge(alike, TornWeight(tn)) = s
  <2>1. \A V : Charge(alike, V) = Charge(rows, V)
    BY <1>3, ChargeSame
  <2>. QED
    BY <1>2, <2>1
<1>11. Charge(ps, W) = cp + (now - P) * W[o]
  BY <1>1, <1>2, <1>3, <1>4, ChargeMore
<1>12. TornRow(tn, Latest(alike)) <=> TornRow(tn, l)
  BY <1>2, <1>9 DEF TornRow
<1>13. /\ Slack(rows, tn) = NChips * s /\ Slack(alike, tn) = NChips * s
       /\ Surplus(rows, polls, W) = cr - cp
       /\ Surplus(alike, ps, W) = cr - (cp + (now - P) * W[o])
  BY <1>2, <1>10, <1>11 DEF Slack, Surplus
<1>14. Exact(rows, polls, tn, W) /\ Cover(rows, polls, tn, W)
  BY DEF Books
<1>15. Exact(alike, ps, tn, W)
  <2>1. Latest(ps).ts - Latest(alike).ts = now - T
    BY <1>7, <1>9
  <2>2. CASE TornRow(tn, l)
    <3>1. - (NChips * s + NChips * (P - T)) <= cr - cp /\ cr - cp <= NChips * s
      BY <1>2, <1>13, <1>14, <2>2 DEF Exact
    <3>2. /\ - (NChips * s + NChips * (now - T)) <= cr - (cp + (now - P) * W[o])
          /\ cr - (cp + (now - P) * W[o]) <= NChips * s
      BY <1>3, <1>5, <1>6, <3>1, PollArithmetic
    <3>. QED
      BY <1>12, <1>13, <2>1, <2>2, <3>2 DEF Exact
  <2>3. CASE ~ TornRow(tn, l)
    <3>1. /\ W[o] = W[l] /\ - (NChips * s) <= cr - cp + (P - T) * W[l]
          /\ cr - cp + (P - T) * W[l] <= NChips * s
      BY <1>2, <1>13, <1>14, <2>3 DEF Exact
    <3>2. /\ - (NChips * s) <= cr - (cp + (now - P) * W[o]) + (now - T) * W[l]
          /\ cr - (cp + (now - P) * W[o]) + (now - T) * W[l] <= NChips * s
      BY <1>3, <1>5, <1>6, <3>1, PollArithmetic
    <3>3. Latest(alike) = l /\ W[p] = W[l]
      BY <1>2, <2>3
    <3>. QED
      BY <1>7, <1>12, <1>13, <2>1, <2>3, <3>2, <3>3 DEF Exact
  <2>. QED
    BY <2>2, <2>3
<1>16. Cover(alike, ps, tn, W)
  <2>1. Upto(ps, T) = Upto(polls, T)
    <3>1. p.ts # 0 /\ T < p.ts
      BY <1>3
    <3>. QED
      BY <1>1, <1>3, <3>1, UptoAppend
  <2>2. Surplus(alike, Upto(ps, Latest(alike).ts), W) = Surplus(rows, Upto(polls, Latest(rows).ts), W)
    BY <1>2, <1>9, <1>10, <2>1 DEF Surplus
  <2>. QED
    BY <1>13, <1>14, <2>2 DEF Cover
<1>. QED
  BY <1>1, <1>15, <1>16 DEF Books

-----------------------------------------------------------------------------
(* The rows of the file, and what a step of the daemon does to them.       *)

\* Nobody reads the users behind the cut of a torn last line.
Cut(t) == Glue(t, [users |-> [c \in Columns |-> Stranger]])

AllOf(lg) == lg.lines \o SetToSeq({Cut(t) : t \in lg.tail})

\* A torn line as the reader sees it.
LEMMA CutFacts ==
    ASSUME NEW t \in Torn
    PROVE  Cut(t) \in Lines /\ Cut(t).ts = IF t.cut = 0 THEN 0 ELSE t.ts
<1>. DEFINE users == [c \in Columns |-> Stranger]
<1>1. [ts |-> 0, users |-> users] \in Lines
  BY DEF Lines, UserRow, Someone, Chips
<1>2. Cut(t) = Glue(t, [ts |-> 0, users |-> users])
  BY DEF Cut, Glue
<1>. QED
  BY <1>1, <1>2, GlueFacts

\* The list of one thing.
LEMMA SeqOfOne ==
    ASSUME NEW e
    PROVE  SetToSeq({e}) = <<e>>
<1>1. Cardinality({e}) = 1
  BY FS_Singleton
<1>2. <<e>> \in [1..1 -> {e}] /\ IsInjective(<<e>>)
  BY DEF IsInjective
<1>3. \A f \in [1..1 -> {e}] : f = <<e>>
  OBVIOUS
<1>. QED
  BY <1>1, <1>2, <1>3 DEF SetToSeq

\* The list of nothing.
LEMMA SeqOfNone == SetToSeq({}) = <<>>
<1>1. Cardinality({}) = 0
  BY FS_EmptySet
<1>2. <<>> \in [1..0 -> {}] /\ IsInjective(<<>>)
  BY DEF IsInjective
<1>3. \A f \in [1..0 -> {}] : f = <<>>
  OBVIOUS
<1>. QED
  BY <1>1, <1>2, <1>3 DEF SetToSeq

\* Behind a whole header the reader sees all lines.
LEMMA AllOfFacts ==
    ASSUME NEW lg, lg.lines \in Seq(Lines)
    PROVE  /\ lg.tail = {} => AllOf(lg) = lg.lines
           /\ \A t : lg.tail = {t} => AllOf(lg) = Append(lg.lines, Cut(t))
           /\ lg.header = "whole" => Rows(lg) = AllOf(lg)
<1>1. ASSUME lg.tail = {} PROVE AllOf(lg) = lg.lines
  <2>1. {Cut(t) : t \in lg.tail} = {}
    BY <1>1
  <2>2. AllOf(lg) = lg.lines \o <<>>
    BY <2>1, SeqOfNone DEF AllOf
  <2>. QED
    BY <2>2, ConcatEmptySeq
<1>2. ASSUME NEW t, lg.tail = {t} PROVE AllOf(lg) = Append(lg.lines, Cut(t))
  <2>1. {Cut(x) : x \in lg.tail} = {Cut(t)}
    BY <1>2
  <2>2. AllOf(lg) = lg.lines \o <<Cut(t)>>
    BY <2>1, SeqOfOne DEF AllOf
  <2>3. \A e : lg.lines \o <<e>> = Append(lg.lines, e)
    OBVIOUS
  <2>. QED
    BY <2>2, <2>3, Zenon
<1>3. ASSUME lg.header = "whole" PROVE Rows(lg) = AllOf(lg)
  BY <1>3 DEF Rows, AllOf, Cut
<1>. QED
  BY <1>1, <1>2, <1>3

\* No row was cut in its timestamp.
CutLate == \A x \in torn : x.cut # 0

TailTorn == \A t \in log.tail : \E x \in torn : x.ts = t.ts /\ x.cut = t.cut

InTime == CutLate => Timeline(AllOf(log), polled, torn, clock)

\* What one step may do to the rows, the polls, the torn rows and the clock.
QuietStep(rows, rs, polls, ps, tn, more, now, later) ==
    rs = rows /\ ps = polls /\ more = tn /\ later >= now

RowStep(rows, rs, polls, ps, tn, more, now, later) ==
    \E r \in Lines, p \in Lines :
        /\ rs = Append(rows, r) /\ ps = Append(polls, p)
        /\ r.ts = now /\ p.ts = now /\ later > now
        /\ tn \subseteq more /\ \A x \in more : x \in tn \/ x.ts = now
        /\ r = p \/ TornRow(more, r)

PollStep(rows, rs, polls, ps, tn, more, now, later) ==
    \E p \in Lines :
        /\ rows # <<>> /\ ps = Append(polls, p) /\ p.ts = now /\ later > now /\ more = tn
        /\ rs \in Seq(Lines) /\ Len(rs) = Len(rows)
        /\ \A i \in 1..Len(rows) : rs[i].ts = rows[i].ts
        /\ \A i \in 1..Len(rows) : i # Len(rows) => rs[i] = rows[i]
        /\ \/ TornRow(tn, Latest(rows))
           \/ /\ rs = rows
              /\ p.users = Latest(rows).users /\ now - Latest(rows).ts <= MaxLogWait

FileStep(rows, rs, polls, ps, tn, more, now, later) ==
    \/ QuietStep(rows, rs, polls, ps, tn, more, now, later)
    \/ RowStep(rows, rs, polls, ps, tn, more, now, later)
    \/ PollStep(rows, rs, polls, ps, tn, more, now, later)

\* The order of time is kept by every step.
LEMMA TimelineStep ==
    ASSUME NEW rows, NEW rs, NEW polls, NEW ps, NEW tn, NEW more,
           NEW now \in Nat \ {0}, NEW later \in Nat, Timeline(rows, polls, tn, now),
           FileStep(rows, rs, polls, ps, tn, more, now, later)
    PROVE  Timeline(rs, ps, more, later)
<1>1. CASE QuietStep(rows, rs, polls, ps, tn, more, now, later)
  BY <1>1, TimelineLater DEF QuietStep
<1>2. CASE RowStep(rows, rs, polls, ps, tn, more, now, later)
  BY <1>2, TimelineRow DEF RowStep
<1>3. CASE PollStep(rows, rs, polls, ps, tn, more, now, later)
  BY <1>3, TimelinePoll DEF PollStep
<1>. QED
  BY <1>1, <1>2, <1>3 DEF FileStep

\* The books are kept by every step.
LEMMA BooksStep ==
    ASSUME NEW rows, NEW rs, NEW polls, NEW ps, NEW tn, NEW more,
           NEW now \in Nat \ {0}, NEW later \in Nat, Timeline(rows, polls, tn, now),
           FileStep(rows, rs, polls, ps, tn, more, now, later),
           NEW u, Books(rows, polls, tn, ChipsHeldBy(u))
    PROVE  Books(rs, ps, more, ChipsHeldBy(u))
<1>. DEFINE W == ChipsHeldBy(u)
<1>1. W \in [Lines -> 0..NChips]
  BY ChipsFacts
<1>2. \A a, b \in Lines : a.users = b.users => W[a] = W[b]
  <2>1. ASSUME NEW a \in Lines, NEW b \in Lines, a.users = b.users PROVE W[a] = W[b]
    <3>1. \A c \in Columns : a.users[c] = u <=> b.users[c] = u
      BY <2>1
    <3>2. {c \in Columns : a.users[c] = u} = {c \in Columns : b.users[c] = u}
      BY <3>1
    <3>3. ChipsOf(a, u) = ChipsOf(b, u)
      BY <3>2 DEF ChipsOf
    <3>. QED
      BY <3>3, ChipsFacts
  <2>. QED
    BY <2>1
<1>. HIDE DEF W
<1>3. Books(rows, polls, tn, W)
  BY DEF W
<1>4. CASE QuietStep(rows, rs, polls, ps, tn, more, now, later)
  BY <1>3, <1>4 DEF QuietStep, W
<1>5. CASE RowStep(rows, rs, polls, ps, tn, more, now, later)
  <2>1. PICK r \in Lines, p \in Lines :
          /\ rs = Append(rows, r) /\ ps = Append(polls, p)
          /\ r.ts = now /\ p.ts = now /\ later > now
          /\ tn \subseteq more /\ \A x \in more : x \in tn \/ x.ts = now
          /\ r = p \/ TornRow(more, r)
    BY <1>5 DEF RowStep
  <2>2. TornRow(more, r) \/ W[p] = W[r]
    BY <2>1
  <2>3. Books(rs, ps, more, W)
    BY <1>1, <1>3, <2>1, <2>2, BooksRow
  <2>. QED
    BY <2>3 DEF W
<1>6. CASE PollStep(rows, rs, polls, ps, tn, more, now, later)
  <2>1. PICK p \in Lines :
          /\ rows # <<>> /\ ps = Append(polls, p) /\ p.ts = now /\ later > now /\ more = tn
          /\ rs \in Seq(Lines) /\ Len(rs) = Len(rows)
          /\ \A i \in 1..Len(rows) : rs[i].ts = rows[i].ts
          /\ \A i \in 1..Len(rows) : i # Len(rows) => rs[i] = rows[i]
          /\ TornRow(tn, Latest(rows)) \/ (rs = rows /\ p.users = Latest(rows).users)
    BY <1>6 DEF PollStep
  <2>2. Latest(rows) \in Lines
    BY <2>1, TimelineEnds
  <2>3. TornRow(tn, Latest(rows)) \/ (rs = rows /\ W[p] = W[Latest(rows)])
    BY <1>2, <2>1, <2>2
  <2>4. Books(rs, ps, more, W)
    BY <1>1, <1>3, <2>1, <2>3, BooksPoll
  <2>. QED
    BY <2>4 DEF W
<1>. QED
  BY <1>4, <1>5, <1>6 DEF FileStep

-----------------------------------------------------------------------------
(* The steps of the daemon are such steps.                                 *)

\* The tail is one torn row, or none.
LEMMA TailFacts ==
    ASSUME Inv, TailTorn, CutLate, NEW t \in log.tail
    PROVE  /\ t \in Torn /\ log.tail = {t} /\ t.cut # 0
           /\ Cut(t) \in Lines /\ Cut(t).ts = t.ts
           /\ AllOf(log) = Append(log.lines, Cut(t))
           /\ Latest(AllOf(log)).ts = t.ts
           /\ TornRow(torn, Latest(AllOf(log)))
<1>1. t \in Torn /\ log.tail = {t} /\ log.lines \in Seq(Lines)
  BY TypesFacts DEF Inv, Past
<1>2. PICK x \in torn : x.ts = t.ts /\ x.cut = t.cut
  BY DEF TailTorn
<1>3. t.cut # 0
  BY <1>2 DEF CutLate
<1>4. Cut(t) \in Lines /\ Cut(t).ts = t.ts
  BY <1>1, <1>3, CutFacts
<1>5. AllOf(log) = Append(log.lines, Cut(t))
  BY <1>1, AllOfFacts
<1>6. Latest(AllOf(log)).ts = t.ts
  BY <1>1, <1>4, <1>5, AppendFacts
<1>. QED
  BY <1>1, <1>2, <1>3, <1>4, <1>5, <1>6 DEF TornRow

\* An append is a row.
LEMMA AppendRowShape ==
    ASSUME Inv, TailTorn, CutLate, AppendRow
    PROVE  /\ FileStep(AllOf(log), AllOf(log'), polled, polled', torn, torn', clock, clock')
           /\ log'.tail = {} /\ log'.header = log.header
<1>1. PICK row, line : row = Row /\ line = LineOf(Row)
  OBVIOUS
<1>2. Types /\ Past
  BY DEF Inv
<1>3. /\ clock \in Nat /\ log.lines \in Seq(Lines)
  BY <1>2, TypesFacts
<1>4. row \in Lines /\ row.ts = clock /\ line \in Lines
  BY <1>1, <1>2, RowFacts, LineOfFacts
<1>5. /\ polled' = Append(polled, row) /\ torn' = torn /\ clock' = clock + 1
  BY <1>1 DEF AppendRow, Sleep
<1>6. log' = [header |-> log.header, lines |-> Append(log.lines, line), tail |-> {}]
  BY <1>1, <1>2, LogExcept DEF AppendRow
<1>7. log'.lines = Append(log.lines, line) /\ log'.tail = {} /\ log'.header = log.header
  BY <1>6
<1>8. Append(log.lines, line) \in Seq(Lines)
  BY <1>3, <1>4, AppendProperties
<1>9. AllOf(log') = Append(log.lines, line)
  BY <1>7, <1>8, AllOfFacts
<1>10. clock' > clock
  BY <1>3, <1>5
<1>11. CASE log.tail = {}
  <2>1. line = row /\ AllOf(log) = log.lines
    BY <1>1, <1>2, <1>3, <1>11, LineOfFacts, AllOfFacts
  <2>2. RowStep(AllOf(log), AllOf(log'), polled, polled', torn, torn', clock, clock')
    BY <1>4, <1>5, <1>9, <1>10, <2>1 DEF RowStep
  <2>. QED
    BY <1>7, <2>2 DEF FileStep
<1>12. CASE log.tail # {}
  <2>1. PICK t \in log.tail : TRUE
    BY <1>12
  <2>2. PICK cut : cut = Cut(t)
    OBVIOUS
  <2>3. /\ t.cut # 0 /\ cut \in Lines /\ cut.ts = t.ts /\ AllOf(log) = Append(log.lines, cut)
        /\ TornRow(torn, Latest(AllOf(log)))
    BY <2>1, <2>2, TailFacts
  <2>4. line.ts = t.ts
    BY <1>1, <1>2, <2>1, <2>3, LineOfFacts
  <2>5. PICK rows, rs : rows = Append(log.lines, cut) /\ rs = Append(log.lines, line)
    OBVIOUS
  <2>6. /\ rows \in Seq(Lines) /\ rs \in Seq(Lines) /\ rows # <<>>
        /\ Len(rows) = Len(log.lines) + 1 /\ Len(rs) = Len(log.lines) + 1 /\ Len(log.lines) \in Nat
        /\ \A i \in 1..Len(log.lines) : rows[i] = log.lines[i]
        /\ \A i \in 1..Len(log.lines) : rs[i] = log.lines[i]
        /\ rows[Len(log.lines) + 1] = cut /\ rs[Len(log.lines) + 1] = line
    <3>1. \A e \in Lines :
            /\ Append(log.lines, e) \in Seq(Lines) /\ Append(log.lines, e) # <<>>
            /\ Len(Append(log.lines, e)) = Len(log.lines) + 1 /\ Len(log.lines) \in Nat
            /\ \A i \in 1..Len(log.lines) : Append(log.lines, e)[i] = log.lines[i]
            /\ Append(log.lines, e)[Len(log.lines) + 1] = e
      BY <1>3, AppendFacts
    <3>. QED
      BY <1>4, <2>3, <2>5, <3>1, Zenon
  <2>7. \A i \in 1..Len(rows) : i = Len(rows) \/ i \in 1..Len(log.lines)
    BY <2>6
  <2>8. \A i \in 1..Len(rows) : i # Len(rows) => rs[i] = rows[i]
    BY <2>6, <2>7
  <2>9. \A i \in 1..Len(rows) : rs[i].ts = rows[i].ts
    BY <2>3, <2>4, <2>6, <2>8
  <2>10. PollStep(rows, rs, polled, polled', torn, torn', clock, clock')
    BY <1>4, <1>5, <1>10, <2>3, <2>5, <2>6, <2>8, <2>9 DEF PollStep
  <2>. QED
    BY <1>7, <1>9, <2>3, <2>5, <2>10 DEF FileStep
<1>. QED
  BY <1>11, <1>12

\* So is a row cut short behind its timestamp.
LEMMA TearRowShape ==
    ASSUME Inv, TailTorn, CutLate', NEW k \in 0..NChips, TearRow(k)
    PROVE  /\ FileStep(AllOf(log), AllOf(log'), polled, polled', torn, torn', clock, clock')
           /\ \A t \in log'.tail : \E x \in torn' : x.ts = t.ts /\ x.cut = t.cut
           /\ log'.header = log.header
<1>. DEFINE new == [ts |-> clock, users |-> Users(devices), cut |-> k]
            x   == [ts |-> clock, cut |-> k]
<1>1. PICK row, t, y : row = Row /\ t = new /\ y = x
  OBVIOUS
<1>2. Types /\ Past
  BY DEF Inv
<1>3. clock \in Nat /\ clock # 0 /\ log.lines \in Seq(Lines)
  BY <1>2, TypesFacts
<1>4. /\ row \in Lines /\ row.ts = clock
      /\ t \in Torn /\ t.ts = clock /\ t.cut = k
      /\ y.ts = clock /\ y.cut = k
  BY <1>1, <1>2, <1>3, RowFacts DEF Torn
<1>. HIDE DEF new, x
<1>5. /\ polled' = Append(polled, row) /\ torn' = torn \union {y} /\ clock' = clock + 1
      /\ log.tail = {}
  BY <1>1 DEF TearRow, Sleep, x
<1>6. log' = [header |-> log.header, lines |-> log.lines, tail |-> {t}]
  BY <1>1, <1>2, LogExcept DEF TearRow, new
<1>7. log'.lines = log.lines /\ log'.tail = {t} /\ log'.header = log.header
  BY <1>6
<1>8. y \in torn' /\ k # 0
  BY <1>4, <1>5 DEF CutLate
<1>9. PICK cut : cut = Cut(t)
  OBVIOUS
<1>10. cut \in Lines /\ cut.ts = clock
  BY <1>4, <1>8, <1>9, CutFacts
<1>11. AllOf(log) = log.lines /\ AllOf(log') = Append(log.lines, cut)
  BY <1>3, <1>5, <1>7, <1>9, AllOfFacts
<1>12. TornRow(torn', cut)
  BY <1>4, <1>8, <1>10 DEF TornRow
<1>13. clock' > clock /\ torn \subseteq torn' /\ \A z \in torn' : z \in torn \/ z.ts = clock
  BY <1>3, <1>4, <1>5
<1>14. RowStep(AllOf(log), AllOf(log'), polled, polled', torn, torn', clock, clock')
  BY <1>4, <1>5, <1>10, <1>11, <1>12, <1>13 DEF RowStep
<1>. QED
  BY <1>4, <1>7, <1>8, <1>14 DEF FileStep

\* A poll whose row is not due saw the users of the last row, unless that is torn.
LEMMA SkipRowShape ==
    ASSUME Inv, TailTorn, InTime, CutLate, SkipRow
    PROVE  FileStep(AllOf(log), AllOf(log'), polled, polled', torn, torn', clock, clock')
<1>1. PICK row, rows : row = Row /\ rows = AllOf(log)
  OBVIOUS
<1>2. Types /\ Past /\ Remembered
  BY DEF Inv
<1>3. /\ clock \in Nat /\ log.lines \in Seq(Lines)
      /\ \A x \in torn : x.ts \in Nat
      /\ \A last \in lastLog : last.ts \in Nat
      /\ \A i \in 1..Len(log.lines) : log.lines[i].ts \in Nat
  BY <1>2, TypesFacts
<1>4. row \in Lines /\ row.ts = clock /\ row.users = Users(devices)
  BY <1>1, <1>2, RowFacts
<1>5. /\ polled' = Append(polled, row) /\ torn' = torn /\ clock' = clock + 1 /\ log' = log
  BY <1>1 DEF SkipRow, Sleep, disk
<1>6. Timeline(rows, polled, torn, clock)
  BY <1>1 DEF InTime
<1>7. PICK last \in lastLog : last.users = Users(devices) /\ ~ (clock - last.ts > MaxLogWait)
  BY DEF SkipRow, LogDue
<1>8. clock - last.ts <= MaxLogWait
  BY <1>3, <1>7
<1>9. rows # <<>> /\ (TornRow(torn, Latest(rows)) \/ Latest(rows) = last)
  <2>1. CASE log.tail # {}
    <3>1. PICK t \in log.tail : TRUE
      BY <2>1
    <3>2. rows = Append(log.lines, Cut(t)) /\ Cut(t) \in Lines /\ TornRow(torn, Latest(rows))
      BY <1>1, <3>1, TailFacts
    <3>. QED
      BY <1>3, <3>2, AppendFacts
  <2>2. CASE log.tail = {}
    <3>1. rows = log.lines
      BY <1>1, <1>3, <2>2, AllOfFacts
    <3>2. CASE log.lines # <<>> /\ log.lines[Len(log.lines)] = last
      BY <3>1, <3>2 DEF Latest
    <3>3. CASE \E x \in torn : /\ x.ts < clock
                               /\ \A i \in 1..Len(log.lines) : log.lines[i].ts <= x.ts
      <4>1. PICK x \in torn : \A i \in 1..Len(rows) : rows[i].ts <= x.ts
        BY <3>1, <3>3
      <4>2. PICK i \in 1..Len(rows) : rows[i].ts = x.ts
        BY <1>6 DEF Timeline
      <4>3. rows # <<>> /\ Len(rows) \in 1..Len(rows)
        BY <1>3, <3>1, <4>2, IntervalsFacts
      <4>4. i = Len(rows)
        <5>1. SUFFICES ASSUME i # Len(rows) PROVE FALSE
          OBVIOUS
        <5>2. rows[i].ts < Latest(rows).ts
          BY <1>3, <1>6, <4>3, <5>1, TimelineEnds
        <5>3. Latest(rows).ts <= x.ts /\ Latest(rows).ts \in Nat /\ x.ts \in Nat
          BY <1>3, <3>1, <4>1, <4>3 DEF Latest
        <5>. QED
          BY <4>2, <5>2, <5>3
      <4>. QED
        BY <4>2, <4>3, <4>4 DEF TornRow, Latest
    <3>. QED
      BY <1>2, <3>2, <3>3 DEF Remembered
  <2>. QED
    BY <2>1, <2>2
<1>10. rows \in Seq(Lines)
  BY <1>6 DEF Timeline
<1>11. clock' > clock
  BY <1>3, <1>5
<1>12. \/ TornRow(torn, Latest(rows))
       \/ row.users = Latest(rows).users /\ clock - Latest(rows).ts <= MaxLogWait
  BY <1>4, <1>7, <1>8, <1>9
<1>13. PollStep(rows, rows, polled, polled', torn, torn', clock, clock')
  BY <1>4, <1>5, <1>9, <1>10, <1>11, <1>12 DEF PollStep
<1>14. AllOf(log') = rows
  BY <1>1, <1>5
<1>. QED
  BY <1>1, <1>13, <1>14 DEF FileStep

\* The other steps leave the rows alone.
LEMMA QuietShape ==
    ASSUME Inv,
           \/ MakeFile \/ WriteHeader \/ ReadSysfs \/ RunPs \/ OpenTemp \/ Dump \/ Rename
           \/ Fail \/ Crash \/ Restart \/ UNCHANGED vars
    PROVE  /\ log'.lines = log.lines /\ log'.tail = log.tail
           /\ polled' = polled /\ torn' = torn /\ clock' \in Nat /\ clock' >= clock
           /\ log.header = "whole" => log'.header = "whole"
<1>1. Types
  BY DEF Inv
<1>2. clock \in Nat
  BY <1>1, TypesFacts
<1>3. CASE MakeFile
  <2>1. clock' = clock /\ polled' = polled /\ torn' = torn
    BY <1>3 DEF MakeFile, history
  <2>2. CASE log.header = "absent"
    <3>1. log' = [header |-> "empty", lines |-> log.lines, tail |-> log.tail]
      BY <1>1, <1>3, <2>2, LogExcept DEF MakeFile
    <3>. QED
      BY <1>2, <2>1, <2>2, <3>1
  <2>3. CASE log.header # "absent"
    BY <1>2, <1>3, <2>1, <2>3 DEF MakeFile
  <2>. QED
    BY <2>2, <2>3
<1>4. CASE WriteHeader
  <2>1. clock' = clock /\ polled' = polled /\ torn' = torn
    BY <1>4 DEF WriteHeader, history
  <2>2. log' = [header |-> "whole", lines |-> log.lines, tail |-> log.tail]
    BY <1>1, <1>4, LogExcept DEF WriteHeader
  <2>. QED
    BY <1>2, <2>1, <2>2
<1>5. CASE ReadSysfs \/ RunPs \/ OpenTemp \/ Dump \/ Rename \/ Crash \/ UNCHANGED vars
  <2>1. UNCHANGED <<clock, log, polled, torn>>
    BY <1>5 DEF ReadSysfs, RunPs, OpenTemp, Dump, Rename, Crash, vars, disk, history
  <2>. QED
    BY <1>2, <2>1
<1>6. CASE Fail
  <2>1. clock' = clock + 1 /\ UNCHANGED <<log, polled, torn>>
    BY <1>6 DEF Fail, Sleep, disk, history
  <2>. QED
    BY <1>2, <2>1
<1>7. CASE Restart
  <2>1. clock' \in (clock + 1)..MaxTime /\ UNCHANGED <<log, polled, torn>>
    BY <1>7 DEF Restart, disk, history
  <2>. QED
    BY <1>2, <2>1
<1>. QED
  BY <1>3, <1>4, <1>5, <1>6, <1>7

-----------------------------------------------------------------------------
(* The invariant.                                                          *)

Accounted ==
    CutLate => \A u \in Listed : Books(AllOf(log), polled, torn, ChipsHeldBy(u))

UsageInv == Inv /\ TailTorn /\ InTime /\ Accounted

\* Every step leaves the rows the reader sees alone, or is a poll with a row or
\* one without.
LEMMA StepShape ==
    ASSUME Inv, TailTorn, InTime, [Next]_vars
    PROVE  /\ CutLate' => CutLate
           /\ TailTorn'
           /\ log.header = "whole" => log'.header = "whole"
           /\ CutLate' =>
                FileStep(AllOf(log), AllOf(log'), polled, polled', torn, torn', clock, clock')
<1>1. CASE \/ MakeFile \/ WriteHeader \/ ReadSysfs \/ RunPs \/ OpenTemp \/ Dump \/ Rename
           \/ Fail \/ Crash \/ Restart \/ UNCHANGED vars
  <2>1. /\ log'.lines = log.lines /\ log'.tail = log.tail
        /\ polled' = polled /\ torn' = torn /\ clock' \in Nat /\ clock' >= clock
        /\ log.header = "whole" => log'.header = "whole"
    BY <1>1, QuietShape
  <2>2. AllOf(log') = AllOf(log)
    BY <2>1 DEF AllOf
  <2>3. TailTorn'
    BY <2>1 DEF TailTorn
  <2>4. QuietStep(AllOf(log), AllOf(log'), polled, polled', torn, torn', clock, clock')
    BY <2>1, <2>2 DEF QuietStep
  <2>5. CutLate' => CutLate
    BY <2>1 DEF CutLate
  <2>. QED
    BY <2>1, <2>3, <2>4, <2>5 DEF FileStep
<1>2. CASE AppendRow
  <2>1. torn' = torn
    BY <1>2 DEF AppendRow
  <2>2. CutLate' => CutLate
    BY <2>1 DEF CutLate
  <2>3. log'.tail = {} /\ log'.header = log.header
    <3>1. PICK line : line = LineOf(Row)
      OBVIOUS
    <3>2. log' = [header |-> log.header, lines |-> Append(log.lines, line), tail |-> {}]
      BY <1>2, <3>1, LogExcept DEF AppendRow, Inv
    <3>. QED
      BY <3>2
  <2>4. TailTorn'
    BY <2>3 DEF TailTorn
  <2>. QED
    BY <1>2, <2>2, <2>3, <2>4, AppendRowShape
<1>3. ASSUME NEW k \in 0..NChips, TearRow(k)
      PROVE  /\ CutLate' => CutLate
             /\ TailTorn'
             /\ log.header = "whole" => log'.header = "whole"
             /\ CutLate' =>
                  FileStep(AllOf(log), AllOf(log'), polled, polled', torn, torn', clock, clock')
  <2>. DEFINE t == [ts |-> clock, users |-> Users(devices), cut |-> k]
  <2>1. torn' = torn \union {[ts |-> clock, cut |-> k]}
    BY <1>3 DEF TearRow
  <2>2. CutLate' => CutLate
    BY <2>1 DEF CutLate
  <2>3. log' = [header |-> log.header, lines |-> log.lines, tail |-> {t}]
    BY <1>3, LogExcept DEF TearRow, Inv
  <2>4. log'.header = log.header /\ log'.tail = {t}
    BY <2>3
  <2>5. TailTorn'
    <3>1. PICK x : x = [ts |-> clock, cut |-> k]
      OBVIOUS
    <3>2. x \in torn' /\ x.ts = t.ts /\ x.cut = t.cut
      BY <2>1, <3>1
    <3>. HIDE DEF t
    <3>. QED
      BY <2>4, <3>2 DEF TailTorn
  <2>6. CutLate' => FileStep(AllOf(log), AllOf(log'), polled, polled', torn, torn', clock, clock')
    BY <1>3, TearRowShape
  <2>. QED
    BY <2>2, <2>4, <2>5, <2>6
<1>4. CASE SkipRow
  <2>1. log' = log /\ torn' = torn
    BY <1>4 DEF SkipRow, disk
  <2>2. CutLate' => CutLate
    BY <2>1 DEF CutLate
  <2>3. TailTorn'
    BY <2>1 DEF TailTorn
  <2>4. CutLate => FileStep(AllOf(log), AllOf(log'), polled, polled', torn, torn', clock, clock')
    BY <1>4, SkipRowShape
  <2>. QED
    BY <2>1, <2>2, <2>3, <2>4
<1>. QED
  BY <1>1, <1>2, <1>3, <1>4 DEF Next

\* The clock starts at 1.
LEMMA ClockFacts == Inv => clock \in Nat \ {0}
BY TypesFacts DEF Inv

\* The books balance after every step, crashes and torn rows included.
THEOREM UsageInvInductive == UsageInv /\ [Next]_vars => UsageInv'
<1>. SUFFICES ASSUME UsageInv, [Next]_vars PROVE UsageInv'
  OBVIOUS
<1>1. Inv /\ TailTorn /\ InTime /\ Accounted
  BY DEF UsageInv
<1>2. Inv'
  BY <1>1, InvInductive
<1>3. /\ CutLate' => CutLate
      /\ TailTorn'
      /\ CutLate' => FileStep(AllOf(log), AllOf(log'), polled, polled', torn, torn', clock, clock')
  BY <1>1, StepShape
<1>4. clock \in Nat \ {0}
  BY <1>1, ClockFacts
<1>5. clock' \in Nat
  BY <1>2, TypesFacts DEF Inv, Types
<1>6. InTime'
  <2>1. ASSUME CutLate' PROVE Timeline(AllOf(log'), polled', torn', clock')
    <3>1. Timeline(AllOf(log), polled, torn, clock)
      BY <1>1, <1>3, <2>1 DEF InTime
    <3>. QED
      BY <1>3, <1>4, <1>5, <2>1, <3>1, TimelineStep
  <2>. QED
    BY <2>1 DEF InTime
<1>7. Accounted'
  <2>1. ASSUME CutLate', NEW u \in Listed
        PROVE  Books(AllOf(log'), polled', torn', ChipsHeldBy(u))
    <3>1. /\ Timeline(AllOf(log), polled, torn, clock)
          /\ Books(AllOf(log), polled, torn, ChipsHeldBy(u))
      BY <1>1, <1>3, <2>1 DEF InTime, Accounted
    <3>. QED
      BY <1>3, <1>4, <1>5, <2>1, <3>1, BooksStep
  <2>. QED
    BY <2>1 DEF Accounted
<1>. QED
  BY <1>2, <1>3, <1>6, <1>7 DEF UsageInv

\* They do before the first.
LEMMA UsageInitInv == Init => UsageInv
<1>. SUFFICES ASSUME Init PROVE UsageInv
  OBVIOUS
<1>1. /\ Inv /\ log.lines = <<>> /\ log.tail = {} /\ polled = <<>> /\ torn = {}
  BY InitInv DEF Init
<1>2. <<>> \in Seq(Lines) /\ Len(<<>>) = 0
  BY EmptySeq
<1>3. AllOf(log) = <<>>
  BY <1>1, <1>2, AllOfFacts
<1>4. InTime
  BY <1>1, <1>2, <1>3 DEF InTime, Timeline, Increasing
<1>5. Accounted
  BY <1>3 DEF Accounted, Books
<1>6. TailTorn
  BY <1>1 DEF TailTorn
<1>. QED
  BY <1>1, <1>4, <1>5, <1>6 DEF UsageInv

\* Hence the log accounts for every poll, in every behaviour.
THEOREM UsageInvCorrect == Spec => []UsageInv
BY UsageInitInv, UsageInvInductive, PTL DEF Spec

-----------------------------------------------------------------------------
(* What follows from it. *)

\* The time for which a torn row is in force, as a charge.
LEMMA TornTimeIsCharge ==
    ASSUME NEW rows \in Seq(Lines)
    PROVE  TornTime(rows) = Charge(rows, TornWeight(torn))
<1>1. ASSUME NEW i \in Intervals(rows)
      PROVE  Delta(rows, i) * TornWeight(torn)[rows[i]]
               = IF \E x \in torn : x.ts = rows[i].ts THEN Delta(rows, i) ELSE 0
  <2>1. i \in 1..Len(rows) /\ i + 1 \in 1..Len(rows)
    BY LenProperties DEF Intervals
  <2>2. rows[i] \in Lines /\ rows[i].ts \in Int /\ rows[i + 1].ts \in Int
    BY <2>1, IntervalsFacts
  <2>3. Delta(rows, i) \in Int
    BY <2>2 DEF Delta
  <2>4. TornWeight(torn)[rows[i]] = IF \E x \in torn : x.ts = rows[i].ts THEN 1 ELSE 0
    BY <2>2 DEF TornWeight, TornRow
  <2>5. CASE \E x \in torn : x.ts = rows[i].ts
    BY <2>3, <2>4, <2>5
  <2>6. CASE ~ \E x \in torn : x.ts = rows[i].ts
    BY <2>3, <2>4, <2>6
  <2>. QED
    BY <2>5, <2>6
<1>2. [i \in Intervals(rows) |-> Delta(rows, i) * TornWeight(torn)[rows[i]]]
         = [i \in Intervals(rows) |->
               IF \E x \in torn : x.ts = rows[i].ts THEN Delta(rows, i) ELSE 0]
  BY <1>1
<1>. QED
  BY <1>2 DEF Charge, TornTime

\* The polls up to a time are the first so many.
LEMMA UptoFacts ==
    ASSUME NEW polls \in Seq(Lines), NEW t \in Nat
    PROVE  Upto(polls, t) \in Seq(Lines)
<1>1. PICK n : n = LastUpTo(polls, t)
  OBVIOUS
<1>2. n \in 0..Len(polls) /\ Len(polls) \in Nat
  BY <1>1, LastUpToFacts, IntervalsFacts
<1>3. \A i \in 1..n : polls[i] \in Lines
  <2>1. \A i \in 1..n : i \in 1..Len(polls)
    BY <1>2
  <2>. QED
    BY <2>1, IntervalsFacts
<1>4. 1 \in Int /\ n \in Int
  BY <1>2
<1>. QED
  BY <1>1, <1>3, <1>4, SubSeqProperties DEF Upto

\* Accounting from the log is accounting from every poll, but for torn rows.
THEOREM UsageFromLogExactCorrect == Spec => []UsageFromLogExact
<1>1. ASSUME UsageInv PROVE UsageFromLogExact
  <2>. DEFINE rows    == Rows(log)
              covered == Covered(rows)
              slack   == NChips * TornTime(rows)
  <2>. SUFFICES ASSUME Whole, Len(rows) > 1, NEW u \in Listed
                PROVE  Forever(rows, u) - Forever(covered, u) \in -slack..slack
    BY DEF UsageFromLogExact
  <2>1. Inv /\ InTime /\ Accounted
    BY <1>1 DEF UsageInv
  <2>2. CutLate /\ log.header = "whole"
    BY DEF Whole, CutLate
  <2>3. log.lines \in Seq(Lines)
    BY <2>1, TypesFacts DEF Inv
  <2>4. rows = AllOf(log)
    BY <2>2, <2>3, AllOfFacts
  <2>5. Timeline(AllOf(log), polled, torn, clock)
    BY <2>1, <2>2 DEF InTime
  <2>6. Books(AllOf(log), polled, torn, ChipsHeldBy(u))
    BY <2>1, <2>2 DEF Accounted
  <2>. HIDE DEF rows
  <2>7. rows \in Seq(Lines) /\ polled \in Seq(Lines)
    BY <2>4, <2>5 DEF Timeline
  <2>8. rows # <<>>
    BY <2>7, IntervalsFacts
  <2>9. Cover(rows, polled, torn, ChipsHeldBy(u))
    BY <2>4, <2>6, <2>8 DEF Books
  <2>10. covered = Upto(polled, Latest(rows).ts)
    BY DEF Covered, Upto, Latest, Last
  <2>11. covered \in Seq(Lines)
    BY <2>7, <2>8, <2>10, IntervalsFacts, UptoFacts
  <2>12. /\ Forever(rows, u) = Charge(rows, ChipsHeldBy(u))
         /\ Forever(covered, u) = Charge(covered, ChipsHeldBy(u))
    <3>. HIDE DEF covered
    <3>. QED
      BY <2>7, <2>11, ForeverIsCharge
  <2>13. slack = Slack(rows, torn)
    BY <2>7, TornTimeIsCharge DEF Slack
  <2>14. PICK a, b, c : /\ a = Charge(rows, ChipsHeldBy(u)) /\ b = Charge(covered, ChipsHeldBy(u))
                        /\ c = Charge(rows, TornWeight(torn))
    OBVIOUS
  <2>15. a \in Int /\ b \in Int /\ c \in Int
    BY <2>7, <2>11, <2>14, ChipsFacts, WeightsAreInts, ChargeInt
  <2>16. NChips * c \in Int /\ a - b \in Int /\ slack = NChips * c
    BY <2>13, <2>14, <2>15 DEF Slack
  <2>17. - (NChips * c) <= a - b /\ a - b <= NChips * c
    BY <2>9, <2>10, <2>14 DEF Cover, Slack, Surplus
  <2>18. Forever(rows, u) - Forever(covered, u) = a - b
    BY <2>12, <2>14
  <2>19. PICK d, e : d = a - b /\ e = NChips * c
    OBVIOUS
  <2>20. d \in (-e)..e
    BY <2>16, <2>17, <2>19
  <2>. QED
    BY <2>16, <2>18, <2>19, <2>20, Zenon
<1>. QED
  BY <1>1, UsageInvCorrect, PTL

\* No step lowers a charge.
LEMMA ChargeGrows ==
    ASSUME NEW rows, NEW rs, NEW polls, NEW ps, NEW tn, NEW more,
           NEW now \in Nat, NEW later \in Nat, Timeline(rows, polls, tn, now),
           FileStep(rows, rs, polls, ps, tn, more, now, later),
           NEW W \in [Lines -> 0..NChips]
    PROVE  Charge(rs, W) >= Charge(rows, W)
<1>1. rows \in Seq(Lines) /\ W \in [Lines -> Int]
  BY WeightsAreInts DEF Timeline
<1>2. Charge(rows, W) \in Int
  BY <1>1, ChargeInt
<1>3. CASE QuietStep(rows, rs, polls, ps, tn, more, now, later)
  BY <1>2, <1>3 DEF QuietStep
<1>4. CASE PollStep(rows, rs, polls, ps, tn, more, now, later)
  <2>1. Charge(rs, W) = Charge(rows, W)
    BY <1>1, <1>4, ChargeSame DEF PollStep
  <2>. QED
    BY <1>2, <2>1
<1>5. CASE RowStep(rows, rs, polls, ps, tn, more, now, later)
  <2>1. PICK r \in Lines : rs = Append(rows, r) /\ r.ts = now
    BY <1>5 DEF RowStep
  <2>2. CASE rows = <<>>
    <3>1. Len(rows) = 0 /\ rs \in Seq(Lines) /\ Len(rs) = Len(rows) + 1
      BY <1>1, <2>1, <2>2, AppendFacts, EmptySeq
    <3>2. Len(rs) = 1
      BY <3>1
    <3>3. Charge(rs, W) = 0 /\ Charge(rows, W) = 0
      BY <1>1, <3>1, <3>2, ChargeInt
    <3>. QED
      BY <3>3
  <2>3. CASE rows # <<>>
    <3>1. PICK T, k : T = Latest(rows).ts /\ k = W[Latest(rows)]
      OBVIOUS
    <3>2. T \in Nat /\ T < now /\ k \in 0..NChips
      <4>1. Latest(rows) \in Lines /\ Latest(rows).ts \in Nat
        BY <2>3, TimelineEnds
      <4>2. Len(rows) \in 1..Len(rows)
        BY <1>1, <2>3, IntervalsFacts
      <4>3. Latest(rows).ts < now
        BY <4>2 DEF Timeline, Increasing, Latest
      <4>. QED
        BY <3>1, <4>1, <4>3
    <3>3. Charge(rs, W) = Charge(rows, W) + (now - T) * k
      BY <1>1, <2>1, <2>3, <3>1, ChargeMore
    <3>4. now - T \in Nat /\ NChips \in Nat
      BY <3>2
    <3>5. 0 <= (now - T) * k /\ (now - T) * k \in Int
      BY <3>2, <3>4, ProductBounds, Products
    <3>. QED
      BY <1>2, <3>3, <3>5
  <2>. QED
    BY <2>2, <2>3
<1>. QED
  BY <1>3, <1>4, <1>5 DEF FileStep

\* No crash, restart, full disk or later row takes anything off an account.
THEOREM AccountsNeverShrinkCorrect == Spec => AccountsNeverShrink
<1>. DEFINE Grows == log.header = "whole" /\ (\A x \in torn' : x.cut > 0) =>
          /\ Readable(log) => Readable(log')
          /\ \A u \in Listed : Forever(Rows(log'), u) >= Forever(Rows(log), u)
<1>1. ASSUME UsageInv, UsageInv', [Next]_vars PROVE Grows
  <2>1. SUFFICES ASSUME log.header = "whole", \A x \in torn' : x.cut > 0
                 PROVE  /\ Readable(log) => Readable(log')
                        /\ \A u \in Listed : Forever(Rows(log'), u) >= Forever(Rows(log), u)
    OBVIOUS
  <2>2. CutLate'
    BY <2>1 DEF CutLate
  <2>3. Inv /\ TailTorn /\ InTime /\ Inv' /\ InTime'
    BY <1>1 DEF UsageInv
  <2>4. /\ CutLate /\ log'.header = "whole"
        /\ FileStep(AllOf(log), AllOf(log'), polled, polled', torn, torn', clock, clock')
    BY <1>1, <2>1, <2>2, <2>3, StepShape
  <2>5. log.lines \in Seq(Lines) /\ log'.lines \in Seq(Lines) /\ clock \in Nat /\ clock' \in Nat
    BY <2>3, TypesFacts DEF Inv, Types
  <2>6. Rows(log) = AllOf(log) /\ Rows(log') = AllOf(log')
    BY <2>1, <2>4, <2>5, AllOfFacts
  <2>7. /\ Timeline(AllOf(log), polled, torn, clock)
        /\ Timeline(AllOf(log'), polled', torn', clock')
    BY <2>2, <2>3, <2>4 DEF InTime
  <2>8. PICK rows, rs : rows = AllOf(log) /\ rs = AllOf(log')
    OBVIOUS
  <2>9. rows \in Seq(Lines) /\ rs \in Seq(Lines)
    BY <2>7, <2>8 DEF Timeline
  <2>10. Readable(log')
    <3>1. \A i \in 1..Len(rs) : rs[i].ts # 0
      BY <2>7, <2>8 DEF Timeline, Increasing
    <3>2. DOMAIN rs = 1..Len(rs)
      BY <2>9, LenProperties
    <3>. QED
      BY <2>4, <2>6, <2>8, <3>1, <3>2 DEF Readable, Nonsense
  <2>11. ASSUME NEW u \in Listed PROVE Forever(rs, u) >= Forever(rows, u)
    <3>1. Charge(rs, ChipsHeldBy(u)) >= Charge(rows, ChipsHeldBy(u))
      BY <2>4, <2>5, <2>7, <2>8, ChipsFacts, ChargeGrows
    <3>. QED
      BY <2>9, <3>1, ForeverIsCharge
  <2>. QED
    BY <2>6, <2>8, <2>10, <2>11
<1>2. UsageInv /\ UsageInv' /\ [Next]_vars => [Grows]_log
  BY <1>1
<1>3. AccountsNeverShrink <=> [][Grows]_log
  BY DEF AccountsNeverShrink
<1>. HIDE DEF Grows
<1>. QED
  BY <1>2, <1>3, UsageInvCorrect, PTL DEF Spec

-----------------------------------------------------------------------------
(* Charges by the day, and the heatmap's. *)

\* Sums add.
LEMMA TotalSum ==
    ASSUME NEW n \in Nat, NEW d \in [1..n -> Int], NEW e \in [1..n -> Int]
    PROVE  Total([i \in 1..n |-> d[i] + e[i]]) = Total(d) + Total(e)
<1>. DEFINE s == [i \in 1..n |-> d[i] + e[i]]
<1>0. s \in [1..n -> Int] /\ \A i \in 1..n : s[i] = d[i] + e[i]
  OBVIOUS
<1>. HIDE DEF s
<1>1. PICK f : f \in Sums(n, d)
  BY SumsExist
<1>2. PICK g : g \in Sums(n, e)
  BY SumsExist
<1>3. /\ f \in [0..n -> Int] /\ f[0] = 0 /\ \A i \in 1..n : f[i] = f[i - 1] + d[i]
      /\ g \in [0..n -> Int] /\ g[0] = 0 /\ \A i \in 1..n : g[i] = g[i - 1] + e[i]
  BY <1>1, <1>2 DEF Sums
<1>. DEFINE h == [i \in 0..n |-> f[i] + g[i]]
<1>4. h \in [0..n -> Int] /\ h[0] = 0 /\ \A i \in 0..n : h[i] = f[i] + g[i]
  BY <1>3
<1>. HIDE DEF h
<1>5. ASSUME NEW i \in 1..n PROVE h[i] = h[i - 1] + s[i]
  <2>1. i \in 0..n /\ i - 1 \in 0..n
    OBVIOUS
  <2>2. /\ f[i] = f[i - 1] + d[i] /\ g[i] = g[i - 1] + e[i] /\ s[i] = d[i] + e[i]
        /\ f[i - 1] \in Int /\ g[i - 1] \in Int /\ d[i] \in Int /\ e[i] \in Int
        /\ h[i] = f[i] + g[i] /\ h[i - 1] = f[i - 1] + g[i - 1]
    BY <1>0, <1>3, <1>4, <2>1
  <2>. QED
    BY <2>2
<1>6. h \in Sums(n, s)
  BY <1>4, <1>5 DEF Sums
<1>7. Total(s) = h[n] /\ Total(d) = f[n] /\ Total(e) = g[n]
  BY <1>0, <1>1, <1>2, <1>6, TotalIs
<1>. QED
  BY <1>4, <1>7 DEF s

\* A sum is positive if a summand is and none is negative.
LEMMA TotalPositive ==
    ASSUME NEW n \in Nat, NEW d \in [1..n -> Int], \A i \in 1..n : d[i] >= 0,
           NEW k \in 1..n, d[k] > 0
    PROVE  Total(d) > 0
<1>1. PICK f : f \in Sums(n, d)
  BY SumsExist
<1>2. f \in [0..n -> Int] /\ f[0] = 0 /\ \A i \in 1..n : f[i] = f[i - 1] + d[i]
  BY <1>1 DEF Sums
<1>. DEFINE T == {m \in 0..n : ~ (f[m] >= 0 /\ (k <= m => f[m] > 0))}
<1>3. ASSUME T # {} PROVE FALSE
  <2>2. PICK m \in T : \A j \in T : m <= j
    <3>1. T \in SUBSET Nat
      OBVIOUS
    <3>. HIDE DEF T
    <3>. QED
      BY <1>3, <3>1, LeastNat
  <2>3. m # 0
    BY <1>2
  <2>4. m \in 1..n /\ m - 1 \in 0..n /\ ~ (m <= m - 1)
    BY <2>3
  <2>5. f[m - 1] >= 0 /\ (k <= m - 1 => f[m - 1] > 0)
    BY <2>2, <2>4
  <2>6. /\ f[m] = f[m - 1] + d[m] /\ f[m - 1] \in Int /\ d[m] \in Int /\ d[m] >= 0
        /\ m = k => d[m] > 0
    BY <1>2, <2>4
  <2>7. f[m] >= 0 /\ (k <= m => f[m] > 0)
    BY <2>4, <2>5, <2>6
  <2>. QED
    BY <2>2, <2>7
<1>4. n \in 0..n /\ k <= n
  OBVIOUS
<1>. QED
  BY <1>1, <1>3, <1>4, TotalIs

\* A sum of nothing but zeros.
LEMMA TotalZero ==
    ASSUME NEW n \in Nat, NEW d \in [1..n -> Int], \A i \in 1..n : d[i] = 0
    PROVE  Total(d) = 0
<1>. DEFINE f == [i \in 0..n |-> 0]
<1>1. f \in [0..n -> Int] /\ f[0] = 0 /\ f[n] = 0
      /\ \A i \in 1..n : i \in 0..n /\ i - 1 \in 0..n
  OBVIOUS
<1>2. \A i \in 1..n : f[i] = f[i - 1] + d[i]
  BY <1>1
<1>. HIDE DEF f
<1>3. f \in Sums(n, d)
  BY <1>1, <1>2 DEF Sums
<1>. QED
  BY <1>1, <1>3, TotalIs

\* What a charge adds up.
LEMMA ChargeTotal ==
    ASSUME NEW rows \in Seq(Lines)
    PROVE  \E n \in Nat :
              /\ Intervals(rows) = 1..n
              /\ \A i \in 1..n : /\ i \in 1..Len(rows) /\ i + 1 \in 1..Len(rows)
                                 /\ rows[i] \in Lines /\ Delta(rows, i) \in Int
                                 /\ rows[i].ts \in Nat /\ rows[i + 1].ts \in Nat
<1>. DEFINE n == IF rows = <<>> THEN 0 ELSE Len(rows) - 1
<1>1. /\ n \in Nat /\ Intervals(rows) = 1..n
      /\ \A i \in 1..n : i \in 1..Len(rows) /\ i + 1 \in 1..Len(rows)
  <2>1. CASE rows = <<>>
    <3>1. n = 0 /\ Len(rows) = 0 /\ Intervals(rows) = 1..0
      BY <2>1, IntervalsFacts
    <3>. QED
      BY <3>1
  <2>2. CASE rows # <<>>
    <3>1. /\ n = Len(rows) - 1 /\ n \in Nat /\ Intervals(rows) = 1..n
          /\ Len(rows) \in Nat /\ Len(rows) # 0
      BY <2>2, IntervalsFacts
    <3>. HIDE DEF n
    <3>. QED
      BY <3>1
  <2>. QED
    BY <2>1, <2>2
<1>. HIDE DEF n
<1>2. ASSUME NEW i \in 1..n
      PROVE  /\ rows[i] \in Lines /\ Delta(rows, i) \in Int
             /\ rows[i].ts \in Nat /\ rows[i + 1].ts \in Nat
  <2>1. i \in 1..Len(rows) /\ i + 1 \in 1..Len(rows)
    BY <1>1
  <2>2. \A j \in 1..Len(rows) : rows[j] \in Lines /\ rows[j].ts \in Nat
    BY IntervalsFacts
  <2>3. /\ rows[i] \in Lines /\ rows[i].ts \in Nat /\ rows[i + 1].ts \in Nat
    BY <2>1, <2>2
  <2>. QED
    BY <2>3 DEF Delta
<1>. QED
  BY <1>1, <1>2

\* Charges add.
LEMMA ChargeSum ==
    ASSUME NEW rows \in Seq(Lines), NEW W \in [Lines -> Int], NEW V \in [Lines -> Int],
           NEW U \in [Lines -> Int], \A row \in Lines : U[row] = W[row] + V[row]
    PROVE  Charge(rows, U) = Charge(rows, W) + Charge(rows, V)
<1>1. PICK n \in Nat :
         /\ Intervals(rows) = 1..n
         /\ \A i \in 1..n : rows[i] \in Lines /\ Delta(rows, i) \in Int
  BY ChargeTotal
<1>. DEFINE w == [i \in Intervals(rows) |-> Delta(rows, i) * W[rows[i]]]
            v == [i \in Intervals(rows) |-> Delta(rows, i) * V[rows[i]]]
            u == [i \in Intervals(rows) |-> Delta(rows, i) * U[rows[i]]]
<1>2. ASSUME NEW i \in 1..n
      PROVE  /\ Delta(rows, i) * W[rows[i]] \in Int
             /\ Delta(rows, i) * V[rows[i]] \in Int
             /\ Delta(rows, i) * U[rows[i]] \in Int
             /\ Delta(rows, i) * U[rows[i]]
                   = Delta(rows, i) * W[rows[i]] + Delta(rows, i) * V[rows[i]]
  <2>1. PICK t, x, y, z : t = Delta(rows, i) /\ x = W[rows[i]] /\ y = V[rows[i]] /\ z = U[rows[i]]
    OBVIOUS
  <2>2. t \in Int /\ x \in Int /\ y \in Int /\ z = x + y
    BY <1>1, <2>1
  <2>3. t * x \in Int /\ t * y \in Int /\ t * (x + y) = t * x + t * y
    BY <2>2
  <2>4. t * z = t * x + t * y /\ t * z \in Int
    BY <2>2, <2>3
  <2>. QED
    BY <2>1, <2>3, <2>4
<1>3. w \in [1..n -> Int] /\ v \in [1..n -> Int] /\ u \in [1..n -> Int]
      /\ \A i \in 1..n : u[i] = w[i] + v[i]
  BY <1>1, <1>2
<1>4. Charge(rows, U) = Total(u) /\ Charge(rows, W) = Total(w) /\ Charge(rows, V) = Total(v)
  BY DEF Charge
<1>5. PICK d, e, s : d = w /\ e = v /\ s = u
  OBVIOUS
<1>. HIDE DEF u, v, w
<1>6. /\ n \in Nat /\ d \in [1..n -> Int] /\ e \in [1..n -> Int] /\ s \in [1..n -> Int]
      /\ \A i \in 1..n : s[i] = d[i] + e[i]
  BY <1>1, <1>3, <1>5, Zenon
<1>7. Total([i \in 1..n |-> d[i] + e[i]]) = Total(d) + Total(e)
  BY <1>6, TotalSum, Zenon
<1>8. s = [i \in 1..n |-> d[i] + e[i]]
  BY <1>6
<1>. QED
  BY <1>4, <1>5, <1>7, <1>8, Zenon

\* A charge depends on the weights of the rows with an interval only.
LEMMA ChargeOver ==
    ASSUME NEW rows, NEW W, NEW V, \A i \in Intervals(rows) : W[rows[i]] = V[rows[i]]
    PROVE  Charge(rows, W) = Charge(rows, V)
<1>1. [i \in Intervals(rows) |-> Delta(rows, i) * W[rows[i]]]
         = [i \in Intervals(rows) |-> Delta(rows, i) * V[rows[i]]]
  OBVIOUS
<1>. QED
  BY <1>1 DEF Charge

\* The weight W on one day.
OnDay(day, W) == [row \in Lines |-> IF DayOf(row.ts) = day THEN W[row] ELSE 0]

OnDayCharge(rows, day, W) ==
    Total([i \in Intervals(rows) |->
        IF DayOf(rows[i].ts) = day THEN Delta(rows, i) * W[rows[i]] ELSE 0])

\* Summing over a day's intervals is charging the day's weight.
LEMMA OnDayIsCharge ==
    ASSUME NEW rows \in Seq(Lines), NEW W \in [Lines -> Int], NEW day
    PROVE  /\ OnDay(day, W) \in [Lines -> Int]
           /\ OnDayCharge(rows, day, W) = Charge(rows, OnDay(day, W))
<1>1. PICK n \in Nat :
         /\ Intervals(rows) = 1..n
         /\ \A i \in 1..n : rows[i] \in Lines /\ Delta(rows, i) \in Int
  BY ChargeTotal
<1>2. ASSUME NEW i \in Intervals(rows)
      PROVE  Delta(rows, i) * OnDay(day, W)[rows[i]]
               = IF DayOf(rows[i].ts) = day THEN Delta(rows, i) * W[rows[i]] ELSE 0
  <2>1. /\ rows[i] \in Lines /\ Delta(rows, i) \in Int
        /\ OnDay(day, W)[rows[i]] = IF DayOf(rows[i].ts) = day THEN W[rows[i]] ELSE 0
    BY <1>1 DEF OnDay
  <2>2. \A x \in Int : x * 0 = 0
    OBVIOUS
  <2>3. CASE DayOf(rows[i].ts) = day
    BY <2>1, <2>3
  <2>4. CASE DayOf(rows[i].ts) # day
    BY <2>1, <2>2, <2>4
  <2>. QED
    BY <2>3, <2>4
<1>3. [i \in Intervals(rows) |-> Delta(rows, i) * OnDay(day, W)[rows[i]]]
         = [i \in Intervals(rows) |->
               IF DayOf(rows[i].ts) = day THEN Delta(rows, i) * W[rows[i]] ELSE 0]
  BY <1>2
<1>4. OnDay(day, W) \in [Lines -> Int]
  BY DEF OnDay
<1>. QED
  BY <1>3, <1>4 DEF Charge, OnDayCharge

\* The sums of both tools for one day.
LEMMA DailyIsCharge ==
    ASSUME NEW rows \in Seq(Lines), NEW day, NEW u
    PROVE  Daily(rows, day, u) = Charge(rows, OnDay(day, ChipsHeldBy(u)))
<1>1. ChipsHeldBy(u) \in [Lines -> Int]
  BY ChipsFacts, WeightsAreInts
<1>2. ASSUME NEW i \in Intervals(rows) PROVE ChipsHeldBy(u)[rows[i]] = ChipsOf(rows[i], u)
  <2>1. rows[i] \in Lines
    BY ChargeTotal
  <2>. QED
    BY <2>1 DEF ChipsHeldBy
<1>3. Daily(rows, day, u) = OnDayCharge(rows, day, ChipsHeldBy(u))
  <2>1. [i \in Intervals(rows) |->
           IF DayOf(rows[i].ts) = day THEN Delta(rows, i) * ChipsOf(rows[i], u) ELSE 0]
        = [i \in Intervals(rows) |->
           IF DayOf(rows[i].ts) = day THEN Delta(rows, i) * ChipsHeldBy(u)[rows[i]] ELSE 0]
    BY <1>2
  <2>. QED
    BY <2>1 DEF Daily, DayOfStart, OnDayCharge
<1>. QED
  BY <1>1, <1>3, OnDayIsCharge

\* Chips held by anybody in S.
HeldAmong(S) == [row \in Lines |-> Cardinality({c \in Columns : row.users[c] \in S})]
Used    == [row \in Lines |-> UsedChips(row)]
AllChips == [row \in Lines |-> NChips]

\* A node has finitely many chips.
LEMMA ColumnsFinite ==
    /\ IsFiniteSet(Columns) /\ Cardinality(Columns) = NChips /\ NChips \in Int
    /\ \A S \in SUBSET Columns : IsFiniteSet(S) /\ Cardinality(S) \in Int
<1>1. IsFiniteSet(1..NChips) /\ Cardinality(1..NChips) = IF 1 > NChips THEN 0 ELSE NChips - 1 + 1
  <2>1. 1 \in Int /\ NChips \in Int
    OBVIOUS
  <2>. QED
    BY <2>1, FS_Interval, Zenon
<1>2. ~ (1 > NChips) /\ NChips - 1 + 1 = NChips /\ NChips \in Int
  OBVIOUS
<1>3. IsFiniteSet(Columns) /\ Cardinality(Columns) = NChips
  BY <1>1, <1>2, Zenon DEF Columns
<1>4. ASSUME NEW S \in SUBSET Columns PROVE IsFiniteSet(S) /\ Cardinality(S) \in Int
  <2>1. IsFiniteSet(S)
    BY <1>3, FS_Subset, Zenon
  <2>2. Cardinality(S) \in Nat
    BY <2>1, FS_CardinalityType, Zenon
  <2>. QED
    BY <2>1, <2>2
<1>. QED
  BY <1>2, <1>3, <1>4

\* Two disjoint sets of users.
LEMMA HeldTogether ==
    ASSUME NEW S, NEW T, S \cap T = {}, NEW row \in Lines
    PROVE  HeldAmong(S \union T)[row] = HeldAmong(S)[row] + HeldAmong(T)[row]
<1>. DEFINE A == {c \in Columns : row.users[c] \in S}
            B == {c \in Columns : row.users[c] \in T}
            C == {c \in Columns : row.users[c] \in S \union T}
<1>1. A \in SUBSET Columns /\ B \in SUBSET Columns /\ C = A \union B /\ A \cap B = {}
  OBVIOUS
<1>. HIDE DEF A, B, C
<1>2. /\ IsFiniteSet(A) /\ IsFiniteSet(B)
      /\ Cardinality(A) \in Int /\ Cardinality(B) \in Int
  BY <1>1, ColumnsFinite, Zenon
<1>3. Cardinality(A \union B) = Cardinality(A) + Cardinality(B) - Cardinality(A \cap B)
  BY <1>2, FS_Union, Zenon
<1>4. Cardinality(A \cap B) = 0
  BY <1>1, FS_EmptySet, Zenon
<1>5. Cardinality(A \union B) = Cardinality(A) + Cardinality(B)
  BY <1>2, <1>3, <1>4
<1>6. Cardinality(C) = Cardinality(A) + Cardinality(B)
  BY <1>1, <1>5, Zenon
<1>7. /\ HeldAmong(S \union T)[row] = Cardinality(C)
      /\ HeldAmong(S)[row] = Cardinality(A) /\ HeldAmong(T)[row] = Cardinality(B)
  BY DEF HeldAmong, A, B, C
<1>. QED
  BY <1>6, <1>7

\* What tpu-heatmap shows for a day is a charge too.
LEMMA HeatIsCharge ==
    ASSUME NEW rows \in Seq(Lines), NEW day
    PROVE  /\ HeatTotal(rows, day) = Charge(rows, OnDay(day, AllChips))
           /\ HeatUsed(rows, day) = Charge(rows, OnDay(day, Used))
           /\ AllChips \in [Lines -> Int] /\ Used \in [Lines -> Int]
<1>1. AllChips \in [Lines -> Int]
  BY DEF AllChips
<1>2. Used \in [Lines -> Int]
  <2>1. ASSUME NEW row \in Lines PROVE UsedChips(row) \in Int
    <3>1. {c \in Columns : row.users[c] # NoUser} \in SUBSET Columns
      OBVIOUS
    <3>. QED
      BY <3>1, ColumnsFinite, Zenon DEF UsedChips
  <2>. QED
    BY <2>1 DEF Used
<1>3. ASSUME NEW i \in Intervals(rows)
      PROVE  Used[rows[i]] = UsedChips(rows[i]) /\ AllChips[rows[i]] = NChips
  <2>1. rows[i] \in Lines
    BY ChargeTotal
  <2>. QED
    BY <2>1 DEF Used, AllChips
<1>4. HeatTotal(rows, day) = OnDayCharge(rows, day, AllChips)
  <2>1. [i \in Intervals(rows) |->
           IF DayOf(rows[i].ts) = day THEN Delta(rows, i) * NChips ELSE 0]
        = [i \in Intervals(rows) |->
           IF DayOf(rows[i].ts) = day THEN Delta(rows, i) * AllChips[rows[i]] ELSE 0]
    BY <1>3
  <2>. QED
    BY <2>1 DEF HeatTotal, OnDayCharge
<1>5. HeatUsed(rows, day) = OnDayCharge(rows, day, Used)
  <2>1. [i \in Intervals(rows) |->
           IF DayOf(rows[i].ts) = day THEN Delta(rows, i) * UsedChips(rows[i]) ELSE 0]
        = [i \in Intervals(rows) |->
           IF DayOf(rows[i].ts) = day THEN Delta(rows, i) * Used[rows[i]] ELSE 0]
    BY <1>3
  <2>. QED
    BY <2>1 DEF HeatUsed, OnDayCharge
<1>. QED
  BY <1>1, <1>2, <1>4, <1>5, OnDayIsCharge

\* What is not used is idle.
LEMMA IdleIsRest ==
    ASSUME NEW rows \in Seq(Lines), NEW day
    PROVE  HeatTotal(rows, day) = HeatUsed(rows, day) + Daily(rows, day, NoUser)
<1>1. /\ AllChips \in [Lines -> Int] /\ Used \in [Lines -> Int]
      /\ ChipsHeldBy(NoUser) \in [Lines -> Int]
  BY HeatIsCharge, ChipsFacts, WeightsAreInts
<1>2. /\ OnDay(day, AllChips) \in [Lines -> Int] /\ OnDay(day, Used) \in [Lines -> Int]
      /\ OnDay(day, ChipsHeldBy(NoUser)) \in [Lines -> Int]
  BY <1>1, OnDayIsCharge
<1>3. ASSUME NEW row \in Lines
      PROVE  NChips = UsedChips(row) + ChipsOf(row, NoUser)
             /\ UsedChips(row) \in Int /\ ChipsOf(row, NoUser) \in Int
  <2>. DEFINE A == {c \in Columns : row.users[c] # NoUser}
              B == {c \in Columns : row.users[c] = NoUser}
  <2>1. A \in SUBSET Columns /\ B \in SUBSET Columns /\ Columns = A \union B /\ A \cap B = {}
    OBVIOUS
  <2>2. UsedChips(row) = Cardinality(A) /\ ChipsOf(row, NoUser) = Cardinality(B)
    BY DEF UsedChips, ChipsOf
  <2>. HIDE DEF A, B
  <2>3. /\ IsFiniteSet(A) /\ IsFiniteSet(B)
        /\ Cardinality(A) \in Int /\ Cardinality(B) \in Int
    BY <2>1, ColumnsFinite, Zenon
  <2>4. Cardinality(A \union B) = Cardinality(A) + Cardinality(B) - Cardinality(A \cap B)
    BY <2>3, FS_Union, Zenon
  <2>5. Cardinality(A \cap B) = 0
    BY <2>1, FS_EmptySet, Zenon
  <2>6. Cardinality(A \union B) = NChips
    BY <2>1, ColumnsFinite, Zenon
  <2>. QED
    BY <2>2, <2>3, <2>4, <2>5, <2>6
<1>4. ASSUME NEW row \in Lines
      PROVE  OnDay(day, AllChips)[row] = OnDay(day, Used)[row] + OnDay(day, ChipsHeldBy(NoUser))[row]
  <2>1. AllChips[row] = Used[row] + ChipsHeldBy(NoUser)[row]
    BY <1>3 DEF AllChips, Used, ChipsHeldBy
  <2>. QED
    BY <2>1 DEF OnDay
<1>5. PICK W, V, U : /\ W = OnDay(day, Used) /\ V = OnDay(day, ChipsHeldBy(NoUser))
                     /\ U = OnDay(day, AllChips)
  OBVIOUS
<1>6. Charge(rows, U) = Charge(rows, W) + Charge(rows, V)
  <2>1. /\ W \in [Lines -> Int] /\ V \in [Lines -> Int] /\ U \in [Lines -> Int]
        /\ \A row \in Lines : U[row] = W[row] + V[row]
    BY <1>2, <1>4, <1>5, Zenon
  <2>. QED
    BY <2>1, ChargeSum, Zenon
<1>. QED
  BY <1>5, <1>6, HeatIsCharge, DailyIsCharge, Zenon

-----------------------------------------------------------------------------
(* The names of a leaderboard, and the days. *)

\* What SetToSeq makes of a finite set.
LEMMA SetToSeqFacts ==
    ASSUME NEW S, IsFiniteSet(S)
    PROVE  /\ Cardinality(S) \in Nat
           /\ SetToSeq(S) \in [1..Cardinality(S) -> S]
           /\ \A i, j \in 1..Cardinality(S) : SetToSeq(S)[i] = SetToSeq(S)[j] => i = j
           /\ \A x \in S : \E i \in 1..Cardinality(S) : SetToSeq(S)[i] = x
<1>1. Cardinality(S) \in Nat /\ ExistsBijection(1..Cardinality(S), S)
  BY FS_CardinalityType
<1>2. PICK n \in Nat : n = Cardinality(S)
  BY <1>1
<1>3. PICK f : f \in [1..n -> S] /\ IsInjective(f)
  BY <1>1, <1>2, Zenon DEF ExistsBijection, Bijection, Injection
<1>4. PICK g : g = SetToSeq(S)
  OBVIOUS
<1>5. g \in [1..n -> S] /\ IsInjective(g)
  BY <1>2, <1>3, <1>4, Zenon DEF SetToSeq
<1>6. g \in Injection(1..n, S)
  BY <1>5, Zenon DEF Injection
<1>7. Cardinality(1..n) = n
  <2>1. 1 \in Int /\ n \in Int /\ (IF 1 > n THEN 0 ELSE n - 1 + 1) = n
    BY <1>2
  <2>2. Cardinality(1..n) = IF 1 > n THEN 0 ELSE n - 1 + 1
    BY <2>1, FS_Interval, Zenon
  <2>. QED
    BY <2>1, <2>2
<1>8. g \in Surjection(1..n, S)
  BY <1>2, <1>6, <1>7, FS_Injection, Zenon
<1>9. \A x \in S : \E i \in 1..n : g[i] = x
  BY <1>8, Zenon DEF Surjection
<1>10. \A i, j \in 1..n : g[i] = g[j] => i = j
  <2>1. DOMAIN g = 1..n
    BY <1>5
  <2>. QED
    BY <1>5, <2>1, Zenon DEF IsInjective
<1>. QED
  BY <1>1, <1>2, <1>4, <1>5, <1>9, <1>10, Zenon

\* The names on a leaderboard are finitely many.
LEMMA NamesFinite ==
    ASSUME NEW rows \in Seq(Lines)
    PROVE  IsFiniteSet(Names(rows))
<1>1. PICK n \in Nat :
         /\ Intervals(rows) = 1..n
         /\ \A i \in 1..n : rows[i] \in Lines
  BY ChargeTotal
<1>2. IsFiniteSet(1..n)
  <2>1. 1 \in Int /\ n \in Int
    BY <1>1
  <2>. QED
    BY <2>1, FS_Interval, Zenon
<1>3. ASSUME NEW i \in 1..n PROVE IsFiniteSet(Range(rows[i].users))
  <2>1. PICK f : f = rows[i].users
    OBVIOUS
  <2>2. DOMAIN f = Columns
    BY <1>1, <2>1 DEF Lines, UserRow, Chips
  <2>3. f \in Surjection(Columns, Range(f))
    <3>1. f = [c \in Columns |-> f[c]]
      BY <1>1, <2>1, <2>2 DEF Lines, UserRow, Chips
    <3>2. \A c \in Columns : f[c] \in Range(f)
      BY <2>2 DEF Range
    <3>3. f \in [Columns -> Range(f)]
      BY <3>1, <3>2
    <3>4. \A t \in Range(f) : \E c \in Columns : f[c] = t
      BY <2>2 DEF Range
    <3>. QED
      BY <3>3, <3>4 DEF Surjection
  <2>4. IsFiniteSet(Range(f))
    BY <2>3, ColumnsFinite, FS_Surjection, Zenon
  <2>. QED
    BY <2>1, <2>4, Zenon
<1>. DEFINE all == {Range(rows[i].users) : i \in 1..n}
            e   == [i \in 1..n |-> Range(rows[i].users)]
<1>4. e \in Surjection(1..n, all)
  <2>1. e \in [1..n -> all] /\ \A t \in all : \E i \in 1..n : e[i] = t
    OBVIOUS
  <2>. HIDE DEF e, all
  <2>. QED
    BY <2>1, Zenon DEF Surjection
<1>5. \A T \in all : IsFiniteSet(T)
  BY <1>3
<1>6. UNION {Range(rows[i].users) : i \in Intervals(rows)} = UNION all
  BY <1>1
<1>. HIDE DEF all, e
<1>7. IsFiniteSet(all)
  BY <1>2, <1>4, FS_Surjection, Zenon
<1>8. IsFiniteSet(UNION all)
  BY <1>5, <1>7, FS_UNION, Zenon
<1>9. Names(rows) = (UNION {Range(rows[i].users) : i \in Intervals(rows)}) \ {NoUser}
  BY Zenon DEF Names
<1>10. Names(rows) \in SUBSET (UNION all)
  BY <1>6, <1>9
<1>. QED
  BY <1>8, <1>10, FS_Subset, Zenon

\* The leaderboard's sum, name by name.
LEMMA LeaderboardSum ==
    ASSUME NEW rows \in Seq(Lines), NEW day
    PROVE  TotalOver(Names(rows), [u \in Names(rows) |-> Daily(rows, day, u)])
              = HeatUsed(rows, day)
<1>1. PICK S : S = Names(rows)
  OBVIOUS
<1>2. PICK all, n : all = SetToSeq(S) /\ n = Cardinality(S)
  OBVIOUS
<1>3. /\ n \in Nat /\ all \in [1..n -> S]
      /\ \A i, j \in 1..n : all[i] = all[j] => i = j
      /\ \A x \in S : \E i \in 1..n : all[i] = x
  <2>1. IsFiniteSet(S)
    BY <1>1, NamesFinite
  <2>. QED
    BY <1>2, <2>1, SetToSeqFacts, Zenon
<1>. DEFINE First(k) == {all[i] : i \in 1..k}
            W(k) == OnDay(day, HeldAmong(First(k)))
            g == [k \in 0..n |-> Charge(rows, W(k))]
            d == [k \in 1..n |-> Daily(rows, day, all[k])]
<1>4. ASSUME NEW T PROVE HeldAmong(T) \in [Lines -> Int]
  <2>1. ASSUME NEW row \in Lines PROVE Cardinality({c \in Columns : row.users[c] \in T}) \in Int
    <3>1. {c \in Columns : row.users[c] \in T} \in SUBSET Columns
      OBVIOUS
    <3>. QED
      BY <3>1, ColumnsFinite, Zenon
  <2>. QED
    BY <2>1 DEF HeldAmong
<1>5. ASSUME NEW T PROVE OnDay(day, HeldAmong(T)) \in [Lines -> Int]
  BY <1>4, OnDayIsCharge
<1>6. ASSUME NEW T PROVE Charge(rows, OnDay(day, HeldAmong(T))) \in Int
  BY <1>5, ChargeInt
<1>7. Charge(rows, W(0)) = 0
  <2>1. First(0) = {}
    OBVIOUS
  <2>2. ASSUME NEW row \in Lines PROVE HeldAmong({})[row] = 0
    <3>1. {c \in Columns : row.users[c] \in {}} = {}
      OBVIOUS
    <3>2. HeldAmong({})[row] = Cardinality({c \in Columns : row.users[c] \in {}})
      BY DEF HeldAmong
    <3>. QED
      BY <3>1, <3>2, FS_EmptySet
  <2>3. PICK V : V = OnDay(day, HeldAmong({}))
    OBVIOUS
  <2>4. V \in [Lines -> Int] /\ \A row \in Lines : V[row] = 0
    BY <1>5, <2>2, <2>3 DEF OnDay
  <2>5. \A row \in Lines : V[row] = V[row] + V[row]
    BY <2>4
  <2>6. Charge(rows, V) = Charge(rows, V) + Charge(rows, V)
    BY <2>4, <2>5, ChargeSum, Zenon
  <2>7. Charge(rows, V) \in Int
    BY <2>4, ChargeInt
  <2>8. Charge(rows, V) = 0
    BY <2>6, <2>7
  <2>. QED
    BY <2>1, <2>3, <2>8
<1>8. ASSUME NEW k \in 1..n
      PROVE  /\ Charge(rows, W(k)) = Charge(rows, W(k - 1)) + Daily(rows, day, all[k])
             /\ Daily(rows, day, all[k]) \in Int
  <2>1. First(k) = First(k - 1) \union {all[k]}
    <3>1. \A i : i \in 1..k <=> i \in 1..(k - 1) \/ i = k
      OBVIOUS
    <3>. QED
      BY <3>1, Zenon
  <2>2. First(k - 1) \cap {all[k]} = {}
    <3>1. \A i \in 1..(k - 1) : i \in 1..n /\ i # k
      BY <1>3
    <3>2. ASSUME NEW i \in 1..(k - 1), all[i] = all[k] PROVE FALSE
      BY <1>3, <3>1, <3>2
    <3>. QED
      BY <3>2, Zenon
  <2>. HIDE DEF First
  <2>3. ASSUME NEW row \in Lines
        PROVE  OnDay(day, HeldAmong(First(k)))[row]
                 = OnDay(day, HeldAmong(First(k - 1)))[row] + OnDay(day, ChipsHeldBy(all[k]))[row]
    <3>1. HeldAmong(First(k))[row] = HeldAmong(First(k - 1))[row] + HeldAmong({all[k]})[row]
      <4>1. PICK A, B, C : A = First(k - 1) /\ B = {all[k]} /\ C = First(k)
        OBVIOUS
      <4>2. C = A \union B /\ A \cap B = {}
        BY <2>1, <2>2, <4>1, Zenon
      <4>3. HeldAmong(A \union B)[row] = HeldAmong(A)[row] + HeldAmong(B)[row]
        BY <4>2, HeldTogether
      <4>4. HeldAmong(C)[row] = HeldAmong(A)[row] + HeldAmong(B)[row]
        BY <4>2, <4>3
      <4>. QED
        BY <4>1, <4>4, Zenon
    <3>2. HeldAmong({all[k]})[row] = ChipsHeldBy(all[k])[row]
      <4>1. {c \in Columns : row.users[c] \in {all[k]}} = {c \in Columns : row.users[c] = all[k]}
        OBVIOUS
      <4>. QED
        BY <4>1 DEF HeldAmong, ChipsHeldBy, ChipsOf
    <3>. QED
      BY <3>1, <3>2 DEF OnDay
  <2>4. ChipsHeldBy(all[k]) \in [Lines -> Int]
    BY ChipsFacts, WeightsAreInts
  <2>5. PICK U, V, X : /\ U = OnDay(day, HeldAmong(First(k)))
                       /\ V = OnDay(day, HeldAmong(First(k - 1)))
                       /\ X = OnDay(day, ChipsHeldBy(all[k]))
    OBVIOUS
  <2>6. /\ U \in [Lines -> Int] /\ V \in [Lines -> Int] /\ X \in [Lines -> Int]
        /\ \A row \in Lines : U[row] = V[row] + X[row]
    BY <1>5, <2>3, <2>4, <2>5, OnDayIsCharge
  <2>7. Charge(rows, U) = Charge(rows, V) + Charge(rows, X)
    BY <2>6, ChargeSum, Zenon
  <2>8. Charge(rows, X) = Daily(rows, day, all[k]) /\ Charge(rows, X) \in Int
    BY <2>5, <2>6, DailyIsCharge, ChargeInt
  <2>. QED
    BY <2>5, <2>7, <2>8
<1>9. HeatUsed(rows, day) = Charge(rows, W(n))
  <2>1. First(n) = S
    BY <1>3
  <2>2. ASSUME NEW i \in Intervals(rows)
        PROVE  OnDay(day, Used)[rows[i]] = OnDay(day, HeldAmong(S))[rows[i]]
    <3>1. rows[i] \in Lines
      BY ChargeTotal
    <3>2. \A c \in Columns : rows[i].users[c] \in Range(rows[i].users)
      BY <3>1 DEF Lines, UserRow, Chips, Range
    <3>3. ASSUME NEW c \in Columns
          PROVE  rows[i].users[c] # NoUser <=> rows[i].users[c] \in S
      <4>1. \A x : x \in Names(rows)
                   <=> x # NoUser /\ \E j \in Intervals(rows) : x \in Range(rows[j].users)
        BY DEF Names
      <4>. QED
        BY <1>1, <3>2, <4>1, Zenon
    <3>4. UsedChips(rows[i]) = Cardinality({c \in Columns : rows[i].users[c] \in S})
      <4>1. {c \in Columns : rows[i].users[c] # NoUser} = {c \in Columns : rows[i].users[c] \in S}
        BY <3>3
      <4>. QED
        BY <4>1 DEF UsedChips
    <3>. QED
      BY <3>1, <3>4 DEF OnDay, Used, HeldAmong
  <2>3. Charge(rows, OnDay(day, Used)) = Charge(rows, OnDay(day, HeldAmong(S)))
    BY <2>2, ChargeOver
  <2>. QED
    BY <2>1, <2>3, HeatIsCharge
<1>. HIDE DEF W
<1>10. g \in [0..n -> Int] /\ g[0] = 0 /\ d \in [1..n -> Int]
       /\ \A k \in 1..n : g[k] = g[k - 1] + d[k]
  <2>1. \A k \in 0..n : Charge(rows, W(k)) \in Int
    BY <1>6 DEF W
  <2>2. 0 \in 0..n /\ \A k \in 1..n : k \in 0..n /\ k - 1 \in 0..n
    BY <1>3
  <2>. QED
    BY <1>7, <1>8, <2>1, <2>2
<1>11. TotalOver(Names(rows), [u \in Names(rows) |-> Daily(rows, day, u)]) = Total(d)
  <2>1. DOMAIN all = 1..n /\ \A k \in 1..n : all[k] \in S
    BY <1>3
  <2>2. PICK f : f = [u \in S |-> Daily(rows, day, u)]
    OBVIOUS
  <2>3. [k \in DOMAIN all |-> f[all[k]]] = d
    BY <2>1, <2>2
  <2>. HIDE DEF d
  <2>4. TotalOver(S, f) = Total([k \in DOMAIN all |-> f[all[k]]])
    BY <1>2, Zenon DEF TotalOver
  <2>5. TotalOver(S, f) = Total(d)
    BY <2>3, <2>4, Zenon
  <2>. QED
    BY <1>1, <2>2, <2>5, Zenon
<1>12. g[n] = Charge(rows, W(n))
  BY <1>3
<1>. HIDE DEF d, g
<1>13. g \in Sums(n, d)
  BY <1>10 DEF Sums
<1>14. Total(d) = g[n]
  BY <1>3, <1>10, <1>13, TotalIs
<1>. QED
  BY <1>9, <1>11, <1>12, <1>14

\* Days are numbered in the order of time.
LEMMA DayFacts ==
    ASSUME NEW a \in Nat
    PROVE  /\ DayOf(a) \in Nat
           /\ \A b \in Nat : a <= b => DayOf(a) <= DayOf(b)
<1>1. PICK n \in Nat \ {0} : n = DayLength
  OBVIOUS
<1>2. a \div n \in Nat
  BY <1>1
<1>3. ASSUME NEW b \in Nat, a <= b PROVE a \div n <= b \div n
  BY <1>1, <1>3
<1>. QED
  BY <1>1, <1>2, <1>3 DEF DayOf

\* Time passes in every interval, so both tools show the days of all of them.
LEMMA SameDays ==
    ASSUME NEW rows \in Seq(Lines), NEW now \in Nat, Increasing(rows, now)
    PROVE  HeatDays(rows, DayOf(now)) = UsageDays(rows)
<1>1. PICK n \in Nat :
         /\ Intervals(rows) = 1..n
         /\ \A i \in 1..n : /\ i \in 1..Len(rows) /\ i + 1 \in 1..Len(rows)
                            /\ rows[i] \in Lines /\ Delta(rows, i) \in Int
                            /\ rows[i].ts \in Nat /\ rows[i + 1].ts \in Nat
  BY ChargeTotal
<1>2. ASSUME NEW i \in 1..n PROVE Delta(rows, i) * NChips \in Int /\ Delta(rows, i) * NChips > 0
  <2>1. rows[i].ts < rows[i + 1].ts
    <3>1. i < i + 1
      OBVIOUS
    <3>. QED
      BY <1>1, <3>1 DEF Increasing
  <2>2. Delta(rows, i) \in Int /\ Delta(rows, i) > 0
    BY <1>1, <2>1 DEF Delta
  <2>3. \A x, y \in Int : x > 0 /\ y > 0 => x * y \in Int /\ x * y > 0
    OBVIOUS
  <2>4. NChips \in Int /\ NChips > 0
    OBVIOUS
  <2>. QED
    BY <2>2, <2>3, <2>4
<1>3. ASSUME NEW day PROVE HeatTotal(rows, day) > 0 <=> \E i \in 1..n : DayOf(rows[i].ts) = day
  <2>. DEFINE d == [i \in 1..n |-> IF DayOf(rows[i].ts) = day THEN Delta(rows, i) * NChips ELSE 0]
  <2>1. HeatTotal(rows, day) = Total(d)
    BY <1>1 DEF HeatTotal
  <2>2. d \in [1..n -> Int] /\ \A i \in 1..n : d[i] >= 0
    BY <1>2
  <2>3. \A i \in 1..n : IF DayOf(rows[i].ts) = day THEN d[i] > 0 ELSE d[i] = 0
    BY <1>2
  <2>. HIDE DEF d
  <2>4. ASSUME NEW i \in 1..n, DayOf(rows[i].ts) = day PROVE Total(d) > 0
    BY <1>1, <2>2, <2>3, <2>4, TotalPositive
  <2>5. ASSUME \A i \in 1..n : DayOf(rows[i].ts) # day PROVE Total(d) = 0
    BY <1>1, <2>2, <2>3, <2>5, TotalZero
  <2>. QED
    BY <2>1, <2>4, <2>5
<1>4. ASSUME NEW i \in 1..n PROVE DayOf(rows[i].ts) \in 0..DayOf(now)
  <2>1. rows[i].ts \in Nat /\ rows[i].ts <= now
    BY <1>1 DEF Increasing
  <2>2. /\ DayOf(rows[i].ts) \in Nat /\ DayOf(now) \in Nat
        /\ DayOf(rows[i].ts) <= DayOf(now)
    BY <2>1, DayFacts
  <2>. QED
    BY <2>2
<1>5. UsageDays(rows) = {DayOf(rows[i].ts) : i \in 1..n}
  BY <1>1 DEF UsageDays, DayOfStart
<1>. QED
  BY <1>3, <1>4, <1>5 DEF HeatDays

\* For every log the daemon leaves, whatever was torn, the heatmap and the
\* leaderboards show the same days and the same used and idle chip-time.
THEOREM HeatmapIsUsageCorrect == Spec => []HeatmapIsUsage
<1>1. ASSUME UsageInv, Whole
      PROVE  /\ Rows(log) \in Seq(Lines) /\ clock \in Nat
             /\ Increasing(Rows(log), clock)
  <2>1. CutLate /\ log.header = "whole"
    <3>1. torn \in SUBSET [ts : Nat, cut : Nat]
      BY <1>1 DEF UsageInv, Inv, Types
    <3>2. \A x \in torn : x.cut # 0
      BY <1>1, <3>1 DEF Whole
    <3>. QED
      BY <1>1, <3>2 DEF CutLate, Whole
  <2>2. log.lines \in Seq(Lines) /\ clock \in Nat
    BY <1>1, TypesFacts DEF UsageInv, Inv, Types
  <2>3. Rows(log) = AllOf(log)
    BY <2>1, <2>2, AllOfFacts
  <2>4. Timeline(AllOf(log), polled, torn, clock)
    BY <1>1, <2>1 DEF UsageInv, InTime
  <2>. QED
    BY <2>2, <2>3, <2>4 DEF Timeline
<1>2. UsageInv => HeatmapIsUsage
  <2>. SUFFICES ASSUME UsageInv, Whole
                PROVE  /\ HeatDays(Rows(log), DayOf(clock)) = UsageDays(Rows(log))
                       /\ \A day \in UsageDays(Rows(log)) :
                            /\ HeatUsed(Rows(log), day)
                                 = TotalOver(Names(Rows(log)),
                                     [u \in Names(Rows(log)) |-> Daily(Rows(log), day, u)])
                            /\ HeatTotal(Rows(log), day)
                                 = HeatUsed(Rows(log), day) + Daily(Rows(log), day, NoUser)
    BY DEF HeatmapIsUsage
  <2>1. PICK rows : rows = Rows(log)
    OBVIOUS
  <2>2. rows \in Seq(Lines) /\ clock \in Nat /\ Increasing(rows, clock)
    BY <1>1, <2>1
  <2>3. HeatDays(rows, DayOf(clock)) = UsageDays(rows)
    BY <2>2, SameDays
  <2>4. ASSUME NEW day
        PROVE  /\ HeatUsed(rows, day)
                    = TotalOver(Names(rows), [u \in Names(rows) |-> Daily(rows, day, u)])
               /\ HeatTotal(rows, day) = HeatUsed(rows, day) + Daily(rows, day, NoUser)
    BY <2>2, LeaderboardSum, IdleIsRest, Zenon
  <2>. QED
    BY <2>1, <2>3, <2>4
<1>. QED
  BY <1>2, UsageInvCorrect, PTL

-----------------------------------------------------------------------------
(* What is charged before a day. *)

\* The weight W before a day.
Before(day, W) == [row \in Lines |-> IF DayOf(row.ts) < day THEN W[row] ELSE 0]

\* Without weights there is no charge.
LEMMA ChargeZero ==
    ASSUME NEW rows \in Seq(Lines), NEW W \in [Lines -> Int], \A row \in Lines : W[row] = 0
    PROVE  Charge(rows, W) = 0
<1>1. \A row \in Lines : W[row] = W[row] + W[row]
  OBVIOUS
<1>2. Charge(rows, W) = Charge(rows, W) + Charge(rows, W)
  BY <1>1, ChargeSum, Zenon
<1>3. Charge(rows, W) \in Int
  BY ChargeInt
<1>. QED
  BY <1>2, <1>3

\* Up to a day is before the next.
LEMMA ThroughIsCharge ==
    ASSUME NEW rows \in Seq(Lines), NEW day \in Nat, NEW u
    PROVE  Through(rows, day, u) = Charge(rows, Before(day + 1, ChipsHeldBy(u)))
<1>1. PICK W : W = ChipsHeldBy(u)
  OBVIOUS
<1>2. W \in [Lines -> Int]
  BY <1>1, ChipsFacts, WeightsAreInts
<1>3. ASSUME NEW k PROVE Before(k, W) \in [Lines -> Int]
  BY <1>2 DEF Before
<1>4. ASSUME NEW k PROVE Charge(rows, Before(k, W)) \in Int
  BY <1>3, ChargeInt
<1>5. ASSUME NEW row \in Lines PROVE DayOf(row.ts) \in Nat
  <2>1. row.ts \in Nat
    BY DEF Lines
  <2>. QED
    BY <2>1, DayFacts
<1>6. Charge(rows, Before(0, W)) = 0
  <2>1. \A row \in Lines : Before(0, W)[row] = 0
    BY <1>5 DEF Before
  <2>. QED
    BY <1>3, <2>1, ChargeZero
<1>7. ASSUME NEW k \in 1..(day + 1)
      PROVE  /\ Charge(rows, Before(k, W)) = Charge(rows, Before(k - 1, W)) + Daily(rows, k - 1, u)
             /\ Daily(rows, k - 1, u) \in Int
  <2>1. PICK A, B, C : A = Before(k, W) /\ B = Before(k - 1, W) /\ C = OnDay(k - 1, W)
    OBVIOUS
  <2>2. A \in [Lines -> Int] /\ B \in [Lines -> Int] /\ C \in [Lines -> Int]
    BY <1>2, <1>3, <2>1, OnDayIsCharge
  <2>3. ASSUME NEW row \in Lines PROVE A[row] = B[row] + C[row]
    <3>1. /\ A[row] = IF DayOf(row.ts) < k THEN W[row] ELSE 0
          /\ B[row] = IF DayOf(row.ts) < k - 1 THEN W[row] ELSE 0
          /\ C[row] = IF DayOf(row.ts) = k - 1 THEN W[row] ELSE 0
      BY <2>1 DEF Before, OnDay
    <3>2. DayOf(row.ts) \in Nat /\ W[row] \in Int /\ k \in Int
      BY <1>2, <1>5
    <3>3. CASE DayOf(row.ts) < k - 1
      BY <3>1, <3>2, <3>3
    <3>4. CASE DayOf(row.ts) = k - 1
      BY <3>1, <3>2, <3>4
    <3>5. CASE DayOf(row.ts) > k - 1
      BY <3>1, <3>2, <3>5
    <3>. QED
      BY <3>2, <3>3, <3>4, <3>5
  <2>4. Charge(rows, A) = Charge(rows, B) + Charge(rows, C)
    BY <2>2, <2>3, ChargeSum, Zenon
  <2>5. Charge(rows, C) = Daily(rows, k - 1, u) /\ Charge(rows, C) \in Int
    BY <1>1, <2>1, <2>2, DailyIsCharge, ChargeInt
  <2>. QED
    BY <2>1, <2>4, <2>5
<1>. DEFINE n == day + 1
            g == [k \in 0..n |-> Charge(rows, Before(k, W))]
            d == [k \in 1..n |-> Daily(rows, k - 1, u)]
<1>8. n \in Nat /\ g[n] = Charge(rows, Before(n, W)) /\ Through(rows, day, u) = Total(d)
  BY DEF Through
<1>9. g \in [0..n -> Int] /\ g[0] = 0 /\ d \in [1..n -> Int]
      /\ \A k \in 1..n : g[k] = g[k - 1] + d[k]
  <2>1. 0 \in 0..n /\ \A k \in 1..n : k \in 0..n /\ k - 1 \in 0..n
    OBVIOUS
  <2>. QED
    BY <1>4, <1>6, <1>7, <2>1
<1>. HIDE DEF d, g, n
<1>10. g \in Sums(n, d)
  BY <1>9 DEF Sums
<1>11. Total(d) = g[n]
  BY <1>8, <1>9, <1>10, TotalIs
<1>. QED
  BY <1>1, <1>8, <1>11 DEF n

-----------------------------------------------------------------------------
(* The balance before a day. *)

\* No two polls are further apart than gap.
Gaps(polls, gap) == \A i \in Intervals(polls) : Delta(polls, i) <= gap

\* With nothing torn, the last row names the users of the last poll.  If it was
\* written before day, the polls charged its users until e, the first poll of the
\* day if there was one; the rows have not charged them yet.  If not, what the rows
\* charge too much before day is settled.
Balance(rows, polls, day, W, gap) ==
    LET T   == Latest(rows).ts
        P   == Latest(polls).ts
        b   == Surplus(rows, polls, Before(day, W))
        max == NChips * (MaxLogWait + gap)
    IN  /\ W[Latest(polls)] = W[Latest(rows)] /\ P - T <= MaxLogWait
        /\ DayOf(T) < day =>
              \E e \in T..P : /\ b + (e - T) * W[Latest(rows)] = 0
                              /\ DayOf(P) < day => e = P
        /\ ~ (DayOf(T) < day) => 0 <= b /\ b <= max
        /\ LET c == Surplus(rows, Upto(polls, T), Before(day, W)) IN 0 <= c /\ c <= max

Midnight(rows, polls, day, W, gap) ==
    rows # <<>> /\ Gaps(polls, gap) => Balance(rows, polls, day, W, gap)

\* A row of the new day settles at most the time since the first poll of that day.
LEMMA NewDayArithmetic ==
    ASSUME NEW n \in Nat, NEW k \in 0..n, NEW b \in Int, NEW T \in Nat, NEW P \in Nat,
           NEW now \in Nat, NEW m \in Nat, NEW gap \in Nat, T <= P, P <= now,
           now - P <= gap, P - T <= m, NEW e \in T..P, b + (e - T) * k = 0
    PROVE  /\ b + (now - T) * k \in Int
           /\ 0 <= b + (now - T) * k
           /\ b + (now - T) * k <= n * (m + gap)
<1>1. now - e \in Nat /\ now - T \in Int /\ e - T \in Int /\ k \in Int
      /\ (m + gap) - (now - e) \in Nat /\ m + gap \in Nat
  OBVIOUS
<1>2. PICK x, y, z, v, w : /\ x = (now - T) * k /\ y = (e - T) * k /\ z = (now - e) * k
                           /\ v = n * (now - e) /\ w = n * (m + gap)
  OBVIOUS
<1>3. x \in Int /\ y \in Int /\ z \in Int /\ v \in Int /\ w \in Int
  BY <1>1, <1>2
<1>4. z = x - y
  BY <1>1, <1>2
<1>5. 0 <= z /\ z <= v
  BY <1>1, <1>2, ProductBounds
<1>6. v <= w
  <2>1. \A a, c \in Nat : a - c \in Nat => n * c <= n * a
    <3>1. ASSUME NEW a \in Nat, NEW c \in Nat, a - c \in Nat PROVE n * c <= n * a
      <4>1. n * (a - c) = n * a - n * c /\ n * (a - c) >= 0
        BY <3>1
      <4>. QED
        BY <4>1
    <3>. QED
      BY <3>1
  <2>. QED
    BY <1>1, <1>2, <2>1
<1>7. b + y = 0
  BY <1>2
<1>8. b + x = z
  BY <1>3, <1>4, <1>7
<1>. QED
  BY <1>2, <1>3, <1>5, <1>6, <1>8

\* A row, or a poll, before the day ends.
LEMMA OldDayArithmetic ==
    ASSUME NEW k \in Int, NEW b \in Int, NEW T \in Int, NEW P \in Int, NEW now \in Int,
           b + (P - T) * k = 0
    PROVE  /\ b + (now - T) * k - (now - P) * k = 0
           /\ b - (now - P) * k + (now - T) * k = 0
<1>1. PICK x, y, z : x = (now - T) * k /\ y = (now - P) * k /\ z = (P - T) * k
  OBVIOUS
<1>2. x \in Int /\ y \in Int /\ z \in Int /\ z = x - y
  BY <1>1
<1>3. b + z = 0
  BY <1>1
<1>. QED
  BY <1>1, <1>2, <1>3

\* The gaps of fewer polls.
LEMMA GapsMore ==
    ASSUME NEW polls \in Seq(Lines), polls # <<>>, NEW p \in Lines, NEW gap,
           Gaps(Append(polls, p), gap)
    PROVE  Gaps(polls, gap) /\ p.ts - Latest(polls).ts <= gap
<1>1. PICK ps : ps = Append(polls, p)
  OBVIOUS
<1>2. /\ ps \in Seq(Lines) /\ ps # <<>> /\ Len(ps) = Len(polls) + 1 /\ Len(polls) \in Nat
      /\ \A i \in 1..Len(polls) : ps[i] = polls[i]
      /\ ps[Len(polls) + 1] = p
  BY <1>1, AppendFacts
<1>3. PICK n \in Nat : n = Len(polls) - 1 /\ Intervals(polls) = 1..n
  BY IntervalsFacts
<1>4. Len(polls) = n + 1 /\ Len(ps) = n + 2
  BY <1>2, <1>3
<1>5. Intervals(ps) = 1..(n + 1)
  <2>1. Len(ps) - 1 = n + 1
    BY <1>4
  <2>. QED
    BY <1>2, <2>1, IntervalsFacts
<1>6. \A i \in 1..(n + 1) : Delta(ps, i) <= gap
  BY <1>1, <1>5 DEF Gaps
<1>7. ASSUME NEW i \in 1..n PROVE Delta(polls, i) <= gap
  <2>1. i \in 1..(n + 1) /\ i \in 1..Len(polls) /\ i + 1 \in 1..Len(polls)
    BY <1>4
  <2>2. Delta(polls, i) = Delta(ps, i)
    BY <1>2, <2>1 DEF Delta
  <2>. QED
    BY <1>6, <2>1, <2>2
<1>8. Delta(ps, n + 1) = p.ts - Latest(polls).ts
  <2>1. n + 1 \in 1..Len(polls) /\ n + 1 = Len(polls)
    BY <1>4
  <2>2. ps[n + 1] = Latest(polls) /\ ps[n + 1 + 1] = p
    BY <1>2, <2>1 DEF Latest
  <2>. QED
    BY <2>2 DEF Delta
<1>9. n + 1 \in 1..(n + 1)
  OBVIOUS
<1>. QED
  BY <1>3, <1>6, <1>7, <1>8, <1>9 DEF Gaps

\* What one more row or poll adds to a charge before a day.
LEMMA BeforeMore ==
    ASSUME NEW rows \in Seq(Lines), rows # <<>>, NEW r \in Lines, NEW day,
           NEW W \in [Lines -> 0..NChips]
    PROVE  /\ Charge(rows, Before(day, W)) \in Int
           /\ DayOf(Latest(rows).ts) < day =>
                 Charge(Append(rows, r), Before(day, W))
                   = Charge(rows, Before(day, W)) + (r.ts - Latest(rows).ts) * W[Latest(rows)]
           /\ ~ (DayOf(Latest(rows).ts) < day) =>
                 Charge(Append(rows, r), Before(day, W)) = Charge(rows, Before(day, W))
<1>1. PICK V : V = Before(day, W)
  OBVIOUS
<1>2. V \in [Lines -> Int]
  BY <1>1 DEF Before
<1>3. Latest(rows) \in Lines /\ Latest(rows).ts \in Int /\ r.ts \in Int
  <2>1. Latest(rows) \in Lines /\ Latest(rows).ts \in Nat
    BY IntervalsFacts
  <2>2. r.ts \in Nat
    BY DEF Lines
  <2>. QED
    BY <2>1, <2>2
<1>4. V[Latest(rows)] = IF DayOf(Latest(rows).ts) < day THEN W[Latest(rows)] ELSE 0
  BY <1>1, <1>3 DEF Before
<1>5. Charge(Append(rows, r), V) = Charge(rows, V) + (r.ts - Latest(rows).ts) * V[Latest(rows)]
  BY <1>2, ChargeMore, Zenon
<1>6. Charge(rows, V) \in Int
  BY <1>2, ChargeInt
<1>7. ASSUME DayOf(Latest(rows).ts) < day
      PROVE  Charge(Append(rows, r), V)
               = Charge(rows, V) + (r.ts - Latest(rows).ts) * W[Latest(rows)]
  BY <1>4, <1>5, <1>7, Zenon
<1>8. ASSUME ~ (DayOf(Latest(rows).ts) < day)
      PROVE  Charge(Append(rows, r), V) = Charge(rows, V)
  <2>1. V[Latest(rows)] = 0
    BY <1>4, <1>8, Zenon
  <2>2. (r.ts - Latest(rows).ts) * 0 = 0
    BY <1>3
  <2>3. Charge(Append(rows, r), V) = Charge(rows, V) + 0
    BY <1>5, <2>1, <2>2, Zenon
  <2>. QED
    BY <1>6, <2>3
<1>. QED
  BY <1>1, <1>6, <1>7, <1>8

\* A row settles what was charged before day.
LEMMA MidnightRow ==
    ASSUME NEW rows, NEW polls, NEW now \in Nat \ {0}, Timeline(rows, polls, {}, now),
           NEW W \in [Lines -> 0..NChips], NEW day \in Nat, NEW gap \in Nat,
           Midnight(rows, polls, day, W, gap), NEW r \in Lines, r.ts = now
    PROVE  Midnight(Append(rows, r), Append(polls, r), day, W, gap)
<1>1. PICK rs, ps : rs = Append(rows, r) /\ ps = Append(polls, r)
  OBVIOUS
<1>. SUFFICES ASSUME Gaps(ps, gap) PROVE Balance(rs, ps, day, W, gap)
  BY <1>1 DEF Midnight
<1>2. rows \in Seq(Lines) /\ polls \in Seq(Lines) /\ now \in Nat
  BY DEF Timeline
<1>3. /\ rs \in Seq(Lines) /\ ps \in Seq(Lines) /\ Latest(rs) = r /\ Latest(ps) = r
      /\ Len(rs) = Len(rows) + 1 /\ Len(ps) = Len(polls) + 1
  BY <1>1, <1>2, AppendFacts
<1>4. PICK b, max : b = Surplus(rs, ps, Before(day, W)) /\ max = NChips * (MaxLogWait + gap)
  OBVIOUS
<1>5. max \in Nat
  <2>1. \A x, y \in Nat : x * y \in Nat /\ x + y \in Nat
    OBVIOUS
  <2>2. NChips \in Nat /\ MaxLogWait \in Nat
    OBVIOUS
  <2>. QED
    BY <1>4, <2>1, <2>2
<1>6. /\ b \in Int /\ (DayOf(now) < day => b = 0)
      /\ 0 <= b /\ b <= max
  <2>1. CASE rows = <<>>
    <3>1. Len(rs) = 1 /\ Len(ps) = 1
      BY <1>2, <1>3, <2>1, IntervalsFacts DEF Timeline
    <3>2. Before(day, W) \in [Lines -> Int]
      BY DEF Before
    <3>3. Charge(rs, Before(day, W)) = 0 /\ Charge(ps, Before(day, W)) = 0
      BY <1>3, <3>1, <3>2, ChargeInt
    <3>. QED
      BY <1>4, <1>5, <3>3 DEF Surplus
  <2>2. CASE rows # <<>>
    <3>1. PICK T, P, l, o, cr, cp, c :
             /\ l = Latest(rows) /\ o = Latest(polls) /\ T = l.ts /\ P = o.ts
             /\ cr = Charge(rows, Before(day, W)) /\ cp = Charge(polls, Before(day, W))
             /\ c = cr - cp
      OBVIOUS
    <3>2. /\ T \in Nat /\ P \in Nat /\ T <= P /\ P <= now /\ l \in Lines /\ o \in Lines
          /\ polls # <<>> /\ now \in Nat
      BY <2>2, <3>1, TimelineEnds
    <3>3. Gaps(polls, gap) /\ now - P <= gap
      BY <1>1, <1>2, <3>1, <3>2, GapsMore
    <3>4. Balance(rows, polls, day, W, gap)
      BY <2>2, <3>3 DEF Midnight
    <3>5. /\ W[o] = W[l] /\ P - T <= MaxLogWait
          /\ DayOf(T) < day =>
                \E e \in T..P : c + (e - T) * W[l] = 0 /\ (DayOf(P) < day => e = P)
          /\ ~ (DayOf(T) < day) => 0 <= c /\ c <= max
      BY <1>4, <3>1, <3>4 DEF Balance, Surplus
    <3>6. W[l] \in 0..NChips /\ W[l] \in Int /\ NChips \in Nat /\ MaxLogWait \in Nat
      BY <3>2
    <3>7. /\ cr \in Int /\ cp \in Int /\ c \in Int
          /\ DayOf(T) < day => Charge(rs, Before(day, W)) = cr + (now - T) * W[l]
          /\ ~ (DayOf(T) < day) => Charge(rs, Before(day, W)) = cr
          /\ DayOf(P) < day => Charge(ps, Before(day, W)) = cp + (now - P) * W[l]
          /\ ~ (DayOf(P) < day) => Charge(ps, Before(day, W)) = cp
      <4>1. /\ Charge(rows, Before(day, W)) \in Int
            /\ DayOf(Latest(rows).ts) < day =>
                 Charge(rs, Before(day, W))
                   = Charge(rows, Before(day, W)) + (r.ts - Latest(rows).ts) * W[Latest(rows)]
            /\ ~ (DayOf(Latest(rows).ts) < day) =>
                 Charge(rs, Before(day, W)) = Charge(rows, Before(day, W))
        BY <1>1, <1>2, <2>2, BeforeMore
      <4>2. /\ Charge(polls, Before(day, W)) \in Int
            /\ DayOf(Latest(polls).ts) < day =>
                 Charge(ps, Before(day, W))
                   = Charge(polls, Before(day, W)) + (r.ts - Latest(polls).ts) * W[Latest(polls)]
            /\ ~ (DayOf(Latest(polls).ts) < day) =>
                 Charge(ps, Before(day, W)) = Charge(polls, Before(day, W))
        BY <1>1, <1>2, <3>2, BeforeMore
      <4>3. c \in Int
        BY <3>1, <4>1, <4>2
      <4>. QED
        BY <3>1, <3>5, <4>1, <4>2, <4>3, Zenon
    <3>8. b = Charge(rs, Before(day, W)) - Charge(ps, Before(day, W))
      BY <1>4 DEF Surplus
    <3>9. /\ DayOf(T) \in Nat /\ DayOf(P) \in Nat /\ DayOf(now) \in Nat
          /\ DayOf(T) <= DayOf(P) /\ DayOf(P) <= DayOf(now)
      BY <3>2, DayFacts
    <3>10. CASE DayOf(P) < day
      <4>1. DayOf(T) < day
        BY <3>9, <3>10
      <4>2. c + (P - T) * W[l] = 0
        BY <3>5, <3>10, <4>1, Zenon
      <4>3. b = (cr + (now - T) * W[l]) - (cp + (now - P) * W[l])
        BY <3>7, <3>8, <3>10, <4>1, Zenon
      <4>4. c + (now - T) * W[l] - (now - P) * W[l] = 0
        BY <3>2, <3>6, <3>7, <4>2, OldDayArithmetic
      <4>5. PICK x, y : x = (now - T) * W[l] /\ y = (now - P) * W[l]
        OBVIOUS
      <4>6. x \in Int /\ y \in Int
        BY <3>2, <3>6, <4>5
      <4>7. c + x - y = 0 /\ b = (cr + x) - (cp + y) /\ c = cr - cp
        BY <3>1, <4>3, <4>4, <4>5, Zenon
      <4>8. b = 0
        BY <3>7, <4>6, <4>7
      <4>. QED
        BY <1>5, <4>8
    <3>11. CASE DayOf(T) < day /\ ~ (DayOf(P) < day)
      <4>1. PICK e \in T..P : c + (e - T) * W[l] = 0
        BY <3>5, <3>11
      <4>2. b = (cr + (now - T) * W[l]) - cp
        BY <3>7, <3>8, <3>11, Zenon
      <4>3. /\ c + (now - T) * W[l] \in Int
            /\ 0 <= c + (now - T) * W[l]
            /\ c + (now - T) * W[l] <= NChips * (MaxLogWait + gap)
        BY <3>2, <3>3, <3>5, <3>6, <3>7, <4>1, NewDayArithmetic
      <4>4. PICK x : x = (now - T) * W[l]
        OBVIOUS
      <4>5. x \in Int
        BY <3>2, <3>6, <4>4
      <4>6. b = (cr + x) - cp /\ c = cr - cp /\ 0 <= c + x /\ c + x <= max
        BY <1>4, <3>1, <4>2, <4>3, <4>4, Zenon
      <4>7. b \in Int /\ 0 <= b /\ b <= max
        BY <1>5, <3>7, <4>5, <4>6
      <4>8. ~ (DayOf(now) < day)
        BY <3>9, <3>11
      <4>. QED
        BY <4>7, <4>8
    <3>12. CASE ~ (DayOf(T) < day)
      <4>1. ~ (DayOf(P) < day) /\ ~ (DayOf(now) < day)
        BY <3>9, <3>12
      <4>2. b = cr - cp
        BY <3>7, <3>8, <3>12, <4>1, Zenon
      <4>. QED
        BY <3>1, <3>5, <3>7, <3>12, <4>1, <4>2
    <3>. QED
      BY <3>10, <3>11, <3>12
  <2>. QED
    BY <2>1, <2>2
<1>7. Surplus(rs, Upto(ps, now), Before(day, W)) = b
  <2>1. Upto(ps, r.ts) = ps
    BY <1>1, <1>2, UptoAppend
  <2>. QED
    BY <1>4, <2>1
<1>8. now \in now..now /\ now - now = 0 /\ 0 * W[r] = 0 /\ MaxLogWait \in Nat
      /\ b + (now - now) * W[r] = b
  <2>1. W[r] \in Int
    OBVIOUS
  <2>2. now - now = 0 /\ 0 * W[r] = 0
    BY <2>1
  <2>. QED
    BY <1>6, <2>2
<1>9. /\ W[Latest(ps)] = W[Latest(rs)] /\ Latest(rs).ts = now /\ Latest(ps).ts = now
      /\ Latest(rs) = r
  BY <1>3
<1>10. now - now <= MaxLogWait
  BY <1>8
<1>11. DayOf(now) < day =>
         \E e \in now..now : b + (e - now) * W[r] = 0 /\ (DayOf(now) < day => e = now)
  BY <1>6, <1>8
<1>. QED
  BY <1>4, <1>6, <1>7, <1>9, <1>10, <1>11, Zenon DEF Balance

\* So does, to the first poll of the day, a poll without a row.
LEMMA MidnightPoll ==
    ASSUME NEW rows, NEW polls, NEW now \in Nat \ {0}, Timeline(rows, polls, {}, now),
           rows # <<>>, NEW W \in [Lines -> 0..NChips], NEW day \in Nat, NEW gap \in Nat,
           Midnight(rows, polls, day, W, gap), NEW p \in Lines, p.ts = now,
           W[p] = W[Latest(rows)], now - Latest(rows).ts <= MaxLogWait
    PROVE  Midnight(rows, Append(polls, p), day, W, gap)
<1>1. PICK ps : ps = Append(polls, p)
  OBVIOUS
<1>. SUFFICES ASSUME Gaps(ps, gap) PROVE Balance(rows, ps, day, W, gap)
  BY <1>1 DEF Midnight
<1>2. PICK T, P, l, o, cr, cp, c, max :
         /\ l = Latest(rows) /\ o = Latest(polls) /\ T = l.ts /\ P = o.ts
         /\ cr = Charge(rows, Before(day, W)) /\ cp = Charge(polls, Before(day, W))
         /\ c = cr - cp /\ max = NChips * (MaxLogWait + gap)
  OBVIOUS
<1>3. /\ rows \in Seq(Lines) /\ polls \in Seq(Lines)
      /\ T \in Nat /\ P \in Nat /\ T <= P /\ P <= now /\ T < now /\ l \in Lines /\ o \in Lines
      /\ polls # <<>> /\ now \in Nat
  BY <1>2, TimelineEnds
<1>4. Gaps(polls, gap)
  BY <1>1, <1>3, GapsMore
<1>5. Balance(rows, polls, day, W, gap)
  BY <1>4 DEF Midnight
<1>6. /\ W[o] = W[l] /\ P - T <= MaxLogWait
      /\ DayOf(T) < day =>
            \E e \in T..P : c + (e - T) * W[l] = 0 /\ (DayOf(P) < day => e = P)
      /\ ~ (DayOf(T) < day) => 0 <= c /\ c <= max
      /\ 0 <= Surplus(rows, Upto(polls, T), Before(day, W))
      /\ Surplus(rows, Upto(polls, T), Before(day, W)) <= max
  BY <1>2, <1>5 DEF Balance, Surplus
<1>7. W[l] \in 0..NChips /\ W[l] \in Int
  BY <1>3
<1>8. /\ cr \in Int /\ cp \in Int /\ c \in Int
      /\ DayOf(P) < day => Charge(ps, Before(day, W)) = cp + (now - P) * W[l]
      /\ ~ (DayOf(P) < day) => Charge(ps, Before(day, W)) = cp
  <2>1. Charge(rows, Before(day, W)) \in Int
    BY <1>3, BeforeMore
  <2>2. /\ Charge(polls, Before(day, W)) \in Int
        /\ DayOf(Latest(polls).ts) < day =>
             Charge(ps, Before(day, W))
               = Charge(polls, Before(day, W)) + (p.ts - Latest(polls).ts) * W[Latest(polls)]
        /\ ~ (DayOf(Latest(polls).ts) < day) =>
             Charge(ps, Before(day, W)) = Charge(polls, Before(day, W))
    BY <1>1, <1>3, BeforeMore
  <2>3. c \in Int
    BY <1>2, <2>1, <2>2
  <2>. QED
    BY <1>2, <1>6, <2>1, <2>2, <2>3, Zenon
<1>9. PICK b : b = Surplus(rows, ps, Before(day, W))
  OBVIOUS
<1>10. b = cr - Charge(ps, Before(day, W))
  BY <1>2, <1>9 DEF Surplus
<1>11. ps \in Seq(Lines) /\ Latest(ps) = p
  BY <1>1, <1>3, AppendFacts
<1>12. Upto(ps, T) = Upto(polls, T)
  <2>1. p.ts # 0 /\ T < p.ts
    BY <1>3
  <2>. QED
    BY <1>1, <1>3, <2>1, UptoAppend
<1>13. /\ DayOf(T) \in Nat /\ DayOf(P) \in Nat /\ DayOf(now) \in Nat
       /\ DayOf(T) <= DayOf(P) /\ DayOf(P) <= DayOf(now)
  BY <1>3, DayFacts
<1>14. ASSUME DayOf(T) < day
       PROVE  \E e \in T..now : b + (e - T) * W[l] = 0 /\ (DayOf(now) < day => e = now)
  <2>1. PICK e \in T..P : c + (e - T) * W[l] = 0 /\ (DayOf(P) < day => e = P)
    BY <1>6, <1>14
  <2>2. CASE DayOf(P) < day
    <3>1. c + (P - T) * W[l] = 0
      BY <2>1, <2>2
    <3>2. c - (now - P) * W[l] + (now - T) * W[l] = 0
      BY <1>3, <1>7, <1>8, <3>1, OldDayArithmetic
    <3>3. b = cr - (cp + (now - P) * W[l])
      BY <1>8, <1>10, <2>2, Zenon
    <3>4. PICK x, y : x = (now - T) * W[l] /\ y = (now - P) * W[l]
      OBVIOUS
    <3>5. x \in Int /\ y \in Int
      <4>1. now - T \in Int /\ now - P \in Int
        BY <1>3
      <4>. QED
        BY <1>7, <3>4, <4>1
    <3>6. c - y + x = 0 /\ b = cr - (cp + y) /\ c = cr - cp
      BY <1>2, <3>2, <3>3, <3>4, Zenon
    <3>7. b + x = 0
      BY <1>8, <3>5, <3>6
    <3>8. b + (now - T) * W[l] = 0
      BY <3>4, <3>7, Zenon
    <3>9. now \in T..now
      BY <1>3
    <3>. QED
      BY <3>8, <3>9, Zenon
  <2>3. CASE ~ (DayOf(P) < day)
    <3>1. b = cr - cp
      BY <1>8, <1>10, <2>3, Zenon
    <3>2. b = c /\ ~ (DayOf(now) < day) /\ e \in T..now
      <4>1. b = c
        BY <1>2, <3>1, Zenon
      <4>2. ~ (DayOf(now) < day)
        BY <1>13, <2>3
      <4>3. e \in T..now
        BY <1>3, <2>1
      <4>. QED
        BY <4>1, <4>2, <4>3
    <3>. QED
      BY <2>1, <3>2, Zenon
  <2>. QED
    BY <2>2, <2>3
<1>15. ASSUME ~ (DayOf(T) < day) PROVE 0 <= b /\ b <= max
  <2>1. ~ (DayOf(P) < day)
    BY <1>13, <1>15
  <2>2. b = c
    BY <1>2, <1>8, <1>10, <2>1, Zenon
  <2>. QED
    BY <1>6, <1>15, <2>2, Zenon
<1>16. /\ W[Latest(ps)] = W[l] /\ Latest(ps).ts = now /\ now - T <= MaxLogWait
  BY <1>2, <1>11
<1>. QED
  BY <1>2, <1>6, <1>9, <1>12, <1>14, <1>15, <1>16, Zenon DEF Balance

\* A charge of what the rows say goes by the users they name.
LEMMA ChipsOfUsers ==
    ASSUME NEW u, NEW a \in Lines, NEW b \in Lines, a.users = b.users
    PROVE  ChipsHeldBy(u)[a] = ChipsHeldBy(u)[b]
<1>1. \A c \in Columns : a.users[c] = u <=> b.users[c] = u
  OBVIOUS
<1>2. {c \in Columns : a.users[c] = u} = {c \in Columns : b.users[c] = u}
  BY <1>1
<1>3. ChipsOf(a, u) = ChipsOf(b, u)
  BY <1>2 DEF ChipsOf
<1>. QED
  BY <1>3, ChipsFacts

\* Every step that leaves nothing torn keeps the balance.
LEMMA MidnightStep ==
    ASSUME NEW rows, NEW rs, NEW polls, NEW ps, NEW tn,
           NEW now \in Nat \ {0}, NEW later \in Nat, Timeline(rows, polls, tn, now),
           FileStep(rows, rs, polls, ps, tn, {}, now, later),
           NEW u, NEW day \in Nat, NEW gap \in Nat,
           Midnight(rows, polls, day, ChipsHeldBy(u), gap)
    PROVE  tn = {} /\ Midnight(rs, ps, day, ChipsHeldBy(u), gap)
<1>. DEFINE W == ChipsHeldBy(u)
<1>1. W \in [Lines -> 0..NChips]
  BY ChipsFacts
<1>2. \A a, b \in Lines : a.users = b.users => W[a] = W[b]
  BY ChipsOfUsers
<1>. HIDE DEF W
<1>3. Midnight(rows, polls, day, W, gap)
  BY DEF W
<1>4. CASE QuietStep(rows, rs, polls, ps, tn, {}, now, later)
  BY <1>3, <1>4 DEF QuietStep, W
<1>5. CASE RowStep(rows, rs, polls, ps, tn, {}, now, later)
  <2>1. PICK r \in Lines, p \in Lines :
          /\ rs = Append(rows, r) /\ ps = Append(polls, p)
          /\ r.ts = now /\ tn \subseteq {} /\ (r = p \/ TornRow({}, r))
    BY <1>5 DEF RowStep
  <2>2. tn = {} /\ r = p
    BY <2>1 DEF TornRow
  <2>3. Midnight(rs, ps, day, W, gap)
    BY <1>1, <1>3, <2>1, <2>2, MidnightRow
  <2>. QED
    BY <2>2, <2>3 DEF W
<1>6. CASE PollStep(rows, rs, polls, ps, tn, {}, now, later)
  <2>1. PICK p \in Lines :
          /\ rows # <<>> /\ ps = Append(polls, p) /\ p.ts = now /\ {} = tn
          /\ \/ TornRow(tn, Latest(rows))
             \/ /\ rs = rows
                /\ p.users = Latest(rows).users /\ now - Latest(rows).ts <= MaxLogWait
    BY <1>6 DEF PollStep
  <2>2. /\ tn = {} /\ rs = rows
        /\ p.users = Latest(rows).users /\ now - Latest(rows).ts <= MaxLogWait
    BY <2>1 DEF TornRow
  <2>3. Latest(rows) \in Lines
    BY <2>1, TimelineEnds
  <2>4. W[p] = W[Latest(rows)]
    BY <1>2, <2>2, <2>3
  <2>5. Midnight(rs, ps, day, W, gap)
    BY <1>1, <1>3, <2>1, <2>2, <2>4, MidnightPoll
  <2>. QED
    BY <2>2, <2>5 DEF W
<1>. QED
  BY <1>4, <1>5, <1>6 DEF FileStep

\* As long as nothing is torn, no midnight moves more than MAX_LOG_WAIT and the
\* longest gap bound.
Settled ==
    torn = {} => \A u \in Listed : \A day, gap \in Nat :
        Midnight(AllOf(log), polled, day, ChipsHeldBy(u), gap)

DayInv == UsageInv /\ Settled

\* Every step of the daemon keeps that.
THEOREM DayInvInductive == DayInv /\ [Next]_vars => DayInv'
<1>. SUFFICES ASSUME DayInv, [Next]_vars PROVE DayInv'
  OBVIOUS
<1>1. UsageInv /\ Settled /\ Inv /\ TailTorn /\ InTime
  BY DEF DayInv, UsageInv
<1>2. UsageInv'
  BY <1>1, UsageInvInductive
<1>3. /\ CutLate' => CutLate
      /\ CutLate' => FileStep(AllOf(log), AllOf(log'), polled, polled', torn, torn', clock, clock')
  BY <1>1, StepShape
<1>4. clock \in Nat \ {0}
  BY <1>1, ClockFacts
<1>5. clock' \in Nat
  BY <1>2, TypesFacts DEF UsageInv, Inv, Types
<1>6. ASSUME torn' = {}, NEW u \in Listed, NEW day \in Nat, NEW gap \in Nat
      PROVE  Midnight(AllOf(log'), polled', day, ChipsHeldBy(u), gap)
  <2>1. CutLate' /\ CutLate
    BY <1>3, <1>6 DEF CutLate
  <2>2. Timeline(AllOf(log), polled, torn, clock)
    BY <1>1, <2>1 DEF InTime
  <2>3. FileStep(AllOf(log), AllOf(log'), polled, polled', torn, {}, clock, clock')
    BY <1>3, <1>6, <2>1
  <2>4. torn = {}
    BY <2>3 DEF FileStep, QuietStep, RowStep, PollStep
  <2>5. Midnight(AllOf(log), polled, day, ChipsHeldBy(u), gap)
    BY <1>1, <2>4 DEF Settled
  <2>. QED
    BY <1>4, <1>5, <2>2, <2>3, <2>5, MidnightStep
<1>7. Settled'
  BY <1>6 DEF Settled
<1>. QED
  BY <1>2, <1>7 DEF DayInv

\* Nothing is written before the first step.
THEOREM DayInvCorrect == Spec => []DayInv
<1>1. Init => DayInv
  <2>. SUFFICES ASSUME Init PROVE DayInv
    OBVIOUS
  <2>1. log.lines = <<>> /\ log.tail = {} /\ <<>> \in Seq(Lines)
    BY EmptySeq DEF Init
  <2>2. AllOf(log) = <<>>
    BY <2>1, AllOfFacts
  <2>3. Settled
    BY <2>2 DEF Settled, Midnight
  <2>. QED
    BY <2>3, UsageInitInv DEF DayInv
<1>. QED
  BY <1>1, DayInvInductive, PTL DEF Spec

\* Gap bounds the gaps.
LEMMA GapFacts ==
    ASSUME NEW now \in Nat, polled \in Seq(Lines), Increasing(polled, now)
    PROVE  Gap \in Nat /\ Gaps(polled, Gap)
<1>. DEFINE D == {Delta(polled, i) : i \in Intervals(polled)}
            T == {0} \union D
<1>1. ASSUME NEW i \in Intervals(polled) PROVE Delta(polled, i) \in Nat /\ Delta(polled, i) <= now
  <2>1. i \in 1..Len(polled) /\ i + 1 \in 1..Len(polled) /\ i < i + 1
    BY LenProperties DEF Intervals
  <2>2. polled[i].ts \in Nat /\ polled[i + 1].ts \in Nat
    BY <2>1, IntervalsFacts
  <2>3. polled[i].ts < polled[i + 1].ts /\ polled[i + 1].ts < now
    BY <2>1 DEF Increasing
  <2>. QED
    BY <2>2, <2>3 DEF Delta
<1>2. T \in SUBSET Nat /\ T # {} /\ \A n \in T : n <= now
  BY <1>1
<1>3. Gap = Max(T)
  BY DEF Gap
<1>4. \A i \in Intervals(polled) : Delta(polled, i) \in T
  OBVIOUS
<1>. HIDE DEF T
<1>5. Max(T) \in T /\ \A m \in T : Max(T) >= m
  BY <1>2, MaxFacts
<1>6. Gap \in Nat /\ \A m \in T : m \in Nat /\ m <= Gap
  BY <1>2, <1>3, <1>5
<1>. QED
  BY <1>4, <1>6 DEF Gaps

\* An interval across midnight moves at most the time until the first row of the
\* new day.
THEOREM DayOffByOneRowCorrect == Spec => []DayOffByOneRow
<1>1. ASSUME DayInv PROVE DayOffByOneRow
  <2>. DEFINE rows    == Rows(log)
              covered == Covered(rows)
              most    == NChips * (MaxLogWait + Gap)
  <2>. SUFFICES ASSUME Whole, torn = {}, Len(rows) > 1,
                       NEW u \in Listed, NEW day \in 0..DayOf(clock)
                PROVE  Through(rows, day, u) - Through(covered, day, u) \in 0..most
    BY DEF DayOffByOneRow
  <2>1. Inv /\ InTime /\ Settled
    BY <1>1 DEF DayInv, UsageInv
  <2>2. CutLate /\ log.header = "whole"
    BY DEF Whole, CutLate
  <2>3. log.lines \in Seq(Lines) /\ clock \in Nat
    BY <2>1, TypesFacts DEF Inv, Types
  <2>4. rows = AllOf(log)
    BY <2>2, <2>3, AllOfFacts
  <2>5. Timeline(AllOf(log), polled, torn, clock)
    BY <2>1, <2>2 DEF InTime
  <2>. HIDE DEF rows
  <2>6. rows \in Seq(Lines) /\ polled \in Seq(Lines)
    BY <2>4, <2>5 DEF Timeline
  <2>7. rows # <<>>
    BY <2>6, IntervalsFacts
  <2>8. covered = Upto(polled, Latest(rows).ts)
    BY DEF Covered, Upto, Latest, Last
  <2>9. covered \in Seq(Lines)
    BY <2>6, <2>7, <2>8, IntervalsFacts, UptoFacts
  <2>. HIDE DEF covered
  <2>10. Gap \in Nat /\ Gaps(polled, Gap)
    BY <2>3, <2>5, GapFacts DEF Timeline
  <2>11. day \in Nat /\ day + 1 \in Nat
    OBVIOUS
  <2>12. PICK W : W = Before(day + 1, ChipsHeldBy(u))
    OBVIOUS
  <2>13. Midnight(rows, polled, day + 1, ChipsHeldBy(u), Gap)
    BY <2>1, <2>4, <2>10, <2>11 DEF Settled
  <2>14. Balance(rows, polled, day + 1, ChipsHeldBy(u), Gap)
    BY <2>7, <2>10, <2>13 DEF Midnight
  <2>15. 0 <= Surplus(rows, covered, W) /\ Surplus(rows, covered, W) <= most
    BY <2>8, <2>12, <2>14 DEF Balance
  <2>16. Through(rows, day, u) = Charge(rows, W) /\ Through(covered, day, u) = Charge(covered, W)
    BY <2>6, <2>9, <2>11, <2>12, ThroughIsCharge
  <2>17. PICK a, b, m : a = Charge(rows, W) /\ b = Charge(covered, W) /\ m = most
    OBVIOUS
  <2>18. a \in Int /\ b \in Int
    <3>1. W \in [Lines -> Int]
      BY <2>12, ChipsFacts, WeightsAreInts DEF Before
    <3>. QED
      BY <2>6, <2>9, <2>17, <3>1, ChargeInt
  <2>19. m \in Int
    <3>1. \A x, y \in Nat : x * y \in Nat /\ x + y \in Nat
      OBVIOUS
    <3>2. NChips \in Nat /\ MaxLogWait \in Nat
      OBVIOUS
    <3>. QED
      BY <2>10, <2>17, <3>1, <3>2
  <2>20. 0 <= a - b /\ a - b <= m
    BY <2>15, <2>17 DEF Surplus
  <2>21. a - b \in 0..m
    BY <2>18, <2>19, <2>20
  <2>. QED
    BY <2>16, <2>17, <2>21, Zenon
<1>. QED
  BY <1>1, DayInvCorrect, PTL
=============================================================================
