--------------------------- MODULE Dashboard_proofs ---------------------------
(***************************************************************************)
(* Proofs about Dashboard, for any number of hosts, polls and cycles and   *)
(* any retention on either side.                                           *)
(***************************************************************************)
EXTENDS Dashboard, SequenceTheorems, WellFoundedInduction, TLAPS

USE DashboardAssumption

Times == Nat \ {0}

-----------------------------------------------------------------------------
(* Least and greatest numbers.  The induction behind them is that of the   *)
(* library's theorem on minimal elements of a well-founded relation.       *)

LEMMA LeastNat ==
    ASSUME NEW T \in SUBSET Nat, T # {}
    PROVE  \E n \in T : \A m \in T : n <= m
<1>. DEFINE R == {ss \in Nat \X Nat : ss[1] < ss[2]}
<1>1. IsWellFoundedOn(R, Nat)
  BY NatLessThanWellFounded DEF OpToRel
<1>2. PICK n \in T : \A m \in T : ~ (<<m, n>> \in R)
  <2>. HIDE DEF R
  <2>. QED
    BY <1>1, WFMin, Zenon
<1>3. \A m \in T : n <= m
  <2>1. SUFFICES ASSUME NEW m \in T, m < n PROVE FALSE
    OBVIOUS
  <2>2. <<m, n>> \in R
    BY <2>1
  <2>. QED
    BY <1>2, <2>2, Zenon
<1>. QED
  BY <1>3

LEMMA GreatestNat ==
    ASSUME NEW T \in SUBSET Nat, T # {}, NEW b \in Nat, \A n \in T : n <= b
    PROVE  \E n \in T : \A m \in T : n >= m
<1>. DEFINE U == {u \in Nat : \A m \in T : m <= u}
<1>1. PICK u \in U : \A v \in U : u <= v
  BY LeastNat
<1>2. u \in T
  <2>1. SUFFICES ASSUME u \notin T PROVE FALSE
    OBVIOUS
  <2>2. \A m \in T : m < u
    BY <2>1
  <2>3. u # 0
    <3>1. PICK m \in T : TRUE
      OBVIOUS
    <3>. QED
      BY <2>2, <3>1
  <2>4. u - 1 \in U
    BY <2>2, <2>3
  <2>. QED
    BY <2>4, <1>1
<1>. QED
  BY <1>1, <1>2

LEMMA MinFacts ==
    ASSUME NEW T \in SUBSET Nat, T # {}
    PROVE  Min(T) \in T /\ \A m \in T : Min(T) <= m
BY LeastNat DEF Min

LEMMA MaxFacts ==
    ASSUME NEW T \in SUBSET Nat, T # {}, NEW b \in Nat, \A n \in T : n <= b
    PROVE  Max(T) \in T /\ \A m \in T : Max(T) >= m
BY GreatestNat DEF Max

-----------------------------------------------------------------------------
(* Series. *)

LEMMA SeriesFacts ==
    ASSUME NEW q \in Seq(Times)
    PROVE  /\ Len(q) \in Nat /\ DOMAIN q = 1..Len(q)
           /\ \A i \in 1..Len(q) : q[i] \in Times
           /\ Range(q) = {q[i] : i \in 1..Len(q)} /\ Range(q) \subseteq Times
<1>1. Len(q) \in Nat /\ DOMAIN q = 1..Len(q) /\ \A i \in 1..Len(q) : q[i] \in Times
  BY LenProperties, ElementOfSeq
<1>. QED
  BY <1>1 DEF Range

LEMMA SuffixFacts ==
    ASSUME NEW q \in Seq(Times), NEW m \in 1..(Len(q) + 1)
    PROVE  LET s == SubSeq(q, m, Len(q))
           IN  /\ s \in Seq(Times)
               /\ Range(s) = {q[i] : i \in m..Len(q)}
               /\ Increasing(q) => Increasing(s)
<1>. DEFINE s == SubSeq(q, m, Len(q))
<1>1. Len(q) \in Nat /\ DOMAIN q = 1..Len(q) /\ \A i \in 1..Len(q) : q[i] \in Times
  BY SeriesFacts
<1>2. /\ s \in Seq(Times) /\ Len(s) = Len(q) - m + 1
      /\ \A i \in 1..Len(s) : s[i] = q[m + i - 1]
  BY <1>1, SubSeqProperties
<1>. HIDE DEF s
<1>3. DOMAIN s = 1..Len(s) /\ Range(s) = {s[i] : i \in 1..Len(s)}
  BY <1>2, SeriesFacts
<1>4. Range(s) \subseteq {q[i] : i \in m..Len(q)}
  BY <1>1, <1>2, <1>3
<1>5. ASSUME NEW i \in m..Len(q) PROVE q[i] \in Range(s)
  <2>1. i - m + 1 \in 1..Len(s) /\ s[i - m + 1] = q[i]
    BY <1>1, <1>2
  <2>. QED
    BY <1>3, <2>1
<1>6. ASSUME Increasing(q) PROVE Increasing(s)
  <2>1. SUFFICES ASSUME NEW i \in 1..Len(s), NEW j \in 1..Len(s), i < j
                 PROVE  s[i] < s[j]
    BY <1>3 DEF Increasing
  <2>2. s[i] = q[m + i - 1] /\ s[j] = q[m + j - 1]
    BY <1>2
  <2>3. /\ m + i - 1 \in 1..Len(q) /\ m + j - 1 \in 1..Len(q)
        /\ m + i - 1 < m + j - 1
    BY <1>1, <1>2, <2>1
  <2>. QED
    BY <1>1, <1>6, <2>2, <2>3 DEF Increasing
<1>. QED
  BY <1>2, <1>4, <1>5, <1>6 DEF s

\* The scan of snapshot finds what is newer, all of it in a series in time order.
LEMMA NewerFacts ==
    ASSUME NEW q \in Seq(Times), NEW since \in Nat
    PROVE  /\ Newer(q, since) \in Seq(Times)
           /\ \A ts \in Range(Newer(q, since)) : ts \in Range(q) /\ ts > since
           /\ Increasing(q) =>
                 /\ Increasing(Newer(q, since))
                 /\ \A ts \in Range(q) : ts > since => ts \in Range(Newer(q, since))
<1>. DEFINE old == {i \in DOMAIN q : q[i] <= since}
            m   == Max(old \union {0})
<1>1. Len(q) \in Nat /\ DOMAIN q = 1..Len(q) /\ \A i \in 1..Len(q) : q[i] \in Times
  BY SeriesFacts
<1>2. Range(q) = {q[i] : i \in 1..Len(q)}
  BY SeriesFacts
<1>3. m \in old \union {0} /\ \A i \in old \union {0} : m >= i
  <2>1. old \union {0} \in SUBSET Nat /\ \A i \in old \union {0} : i <= Len(q)
    BY <1>1
  <2>. HIDE DEF old
  <2>. QED
    BY <1>1, <2>1, MaxFacts
<1>4. m \in 0..Len(q) /\ m + 1 \in 1..(Len(q) + 1)
  BY <1>1, <1>3
<1>5. Newer(q, since) = SubSeq(q, m + 1, Len(q))
  BY DEF Newer, After
<1>. HIDE DEF m
<1>6. /\ Newer(q, since) \in Seq(Times)
      /\ Range(Newer(q, since)) = {q[i] : i \in (m + 1)..Len(q)}
      /\ Increasing(q) => Increasing(Newer(q, since))
  BY <1>4, <1>5, SuffixFacts
<1>7. ASSUME NEW i \in (m + 1)..Len(q) PROVE i \in 1..Len(q) /\ q[i] > since
  <2>1. i \in 1..Len(q) /\ ~ (m >= i)
    BY <1>1, <1>4
  <2>2. i \notin old
    BY <1>3, <2>1
  <2>. QED
    BY <1>1, <2>1, <2>2 DEF Times
<1>8. ASSUME Increasing(q), NEW i \in 1..Len(q), q[i] > since PROVE i \in (m + 1)..Len(q)
  <2>1. CASE m = 0
    BY <1>1, <2>1
  <2>2. CASE m \in old
    <3>1. m \in 1..Len(q) /\ q[m] <= since
      BY <1>1, <2>2
    <3>2. ~ (i <= m)
      <4>1. i < m => q[i] < q[m]
        BY <1>1, <1>8, <3>1 DEF Increasing
      <4>. QED
        BY <1>1, <1>8, <3>1, <4>1 DEF Times
    <3>. QED
      BY <1>1, <3>1, <3>2
  <2>. QED
    BY <1>3, <2>1, <2>2
<1>. QED
  BY <1>2, <1>6, <1>7, <1>8

\* The tab's trimming takes nothing that is still to be plotted.
LEMMA TrimFacts ==
    ASSUME NEW q \in Seq(Times), NEW now \in Nat
    PROVE  /\ Trim(q, now) \in Seq(Times)
           /\ \A ts \in Range(Trim(q, now)) : ts \in Range(q)
           /\ \A ts \in Range(q) : ts >= now - Retain => ts \in Range(Trim(q, now))
           /\ Increasing(q) => Increasing(Trim(q, now))
<1>. DEFINE young == {i \in DOMAIN q : q[i] >= now - Retain}
            m     == Min(young \union {Len(q) + 1})
<1>1. Len(q) \in Nat /\ DOMAIN q = 1..Len(q) /\ Range(q) = {q[i] : i \in 1..Len(q)}
  BY SeriesFacts
<1>2. m \in young \union {Len(q) + 1} /\ \A i \in young \union {Len(q) + 1} : m <= i
  <2>1. young \union {Len(q) + 1} \in SUBSET Nat
    BY <1>1
  <2>. HIDE DEF young
  <2>. QED
    BY <2>1, MinFacts
<1>3. m \in 1..(Len(q) + 1)
  BY <1>1, <1>2
<1>4. Trim(q, now) = SubSeq(q, m, Len(q))
  BY DEF Trim
<1>. HIDE DEF m
<1>5. /\ Trim(q, now) \in Seq(Times)
      /\ Range(Trim(q, now)) = {q[i] : i \in m..Len(q)}
      /\ Increasing(q) => Increasing(Trim(q, now))
  BY <1>3, <1>4, SuffixFacts
<1>6. \A i \in m..Len(q) : i \in 1..Len(q)
  BY <1>1, <1>3
<1>7. \A i \in 1..Len(q) : q[i] >= now - Retain => i \in m..Len(q)
  BY <1>1, <1>2
<1>. QED
  BY <1>1, <1>5, <1>6, <1>7

LEMMA PushFacts ==
    ASSUME NEW q \in Seq(Times), NEW x \in Times
    PROVE  /\ Push(q, x) \in Seq(Times)
           /\ Len(q) <= MaxLen => Len(Push(q, x)) <= MaxLen
           /\ \A ts \in Range(Push(q, x)) : ts \in Range(q) \/ ts = x
           /\ Increasing(q) /\ (\A ts \in Range(q) : ts < x) => Increasing(Push(q, x))
<1>1. Len(q) \in Nat /\ DOMAIN q = 1..Len(q) /\ \A i \in 1..Len(q) : q[i] \in Times
  BY SeriesFacts
<1>2. Range(q) = {q[i] : i \in 1..Len(q)}
  BY SeriesFacts
<1>3. PICK r \in Seq(Times) :
         /\ Push(q, x) = Append(r, x)
         /\ Len(r) < MaxLen \/ Len(r) < Len(q)
         /\ \E d \in {0, 1} : \A i \in 1..Len(r) : i + d \in 1..Len(q) /\ r[i] = q[i + d]
  <2>1. CASE Len(q) < MaxLen
    BY <1>1, <2>1 DEF Push
  <2>2. CASE Len(q) >= MaxLen
    <3>1. q # <<>> /\ Push(q, x) = Append(Tail(q), x)
      BY <1>1, <2>2 DEF Push
    <3>2. /\ Tail(q) \in Seq(Times) /\ Len(Tail(q)) = Len(q) - 1
          /\ \A i \in 1..Len(Tail(q)) : Tail(q)[i] = q[i + 1]
      BY <3>1, HeadTailProperties
    <3>3. \A i \in 1..Len(Tail(q)) : i + 1 \in 1..Len(q) /\ Tail(q)[i] = q[i + 1]
      BY <1>1, <3>2
    <3>4. Len(Tail(q)) < Len(q)
      BY <1>1, <3>2
    <3>. QED
      BY <3>1, <3>2, <3>3, <3>4
  <2>. QED
    BY <1>1, <2>1, <2>2
<1>4. /\ Append(r, x) \in Seq(Times) /\ Len(Append(r, x)) = Len(r) + 1
      /\ \A i \in 1..Len(r) : Append(r, x)[i] = r[i]
      /\ Append(r, x)[Len(r) + 1] = x
  BY AppendProperties
<1>5. Len(r) \in Nat
  BY SeriesFacts
<1>. DEFINE s == Append(r, x)
<1>6. DOMAIN s = 1..(Len(r) + 1) /\ Range(s) = {s[i] : i \in 1..(Len(r) + 1)}
  BY <1>4, SeriesFacts
<1>. HIDE DEF s
<1>7. PICK d \in {0, 1} : \A i \in 1..Len(r) : i + d \in 1..Len(q) /\ r[i] = q[i + d]
  BY <1>3
<1>8. \A i \in 1..(Len(r) + 1) :
         \/ i = Len(r) + 1 /\ s[i] = x
         \/ i \in 1..Len(r) /\ i + d \in 1..Len(q) /\ s[i] = q[i + d]
  BY <1>4, <1>5, <1>7 DEF s
<1>9. \A ts \in Range(s) : ts \in Range(q) \/ ts = x
  BY <1>2, <1>6, <1>8
<1>10. ASSUME Increasing(q), \A ts \in Range(q) : ts < x,
              NEW i \in 1..(Len(r) + 1), NEW j \in 1..(Len(r) + 1), i < j
       PROVE  s[i] < s[j]
  <2>1. i \in 1..Len(r) /\ i + d \in 1..Len(q) /\ s[i] = q[i + d]
    BY <1>5, <1>8, <1>10
  <2>2. CASE j = Len(r) + 1
    <3>1. s[j] = x
      BY <1>4, <2>2 DEF s
    <3>. QED
      BY <1>2, <1>10, <2>1, <3>1
  <2>3. CASE j # Len(r) + 1
    <3>1. j + d \in 1..Len(q) /\ s[j] = q[j + d]
      BY <1>8, <2>3
    <3>2. i + d < j + d
      BY <1>10
    <3>. QED
      BY <1>1, <1>10, <2>1, <3>1, <3>2 DEF Increasing
  <2>. QED
    BY <2>2, <2>3
<1>. QED
  <2>1. Push(q, x) = s
    BY <1>3 DEF s
  <2>2. s \in Seq(Times)
    BY <1>4 DEF s
  <2>3. Len(q) <= MaxLen => Len(s) <= MaxLen
    BY <1>1, <1>3, <1>4, <1>5 DEF s
  <2>4. Increasing(q) /\ (\A ts \in Range(q) : ts < x) => Increasing(s)
    BY <1>6, <1>10 DEF Increasing
  <2>. QED
    BY <2>1, <2>2, <2>3, <2>4, <1>9

LEMMA JoinFacts ==
    ASSUME NEW q \in Seq(Times), NEW r \in Seq(Times)
    PROVE  /\ q \o r \in Seq(Times)
           /\ \A ts : ts \in Range(q \o r) <=> ts \in Range(q) \/ ts \in Range(r)
           /\ /\ Increasing(q) /\ Increasing(r)
              /\ \A s \in Range(q), t \in Range(r) : s < t
              => Increasing(q \o r)
<1>. DEFINE s == q \o r
<1>1. /\ s \in Seq(Times) /\ Len(s) = Len(q) + Len(r)
      /\ \A i \in 1..(Len(q) + Len(r)) : s[i] = IF i <= Len(q) THEN q[i] ELSE r[i - Len(q)]
  BY ConcatProperties
<1>2. /\ Len(q) \in Nat /\ DOMAIN q = 1..Len(q) /\ Range(q) = {q[i] : i \in 1..Len(q)}
      /\ Len(r) \in Nat /\ DOMAIN r = 1..Len(r) /\ Range(r) = {r[i] : i \in 1..Len(r)}
  BY SeriesFacts
<1>3. DOMAIN s = 1..Len(s) /\ Range(s) = {s[i] : i \in 1..Len(s)}
  BY <1>1, SeriesFacts
<1>. HIDE DEF s
<1>4. \A i \in 1..Len(s) : \/ i \in 1..Len(q) /\ s[i] = q[i]
                           \/ i - Len(q) \in 1..Len(r) /\ s[i] = r[i - Len(q)] /\ i > Len(q)
  BY <1>1, <1>2
<1>5. \A i \in 1..Len(q) : i \in 1..Len(s) /\ s[i] = q[i]
  BY <1>1, <1>2
<1>6. ASSUME NEW i \in 1..Len(r) PROVE r[i] \in Range(s)
  <2>1. i + Len(q) \in 1..Len(s) /\ s[i + Len(q)] = r[i]
    BY <1>1, <1>2
  <2>. QED
    BY <1>3, <2>1
<1>7. \A ts : ts \in Range(s) <=> ts \in Range(q) \/ ts \in Range(r)
  BY <1>2, <1>3, <1>4, <1>5, <1>6
<1>8. ASSUME Increasing(q), Increasing(r), \A a \in Range(q), b \in Range(r) : a < b,
             NEW i \in 1..Len(s), NEW j \in 1..Len(s), i < j
      PROVE  s[i] < s[j]
  <2>1. CASE i \in 1..Len(q) /\ j \in 1..Len(q)
    BY <1>2, <1>5, <1>8, <2>1 DEF Increasing
  <2>2. CASE i \in 1..Len(q) /\ j \notin 1..Len(q)
    BY <1>2, <1>4, <1>5, <1>8, <2>2
  <2>3. CASE i \notin 1..Len(q)
    <3>1. i - Len(q) \in 1..Len(r) /\ s[i] = r[i - Len(q)] /\ i > Len(q)
      BY <1>4, <2>3
    <3>2. j \notin 1..Len(q)
      BY <1>1, <1>2, <1>8, <3>1
    <3>3. j - Len(q) \in 1..Len(r) /\ s[j] = r[j - Len(q)]
      BY <1>4, <3>2
    <3>4. i - Len(q) < j - Len(q)
      BY <1>1, <1>2, <1>8
    <3>. QED
      BY <1>2, <1>8, <3>1, <3>3, <3>4 DEF Increasing
  <2>. QED
    BY <2>1, <2>2, <2>3
<1>9. Increasing(q) /\ Increasing(r) /\ (\A a \in Range(q), b \in Range(r) : a < b)
         => Increasing(s)
  BY <1>3, <1>8 DEF Increasing
<1>. QED
  BY <1>1, <1>7, <1>9 DEF s

-----------------------------------------------------------------------------
(* The inductive invariant. *)

Rows == [Hosts -> Seq(Times)]

PollStates == {NoPoll} \union [at : {"sent"}, since : Nat]
                       \union [at : {"answered"}, now : Nat, rows : Rows]

Types ==
    /\ clock \in 0..MaxTime /\ next \in 0..NHosts /\ maxTsSeen \in Nat
    /\ series \in Rows /\ buf \in Rows
    /\ poll \in [Polls -> PollStates]
    /\ torn \subseteq Times /\ overlapped \in BOOLEAN

\* Nothing is from the future, and a host whose turn is still to come in this
\* cycle has nothing of it.
Timely ==
    /\ \A h \in Hosts : /\ Len(series[h]) <= MaxLen
                        /\ \A ts \in Range(series[h]) :
                              ts <= clock /\ (next > 0 /\ next <= h => ts < clock)
    /\ torn \subseteq 1..clock

\* What the tab has and what is on its way to it.
Cursor ==
    /\ maxTsSeen <= clock
    /\ \A h \in Hosts : \A ts \in Range(buf[h]) : ts <= maxTsSeen
    /\ \A p \in Polls :
          /\ poll[p].at = "sent" => poll[p].since <= maxTsSeen
          /\ poll[p].at = "answered" =>
                /\ poll[p].now <= clock
                /\ \A h \in Hosts : \A ts \in Range(poll[p].rows[h]) : ts <= clock

\* Whoever has seen the cycle under way saw it torn.
CycleSeen ==
    \/ maxTsSeen = clock
    \/ \E p \in Polls : /\ poll[p].at = "answered"
                        /\ \E h \in Hosts : clock \in Range(poll[p].rows[h])

SeenTorn == next > 0 => /\ CycleSeen => next > 1 /\ clock \in torn
                        /\ next = 1 => clock \notin torn

\* The cycles host h may have lost samples of.
Lost(h) == IF h = 1 THEN {} ELSE torn

TabComplete ==
    \A h \in Hosts : \A ts \in Range(series[h]) :
        ts <= maxTsSeen /\ ts >= clock - Retain /\ ts \notin Lost(h)
            => ts \in Range(buf[h])

\* An answer has of every host what it makes the cursor pass.
AnswersComplete ==
    \A p \in Polls : poll[p].at = "answered" =>
        \A g, h \in Hosts : \A r \in Range(poll[p].rows[g]) : \A ts \in Range(series[h]) :
            ts > maxTsSeen /\ ts <= r /\ ts \notin Lost(h)
                => ts \in Range(poll[p].rows[h])

\* While polls have not overlapped there is one, and it continues the tab.
OnePoll ==
    ~ overlapped =>
        /\ \A h \in Hosts : Increasing(buf[h])
        /\ \A o, p \in Polls : poll[o].at # "none" /\ poll[p].at # "none" => o = p
        /\ \A p \in Polls :
              /\ poll[p].at = "sent" => poll[p].since = maxTsSeen
              /\ poll[p].at = "answered" =>
                    \A h \in Hosts : /\ Increasing(poll[p].rows[h])
                                     /\ \A ts \in Range(poll[p].rows[h]) : ts > maxTsSeen

Inv == /\ Types /\ Timely /\ SharedGrid /\ Cursor /\ SeenTorn
       /\ TabComplete /\ AnswersComplete /\ OnePoll

\* An entry of any series is a time.
LEMMA TypesFacts ==
    ASSUME Types
    PROVE  /\ clock \in Nat /\ next \in Nat /\ next <= NHosts
           /\ \A h \in Hosts : /\ h \in Nat \ {0}
                               /\ series[h] \in Seq(Times) /\ buf[h] \in Seq(Times)
                               /\ \A ts \in Range(series[h]) : ts \in Nat \ {0}
                               /\ \A ts \in Range(buf[h]) : ts \in Nat \ {0}
           /\ \A p \in Polls : poll[p].at \in {"none", "sent", "answered"}
           /\ \A p \in Polls : poll[p].at = "sent" => poll[p].since \in Nat
           /\ \A p \in Polls : poll[p].at = "answered" =>
                 /\ poll[p].now \in Nat
                 /\ \A h \in Hosts : /\ poll[p].rows[h] \in Seq(Times)
                                     /\ \A ts \in Range(poll[p].rows[h]) : ts \in Nat \ {0}
<1>1. /\ clock \in Nat /\ next \in Nat /\ next <= NHosts
      /\ \A h \in Hosts : /\ h \in Nat \ {0}
                          /\ series[h] \in Seq(Times) /\ buf[h] \in Seq(Times)
  BY DEF Types, Hosts, Rows
<1>2. ASSUME NEW p \in Polls
      PROVE  /\ poll[p].at \in {"none", "sent", "answered"}
             /\ poll[p].at = "sent" => poll[p].since \in Nat
             /\ poll[p].at = "answered" => poll[p].now \in Nat /\ poll[p].rows \in Rows
  <2>1. poll[p] \in PollStates
    BY DEF Types
  <2>. QED
    BY <2>1 DEF PollStates, NoPoll
<1>3. \A q \in Seq(Times) : \A ts \in Range(q) : ts \in Nat \ {0}
  BY SeriesFacts DEF Times
<1>4. \A rows \in Rows : \A h \in Hosts : rows[h] \in Seq(Times)
  BY DEF Rows
<1>. QED
  BY <1>1, <1>2, <1>3, <1>4, Zenon

\* A poll changes its state.
LEMMA PollFacts ==
    ASSUME Types, NEW p \in Polls, NEW state \in PollStates,
           poll' = [poll EXCEPT ![p] = state]
    PROVE  /\ poll' \in [Polls -> PollStates] /\ poll'[p] = state
           /\ \A o \in Polls : o # p => poll'[o] = poll[o]
BY DEF Types

LEMMA NoPollFacts == NoPoll \in PollStates /\ NoPoll.at = "none"
BY DEF NoPoll, PollStates

LEMMA InitInv == Init => Inv
<1>. SUFFICES ASSUME Init PROVE Inv
  OBVIOUS
<1>1. <<>> \in Seq(Times) /\ Range(<<>>) = {} /\ Len(<<>>) = 0 /\ Increasing(<<>>)
  BY DEF Range, Increasing
<1>2. \A h \in Hosts : series[h] = <<>> /\ buf[h] = <<>>
  BY DEF Init, NoSeries
<1>3. \A p \in Polls : poll[p].at = "none"
  BY NoPollFacts DEF Init
<1>4. Types
  <2>1. series \in Rows /\ buf \in Rows
    BY <1>1 DEF Init, NoSeries, Rows
  <2>2. poll \in [Polls -> PollStates]
    BY NoPollFacts DEF Init
  <2>3. clock \in 0..MaxTime /\ next \in 0..NHosts /\ maxTsSeen \in Nat
    BY DEF Init
  <2>4. torn \subseteq Times /\ overlapped \in BOOLEAN
    BY Zenon DEF Init
  <2>. QED
    BY <2>1, <2>2, <2>3, <2>4, Zenon DEF Types
<1>5. Timely
  BY <1>1, <1>2 DEF Timely, Init
<1>6. SharedGrid
  BY <1>1, <1>2 DEF SharedGrid, Init, Hosts
<1>7. Cursor
  BY <1>1, <1>2, <1>3 DEF Cursor, Init
<1>8. SeenTorn
  BY DEF SeenTorn, Init
<1>9. TabComplete
  BY <1>1, <1>2 DEF TabComplete
<1>10. AnswersComplete
  BY <1>3 DEF AnswersComplete
<1>11. OnePoll
  BY <1>1, <1>2, <1>3 DEF OnePoll
<1>. QED
  BY <1>4, <1>5, <1>6, <1>7, <1>8, <1>9, <1>10, <1>11 DEF Inv

LEMMA StartCycleInv == ASSUME Inv, StartCycle PROVE Inv'
<1>1. /\ next = 0 /\ clock < MaxTime /\ clock' = clock + 1 /\ next' = 1
      /\ UNCHANGED <<series, buf, maxTsSeen, poll, torn, overlapped>>
  BY DEF StartCycle, tab, history
<1>2. Types /\ Timely /\ SharedGrid /\ Cursor /\ TabComplete /\ AnswersComplete /\ OnePoll
  BY DEF Inv
<1>3. /\ clock \in Nat
      /\ \A h \in Hosts : \A ts \in Range(series[h]) : ts \in Nat \ {0}
  BY <1>2, TypesFacts
<1>4. Types'
  BY <1>1, <1>2 DEF Types
<1>5. Timely'
  <2>1. \A h \in Hosts : /\ Len(series[h]) <= MaxLen
                         /\ \A ts \in Range(series[h]) : ts <= clock /\ ts < clock + 1
    BY <1>2, <1>3 DEF Timely
  <2>2. \A ts \in Nat : ts <= clock => ts <= clock + 1
    BY <1>3
  <2>3. torn \subseteq 1..(clock + 1)
    BY <1>2, <1>3 DEF Timely
  <2>. QED
    BY <1>1, <1>3, <2>1, <2>2, <2>3, Zenon DEF Timely
<1>6. SharedGrid'
  <2>1. ASSUME NEW g \in Hosts, NEW h \in Hosts
        PROVE  Increasing(series[h]) /\ series[g] = series[h]
    BY <1>1, <1>2 DEF SharedGrid, Hosts
  <2>2. \A h \in Hosts : ~ (h < 1)
    BY DEF Hosts
  <2>. QED
    BY <1>1, <2>1, <2>2 DEF SharedGrid
<1>7. Cursor'
  <2>1. clock <= clock' /\ \A ts \in Nat : ts <= clock => ts <= clock'
    BY <1>1, <1>3
  <2>2. maxTsSeen \in Nat
    BY <1>2 DEF Types
  <2>3. \A p \in Polls : poll[p].at = "answered" =>
            /\ poll[p].now \in Nat
            /\ \A h \in Hosts : \A ts \in Range(poll[p].rows[h]) : ts \in Nat
    BY <1>2, TypesFacts
  <2>. QED
    BY <1>1, <1>2, <2>1, <2>2, <2>3 DEF Cursor
<1>8. SeenTorn'
  <2>1. maxTsSeen # clock'
    BY <1>1, <1>2, <1>3 DEF Cursor, Types
  <2>2. \A p \in Polls : poll[p].at = "answered" =>
            \A h \in Hosts : clock' \notin Range(poll[p].rows[h])
    BY <1>1, <1>2, <1>3 DEF Cursor
  <2>3. clock' \notin torn
    BY <1>1, <1>2, <1>3 DEF Timely
  <2>. QED
    BY <1>1, <2>1, <2>2, <2>3 DEF SeenTorn, CycleSeen
<1>9. TabComplete'
  <2>1. \A h \in Hosts : \A ts \in Range(series[h]) :
            ts >= clock' - Retain => ts >= clock - Retain
    BY <1>1, <1>3
  <2>. QED
    BY <1>1, <1>2, <2>1 DEF TabComplete, Lost
<1>10. AnswersComplete'
  BY <1>1, <1>2 DEF AnswersComplete, Lost
<1>11. OnePoll'
  BY <1>1, <1>2 DEF OnePoll
<1>. QED
  BY <1>4, <1>5, <1>6, <1>7, <1>8, <1>9, <1>10, <1>11 DEF Inv

LEMMA IngestInv == ASSUME Inv, Ingest PROVE Inv'
<1>. DEFINE q == Push(series[next], clock)
<1>1. /\ next > 0 /\ series' = [series EXCEPT ![next] = Push(@, clock)]
      /\ next' = IF next = NHosts THEN 0 ELSE next + 1
      /\ UNCHANGED <<clock, buf, maxTsSeen, poll, torn, overlapped>>
  BY DEF Ingest, tab, history
<1>2. Types /\ Timely /\ SharedGrid /\ Cursor /\ SeenTorn /\ TabComplete /\ AnswersComplete
      /\ OnePoll
  BY DEF Inv
<1>3. /\ clock \in Nat /\ next \in Hosts /\ maxTsSeen \in Nat
      /\ \A h \in Hosts : /\ h \in Nat \ {0} /\ series[h] \in Seq(Times)
                          /\ \A ts \in Range(series[h]) : ts \in Nat \ {0}
  BY <1>1, <1>2, TypesFacts DEF Hosts, Types
<1>4. clock \in Times /\ \A ts \in Range(series[next]) : ts < clock
  <2>1. clock # 0
    BY <1>1, <1>2, <1>3 DEF SeenTorn, CycleSeen, Cursor, Timely
  <2>. QED
    BY <1>1, <1>2, <1>3, <2>1 DEF Timely, Times
<1>5. /\ q \in Seq(Times) /\ Len(q) <= MaxLen /\ Increasing(q)
      /\ \A ts \in Range(q) : ts \in Range(series[next]) \/ ts = clock
  <2>1. Increasing(series[next]) /\ Len(series[next]) <= MaxLen
    BY <1>2, <1>3 DEF SharedGrid, Timely
  <2>. QED
    BY <1>3, <1>4, <2>1, PushFacts
<1>. HIDE DEF q
<1>6. /\ series' \in Rows /\ series'[next] = q
      /\ \A h \in Hosts : h # next => series'[h] = series[h]
  BY <1>1, <1>2, <1>3, <1>5 DEF q, Types, Rows
<1>7. next' \in 0..NHosts /\ next' # 1 /\ \A h \in Hosts : next' > 0 /\ next' <= h => h > next
  BY <1>1, <1>3 DEF Hosts
<1>8. \A h \in Hosts : \A ts \in Range(series'[h]) :
         ts \in Range(series[h]) \/ (ts = clock /\ h = next)
  BY <1>5, <1>6
<1>9. Types'
  BY <1>1, <1>2, <1>6, <1>7 DEF Types
<1>10. Timely'
  <2>1. \A h \in Hosts : Len(series'[h]) <= MaxLen
    BY <1>2, <1>5, <1>6 DEF Timely
  <2>2. ASSUME NEW h \in Hosts, NEW ts \in Range(series'[h])
        PROVE  ts <= clock /\ (next' > 0 /\ next' <= h => ts < clock)
    <3>1. CASE ts \in Range(series[h])
      <4>1. next' > 0 /\ next' <= h => next > 0 /\ next <= h
        BY <1>1, <1>3, <1>7
      <4>. QED
        BY <1>2, <3>1, <4>1 DEF Timely
    <3>2. CASE ts = clock /\ h = next
      BY <1>3, <1>7, <3>2
    <3>. QED
      BY <1>8, <3>1, <3>2
  <2>. QED
    BY <1>1, <1>2, <2>1, <2>2 DEF Timely
<1>11. SharedGrid'
  <2>1. \A h \in Hosts : Increasing(series'[h])
    BY <1>2, <1>5, <1>6 DEF SharedGrid
  <2>2. \A g \in Hosts : g < next => series[g] = Push(series[next], clock)
    BY <1>2, <1>3 DEF SharedGrid
  <2>3. \A h \in Hosts : h > next => series[h] = series[next]
    BY <1>2, <1>3 DEF SharedGrid
  <2>4. \A g \in Hosts : g <= next => series'[g] = q
    BY <1>3, <1>6, <2>2 DEF q
  <2>5. \A h \in Hosts : h > next => series'[h] = series[next]
    BY <1>3, <1>6, <2>3
  <2>6. CASE next = NHosts
    <3>1. \A g, h \in Hosts : ~ (g < 0) /\ series'[g] = series'[h]
      BY <2>4, <2>6 DEF Hosts
    <3>. QED
      BY <1>1, <2>1, <2>6, <3>1 DEF SharedGrid
  <2>7. CASE next # NHosts
    <3>1. \A h \in Hosts : (h < next' <=> h <= next) /\ (next' <= h <=> h > next)
      BY <1>1, <1>3, <2>7
    <3>2. ASSUME NEW g \in Hosts, NEW h \in Hosts, (g < next') = (h < next')
          PROVE  series'[g] = series'[h]
      <4>1. \/ g <= next /\ h <= next
            \/ g > next /\ h > next
        BY <1>3, <3>1, <3>2
      <4>. QED
        BY <2>4, <2>5, <4>1
    <3>3. ASSUME NEW g \in Hosts, NEW h \in Hosts, g < next', next' <= h
          PROVE  series'[g] = Push(series'[h], clock')
      BY <1>1, <2>4, <2>5, <3>1, <3>3 DEF q
    <3>. QED
      BY <2>1, <3>2, <3>3 DEF SharedGrid
  <2>. QED
    BY <2>6, <2>7
<1>12. Cursor'
  BY <1>1, <1>2 DEF Cursor
<1>13. SeenTorn'
  BY <1>1, <1>2, <1>3, <1>7 DEF SeenTorn, CycleSeen
<1>14. ASSUME CycleSeen PROVE clock \in Lost(next)
  BY <1>1, <1>2, <1>3, <1>14 DEF SeenTorn, Lost
<1>15. TabComplete'
  <2>1. SUFFICES ASSUME NEW h \in Hosts, NEW ts \in Range(series'[h]),
                        ts <= maxTsSeen, ts >= clock - Retain, ts \notin Lost(h)
                 PROVE  ts \in Range(buf[h])
    BY <1>1 DEF TabComplete, Lost
  <2>2. CASE ts \in Range(series[h])
    BY <1>2, <2>1, <2>2 DEF TabComplete
  <2>3. CASE ts = clock /\ h = next
    <3>1. CycleSeen
      BY <1>2, <1>3, <2>1, <2>3 DEF CycleSeen, Cursor
    <3>. QED
      BY <1>14, <2>1, <2>3, <3>1
  <2>. QED
    BY <1>8, <2>2, <2>3
<1>16. AnswersComplete'
  <2>1. SUFFICES ASSUME NEW p \in Polls, poll[p].at = "answered", NEW g \in Hosts,
                        NEW h \in Hosts, NEW r \in Range(poll[p].rows[g]),
                        NEW ts \in Range(series'[h]),
                        ts > maxTsSeen, ts <= r, ts \notin Lost(h)
                 PROVE  ts \in Range(poll[p].rows[h])
    BY <1>1 DEF AnswersComplete, Lost
  <2>2. CASE ts \in Range(series[h])
    BY <1>2, <2>1, <2>2 DEF AnswersComplete
  <2>3. CASE ts = clock /\ h = next
    <3>1. r <= clock /\ r \in Nat
      BY <1>2, <2>1, TypesFacts DEF Cursor
    <3>2. r = clock
      BY <1>3, <2>1, <2>3, <3>1
    <3>3. CycleSeen
      BY <2>1, <3>2 DEF CycleSeen
    <3>. QED
      BY <1>14, <2>1, <2>3, <3>3
  <2>. QED
    BY <1>8, <2>2, <2>3
<1>17. OnePoll'
  BY <1>1, <1>2 DEF OnePoll
<1>. QED
  BY <1>9, <1>10, <1>11, <1>12, <1>13, <1>15, <1>16, <1>17 DEF Inv

LEMMA RestartInv == ASSUME Inv, Restart PROVE Inv'
<1>1. /\ series' = NoSeries /\ next' = 0
      /\ poll' = [p \in Polls |-> IF poll[p].at = "sent" THEN NoPoll ELSE poll[p]]
      /\ UNCHANGED <<clock, buf, maxTsSeen, torn, overlapped>>
  BY DEF Restart, tab, history
<1>2. Types /\ Timely /\ Cursor /\ OnePoll
  BY DEF Inv
<1>3. <<>> \in Seq(Times) /\ Range(<<>>) = {} /\ Len(<<>>) = 0 /\ Increasing(<<>>)
  BY DEF Range, Increasing
<1>4. \A h \in Hosts : series'[h] = <<>>
  BY <1>1 DEF NoSeries
<1>5. /\ poll' \in [Polls -> PollStates]
      /\ \A p \in Polls : poll'[p].at = "none" \/ poll'[p] = poll[p]
      /\ \A p \in Polls : poll'[p].at # "sent"
  BY <1>1, <1>2, NoPollFacts DEF Types
<1>6. Types'
  <2>1. series' \in Rows
    BY <1>1, <1>3 DEF NoSeries, Rows
  <2>2. next' \in 0..NHosts
    BY <1>1
  <2>. QED
    BY <1>1, <1>2, <1>5, <2>1, <2>2, Zenon DEF Types
<1>7. Timely'
  BY <1>1, <1>2, <1>3, <1>4 DEF Timely
<1>8. SharedGrid'
  BY <1>1, <1>3, <1>4 DEF SharedGrid, Hosts
<1>9. Cursor'
  <2>1. \A p \in Polls : poll'[p].at = "answered" =>
            /\ poll'[p].now <= clock
            /\ \A h \in Hosts : \A ts \in Range(poll'[p].rows[h]) : ts <= clock
    BY <1>2, <1>5 DEF Cursor
  <2>. QED
    BY <1>1, <1>2, <1>5, <2>1 DEF Cursor
<1>10. SeenTorn'
  BY <1>1 DEF SeenTorn
<1>11. TabComplete'
  BY <1>3, <1>4 DEF TabComplete
<1>12. AnswersComplete'
  BY <1>3, <1>4 DEF AnswersComplete
<1>13. OnePoll'
  <2>1. \A p \in Polls : poll'[p].at # "none" => poll'[p] = poll[p] /\ poll[p].at # "none"
    BY <1>5
  <2>. QED
    BY <1>1, <1>2, <1>5, <2>1 DEF OnePoll
<1>. QED
  BY <1>6, <1>7, <1>8, <1>9, <1>10, <1>11, <1>12, <1>13 DEF Inv

LEMMA ReloadInv == ASSUME Inv, Reload PROVE Inv'
<1>1. /\ buf' = NoSeries /\ maxTsSeen' = 0 /\ poll' = [p \in Polls |-> NoPoll]
      /\ overlapped' = FALSE /\ UNCHANGED <<clock, series, next, torn>>
  BY DEF Reload, server
<1>2. Types /\ Timely /\ SharedGrid /\ Cursor /\ SeenTorn
  BY DEF Inv
<1>3. <<>> \in Seq(Times) /\ Range(<<>>) = {} /\ Increasing(<<>>)
  BY DEF Range, Increasing
<1>4. \A h \in Hosts : buf'[h] = <<>>
  BY <1>1 DEF NoSeries
<1>5. poll' \in [Polls -> PollStates] /\ \A p \in Polls : poll'[p].at = "none"
  BY <1>1, NoPollFacts
<1>6. /\ clock \in Nat /\ next \in Nat
      /\ \A h \in Hosts : \A ts \in Range(series[h]) : ts \in Nat \ {0}
  BY <1>2, TypesFacts
<1>7. Types'
  <2>1. buf' \in Rows
    BY <1>1, <1>3 DEF NoSeries, Rows
  <2>2. maxTsSeen' \in Nat /\ overlapped' \in BOOLEAN
    BY <1>1
  <2>. QED
    BY <1>1, <1>2, <1>5, <2>1, <2>2, Zenon DEF Types
<1>8. Timely'
  BY <1>1, <1>2 DEF Timely
<1>9. SharedGrid'
  BY <1>1, <1>2 DEF SharedGrid
<1>10. Cursor'
  BY <1>1, <1>3, <1>4, <1>5, <1>6 DEF Cursor
<1>11. SeenTorn'
  <2>1. next > 0 => clock # 0
    <3>1. 0 \notin torn /\ (clock = 0 => maxTsSeen = clock)
      BY <1>2 DEF Types, Cursor, Times
    <3>. QED
      BY <1>2, <3>1 DEF SeenTorn, CycleSeen
  <2>. QED
    BY <1>1, <1>2, <1>5, <2>1 DEF SeenTorn, CycleSeen
<1>12. TabComplete'
  BY <1>1, <1>6 DEF TabComplete
<1>13. AnswersComplete'
  BY <1>5 DEF AnswersComplete
<1>14. OnePoll'
  BY <1>3, <1>4, <1>5 DEF OnePoll
<1>. QED
  BY <1>7, <1>8, <1>9, <1>10, <1>11, <1>12, <1>13, <1>14 DEF Inv

LEMMA SendPollInv == ASSUME Inv, NEW p \in Polls, SendPoll(p) PROVE Inv'
<1>. DEFINE state == [at |-> "sent", since |-> maxTsSeen]
<1>1. /\ poll[p].at = "none" /\ poll' = [poll EXCEPT ![p] = state]
      /\ overlapped' = (overlapped \/ \E o \in Polls : poll[o].at # "none")
      /\ UNCHANGED <<clock, series, next, buf, maxTsSeen, torn>>
  BY DEF SendPoll, server, tab
<1>2. Types /\ Timely /\ SharedGrid /\ Cursor /\ SeenTorn /\ TabComplete /\ AnswersComplete
      /\ OnePoll
  BY DEF Inv
<1>3. state \in PollStates /\ state.at = "sent" /\ state.since = maxTsSeen
  BY <1>2 DEF PollStates, Types
<1>. HIDE DEF state
<1>4. /\ poll' \in [Polls -> PollStates] /\ poll'[p] = state
      /\ \A o \in Polls : o # p => poll'[o] = poll[o]
  BY <1>1, <1>2, <1>3, PollFacts, Zenon
<1>5. \A o \in Polls : poll'[o].at = "answered" => poll'[o] = poll[o]
  BY <1>3, <1>4
<1>6. overlapped' \in BOOLEAN
      /\ (~ overlapped' => ~ overlapped /\ \A o \in Polls : poll[o].at = "none")
  BY <1>1, <1>2 DEF Types
<1>7. Types'
  BY <1>1, <1>2, <1>4, <1>6, Zenon DEF Types
<1>8. Timely'
  BY <1>1, <1>2 DEF Timely
<1>9. SharedGrid'
  BY <1>1, <1>2 DEF SharedGrid
<1>10. Cursor'
  <2>1. \A o \in Polls : poll'[o].at = "sent" => poll'[o].since <= maxTsSeen
    BY <1>2, <1>3, <1>4 DEF Cursor, Types
  <2>. QED
    BY <1>1, <1>2, <1>5, <2>1 DEF Cursor
<1>11. SeenTorn'
  BY <1>1, <1>2, <1>5 DEF SeenTorn, CycleSeen
<1>12. TabComplete'
  BY <1>1, <1>2 DEF TabComplete, Lost
<1>13. AnswersComplete'
  BY <1>1, <1>2, <1>5 DEF AnswersComplete, Lost
<1>14. OnePoll'
  <2>1. ASSUME ~ overlapped'
        PROVE  /\ \A h \in Hosts : Increasing(buf[h])
               /\ \A o \in Polls : poll'[o].at # "none" => o = p
               /\ poll'[p].at = "sent" /\ poll'[p].since = maxTsSeen
    BY <1>2, <1>3, <1>4, <1>6, <2>1 DEF OnePoll
  <2>. QED
    BY <1>1, <2>1 DEF OnePoll
<1>. QED
  BY <1>7, <1>8, <1>9, <1>10, <1>11, <1>12, <1>13, <1>14 DEF Inv

LEMMA PollFailsInv == ASSUME Inv, NEW p \in Polls, PollFails(p) PROVE Inv'
<1>1. /\ poll' = [poll EXCEPT ![p] = NoPoll]
      /\ UNCHANGED <<clock, series, next, buf, maxTsSeen, torn, overlapped>>
  BY DEF PollFails, server, tab, history
<1>2. Types /\ Timely /\ SharedGrid /\ Cursor /\ SeenTorn /\ TabComplete /\ AnswersComplete
      /\ OnePoll
  BY DEF Inv
<1>3. /\ poll' \in [Polls -> PollStates] /\ poll'[p] = NoPoll
      /\ \A o \in Polls : o # p => poll'[o] = poll[o]
  BY <1>1, <1>2, NoPollFacts, PollFacts, Zenon
<1>4. \A o \in Polls : poll'[o].at # "none" => poll'[o] = poll[o]
  BY <1>3, NoPollFacts
<1>5. Types'
  BY <1>1, <1>2, <1>3, Zenon DEF Types
<1>6. Timely'
  BY <1>1, <1>2 DEF Timely
<1>7. SharedGrid'
  BY <1>1, <1>2 DEF SharedGrid
<1>8. Cursor'
  BY <1>1, <1>2, <1>4 DEF Cursor
<1>9. SeenTorn'
  BY <1>1, <1>2, <1>4 DEF SeenTorn, CycleSeen
<1>10. TabComplete'
  BY <1>1, <1>2 DEF TabComplete, Lost
<1>11. AnswersComplete'
  BY <1>1, <1>2, <1>4 DEF AnswersComplete, Lost
<1>12. OnePoll'
  BY <1>1, <1>2, <1>4 DEF OnePoll
<1>. QED
  BY <1>5, <1>6, <1>7, <1>8, <1>9, <1>10, <1>11, <1>12 DEF Inv

LEMMA AnswerInv == ASSUME Inv, NEW p \in Polls, Answer(p) PROVE Inv'
<1>. DEFINE rows  == [h \in Hosts |-> Newer(series[h], poll[p].since)]
            state == [at |-> "answered", now |-> clock, rows |-> rows]
<1>1. /\ poll[p].at = "sent" /\ poll' = [poll EXCEPT ![p] = state]
      /\ torn' = IF next > 1 THEN torn \union {clock} ELSE torn
      /\ UNCHANGED <<clock, series, next, buf, maxTsSeen, overlapped>>
  BY DEF Answer, server, tab
<1>2. Types /\ Timely /\ SharedGrid /\ Cursor /\ SeenTorn /\ TabComplete /\ AnswersComplete
      /\ OnePoll
  BY DEF Inv
<1>3. /\ clock \in Nat /\ next \in Nat /\ maxTsSeen \in Nat
      /\ poll[p].since \in Nat /\ poll[p].since <= maxTsSeen
      /\ \A h \in Hosts : /\ series[h] \in Seq(Times)
                          /\ \A ts \in Range(series[h]) : ts \in Nat \ {0}
  BY <1>1, <1>2, TypesFacts DEF Cursor, Types
<1>4. \A h \in Hosts :
         /\ rows[h] \in Seq(Times)
         /\ \A ts \in Range(rows[h]) : ts \in Range(series[h]) /\ ts > poll[p].since
         /\ Increasing(rows[h])
         /\ \A ts \in Range(series[h]) : ts > poll[p].since => ts \in Range(rows[h])
  <2>1. \A h \in Hosts : rows[h] = Newer(series[h], poll[p].since) /\ Increasing(series[h])
    BY <1>2 DEF SharedGrid
  <2>. QED
    BY <1>3, <2>1, NewerFacts
<1>5. state \in PollStates /\ state.at = "answered" /\ state.now = clock /\ state.rows = rows
  <2>1. rows \in Rows
    BY <1>4 DEF Rows
  <2>. HIDE DEF rows
  <2>. QED
    BY <1>3, <2>1 DEF PollStates
<1>. HIDE DEF rows, state
<1>6. /\ poll' \in [Polls -> PollStates] /\ poll'[p] = state
      /\ \A o \in Polls : o # p => poll'[o] = poll[o]
  BY <1>1, <1>2, <1>5, PollFacts, Zenon
<1>7. \A o \in Polls : o # p => poll'[o].at = poll[o].at
  BY <1>6
<1>8. torn \subseteq torn' /\ (next > 1 => clock \in torn') /\ (next <= 1 => torn' = torn)
  BY <1>1, <1>3
<1>9. clock # 0 \/ next <= 1
  <2>1. 0 \notin torn /\ (clock = 0 => maxTsSeen = clock)
    BY <1>2 DEF Types, Cursor, Times
  <2>. QED
    BY <1>2, <1>3, <2>1 DEF SeenTorn, CycleSeen
<1>10. Types'
  <2>1. torn' \subseteq Times
    BY <1>1, <1>2, <1>3, <1>9 DEF Types, Times
  <2>. QED
    BY <1>1, <1>2, <1>6, <2>1, Zenon DEF Types
<1>11. Timely'
  <2>1. torn' \subseteq 1..clock
    BY <1>1, <1>2, <1>3, <1>9 DEF Timely
  <2>. QED
    BY <1>1, <1>2, <2>1, Zenon DEF Timely
<1>12. SharedGrid'
  BY <1>1, <1>2 DEF SharedGrid
<1>13. Cursor'
  <2>1. \A h \in Hosts : \A ts \in Range(rows[h]) : ts <= clock
    BY <1>2, <1>4 DEF Timely
  <2>2. \A o \in Polls : poll'[o].at = "sent" => o # p
    BY <1>5, <1>6
  <2>3. \A o \in Polls : poll'[o].at = "answered" =>
           /\ poll'[o].now <= clock
           /\ \A h \in Hosts : \A ts \in Range(poll'[o].rows[h]) : ts <= clock
    <3>1. clock <= clock
      BY <1>3
    <3>2. \A o \in Polls : o # p => (poll'[o].at = "answered" =>
           /\ poll'[o].now <= clock
           /\ \A h \in Hosts : \A ts \in Range(poll'[o].rows[h]) : ts <= clock)
      BY <1>2, <1>6 DEF Cursor
    <3>. QED
      BY <1>5, <1>6, <2>1, <3>1, <3>2, Zenon
  <2>. QED
    BY <1>1, <1>2, <1>6, <2>2, <2>3 DEF Cursor
<1>14. SeenTorn'
  <2>1. CASE next = 1
    <3>1. \A h \in Hosts : clock \notin Range(rows[h])
      <4>1. \A h \in Hosts : next <= h
        BY <2>1 DEF Hosts
      <4>2. \A h \in Hosts : \A ts \in Range(series[h]) : ts < clock /\ ts \in Nat
        BY <1>2, <1>3, <2>1, <4>1 DEF Timely
      <4>3. \A ts \in Nat : ts < clock => ts # clock
        BY <1>3
      <4>. QED
        BY <1>4, <4>2, <4>3, Zenon
    <3>2. CycleSeen' => CycleSeen
      BY <1>1, <1>5, <1>6, <3>1 DEF CycleSeen
    <3>. QED
      BY <1>1, <1>2, <1>8, <2>1, <3>2 DEF SeenTorn
  <2>2. CASE next # 1
    BY <1>1, <1>3, <1>8, <2>2 DEF SeenTorn
  <2>. QED
    BY <2>1, <2>2
<1>15. TabComplete'
  BY <1>1, <1>2, <1>8 DEF TabComplete, Lost
<1>16. AnswersComplete'
  <2>1. SUFFICES ASSUME NEW o \in Polls, poll'[o].at = "answered", NEW g \in Hosts,
                        NEW h \in Hosts, NEW r \in Range(poll'[o].rows[g]),
                        NEW ts \in Range(series[h]),
                        ts > maxTsSeen, ts <= r, ts \notin Lost(h)'
                 PROVE  ts \in Range(poll'[o].rows[h])
    BY <1>1 DEF AnswersComplete
  <2>2. CASE o = p
    <3>1. ts > poll[p].since
      <4>1. ts \in Nat
        BY <1>3, <2>1
      <4>. QED
        BY <1>3, <2>1, <4>1
    <3>. QED
      BY <1>4, <1>5, <1>6, <2>2, <3>1
  <2>3. CASE o # p
    <3>1. ts \notin Lost(h)
      BY <1>8, <2>1 DEF Lost
    <3>. QED
      BY <1>2, <1>6, <2>1, <2>3, <3>1 DEF AnswersComplete
  <2>. QED
    BY <2>2, <2>3
<1>17. OnePoll'
  <2>1. SUFFICES ASSUME ~ overlapped PROVE OnePoll'
    BY <1>1 DEF OnePoll
  <2>2. \A h \in Hosts : Increasing(buf[h])
    BY <1>2, <2>1 DEF OnePoll
  <2>3. \A o \in Polls : poll'[o].at # "none" => o = p
    BY <1>1, <1>2, <1>7, <2>1 DEF OnePoll
  <2>4. poll[p].since = maxTsSeen
    BY <1>1, <1>2, <2>1 DEF OnePoll
  <2>. QED
    BY <1>1, <1>4, <1>5, <1>6, <2>2, <2>3, <2>4 DEF OnePoll
<1>. QED
  BY <1>10, <1>11, <1>12, <1>13, <1>14, <1>15, <1>16, <1>17 DEF Inv

\* Every row of an answer goes behind the tab's series, and the cursor moves to
\* the newest of them.
LEMMA MergeFacts ==
    ASSUME Inv, NEW p \in Polls, Merge(p)
    PROVE  /\ maxTsSeen' \in Nat /\ maxTsSeen <= maxTsSeen' /\ maxTsSeen' <= clock
           /\ \/ maxTsSeen' = maxTsSeen
              \/ \E h \in Hosts : maxTsSeen' \in Range(poll[p].rows[h])
           /\ \A h \in Hosts :
                 /\ buf'[h] = Trim(buf[h] \o poll[p].rows[h], poll[p].now)
                 /\ buf'[h] \in Seq(Times)
                 /\ \A ts \in Range(buf'[h]) : ts <= maxTsSeen'
                 /\ \A ts \in Nat : /\ ts >= clock - Retain
                                    /\ ts \in Range(buf[h]) \/ ts \in Range(poll[p].rows[h])
                                    => ts \in Range(buf'[h])
<1>. DEFINE rows == poll[p].rows
            now  == poll[p].now
<1>1. /\ poll[p].at = "answered"
      /\ buf' = [h \in Hosts |-> Trim(buf[h] \o rows[h], now)]
      /\ maxTsSeen' = Max(Seen(rows))
  BY DEF Merge
<1>2. Types /\ Cursor
  BY DEF Inv
<1>3. /\ clock \in Nat /\ maxTsSeen \in Nat /\ maxTsSeen <= clock /\ now \in Nat /\ now <= clock
      /\ \A h \in Hosts : buf[h] \in Seq(Times) /\ rows[h] \in Seq(Times)
      /\ \A h \in Hosts : \A ts \in Range(rows[h]) : ts \in Nat /\ ts <= clock
      /\ \A h \in Hosts : \A ts \in Range(buf[h]) : ts \in Nat /\ ts <= maxTsSeen
  BY <1>1, <1>2, TypesFacts DEF Cursor, Types
<1>. HIDE DEF rows, now
<1>4. maxTsSeen' \in Seen(rows) /\ \A ts \in Seen(rows) : maxTsSeen' >= ts
  <2>1. Seen(rows) \in SUBSET Nat /\ Seen(rows) # {} /\ \A ts \in Seen(rows) : ts <= clock
    BY <1>3 DEF Seen
  <2>. QED
    BY <1>1, <1>3, <2>1, MaxFacts
<1>5. /\ maxTsSeen \in Seen(rows)
      /\ \A h \in Hosts : \A ts \in Range(rows[h]) : ts \in Seen(rows)
      /\ \A ts \in Seen(rows) : ts = maxTsSeen \/ \E h \in Hosts : ts \in Range(rows[h])
  BY DEF Seen
<1>6. /\ maxTsSeen' \in Nat /\ maxTsSeen <= maxTsSeen' /\ maxTsSeen' <= clock
      /\ maxTsSeen' = maxTsSeen \/ \E h \in Hosts : maxTsSeen' \in Range(rows[h])
      /\ \A h \in Hosts : \A ts \in Range(rows[h]) : ts <= maxTsSeen'
  BY <1>3, <1>4, <1>5
<1>7. ASSUME NEW h \in Hosts
      PROVE  /\ buf'[h] = Trim(buf[h] \o rows[h], now)
             /\ buf'[h] \in Seq(Times)
             /\ \A ts \in Range(buf'[h]) : ts <= maxTsSeen'
             /\ \A ts \in Nat : /\ ts >= clock - Retain
                                /\ ts \in Range(buf[h]) \/ ts \in Range(rows[h])
                                => ts \in Range(buf'[h])
  <2>. DEFINE q == buf[h] \o rows[h]
  <2>1. q \in Seq(Times) /\ \A ts : ts \in Range(q) <=> ts \in Range(buf[h]) \/ ts \in Range(rows[h])
    BY <1>3, JoinFacts
  <2>. HIDE DEF q
  <2>2. buf'[h] = Trim(q, now)
    BY <1>1 DEF q
  <2>3. /\ buf'[h] \in Seq(Times)
        /\ \A ts \in Range(buf'[h]) : ts \in Range(q)
        /\ \A ts \in Range(q) : ts >= now - Retain => ts \in Range(buf'[h])
    BY <1>3, <2>1, <2>2, TrimFacts
  <2>4. ASSUME NEW ts \in Range(buf'[h]) PROVE ts <= maxTsSeen'
    <3>1. CASE ts \in Range(buf[h])
      <4>1. ts \in Nat /\ ts <= maxTsSeen
        BY <1>3, <3>1
      <4>. QED
        BY <1>3, <1>6, <4>1
    <3>2. CASE ts \in Range(rows[h])
      BY <1>6, <3>2
    <3>. QED
      BY <2>1, <2>3, <3>1, <3>2
  <2>5. \A ts \in Nat : ts >= clock - Retain => ts >= now - Retain
    BY <1>3
  <2>. QED
    BY <2>1, <2>2, <2>3, <2>4, <2>5 DEF q
<1>. QED
  BY <1>6, <1>7 DEF rows, now

LEMMA MergeInv == ASSUME Inv, NEW p \in Polls, Merge(p) PROVE Inv'
<1>1. /\ poll[p].at = "answered" /\ poll' = [poll EXCEPT ![p] = NoPoll]
      /\ buf' = [h \in Hosts |-> Trim(buf[h] \o poll[p].rows[h], poll[p].now)]
      /\ UNCHANGED <<clock, series, next, torn, overlapped>>
  BY DEF Merge, server, history
<1>2. Types /\ Timely /\ SharedGrid /\ Cursor /\ SeenTorn /\ TabComplete /\ AnswersComplete
      /\ OnePoll
  BY DEF Inv
<1>3. /\ poll' \in [Polls -> PollStates] /\ poll'[p] = NoPoll
      /\ \A o \in Polls : o # p => poll'[o] = poll[o]
  BY <1>1, <1>2, NoPollFacts, PollFacts, Zenon
<1>4. \A o \in Polls : poll'[o].at # "none" => poll'[o] = poll[o] /\ o # p
  BY <1>3, NoPollFacts
<1>5. /\ maxTsSeen' \in Nat /\ maxTsSeen <= maxTsSeen' /\ maxTsSeen' <= clock
      /\ \/ maxTsSeen' = maxTsSeen
         \/ \E h \in Hosts : maxTsSeen' \in Range(poll[p].rows[h])
      /\ \A h \in Hosts :
            /\ buf'[h] = Trim(buf[h] \o poll[p].rows[h], poll[p].now)
            /\ buf'[h] \in Seq(Times)
            /\ \A ts \in Range(buf'[h]) : ts <= maxTsSeen'
            /\ \A ts \in Nat : /\ ts >= clock - Retain
                               /\ ts \in Range(buf[h]) \/ ts \in Range(poll[p].rows[h])
                               => ts \in Range(buf'[h])
  BY MergeFacts
<1>6. /\ clock \in Nat /\ maxTsSeen \in Nat
      /\ \A h \in Hosts : \A ts \in Range(series[h]) : ts \in Nat
      /\ \A o \in Polls : poll[o].at = "sent" => poll[o].since \in Nat
  BY <1>2, TypesFacts DEF Types
<1>7. Types'
  <2>1. buf' \in Rows
    BY <1>1, <1>5 DEF Rows
  <2>. QED
    BY <1>1, <1>2, <1>3, <1>5, <2>1, Zenon DEF Types
<1>8. Timely'
  BY <1>1, <1>2 DEF Timely
<1>9. SharedGrid'
  BY <1>1, <1>2 DEF SharedGrid
<1>10. Cursor'
  <2>1. \A o \in Polls : poll'[o].at = "sent" => poll'[o].since <= maxTsSeen'
    BY <1>2, <1>4, <1>5, <1>6 DEF Cursor
  <2>2. \A o \in Polls : poll'[o].at = "answered" =>
           /\ poll'[o].now <= clock
           /\ \A h \in Hosts : \A ts \in Range(poll'[o].rows[h]) : ts <= clock
    BY <1>2, <1>4 DEF Cursor
  <2>. QED
    BY <1>1, <1>5, <2>1, <2>2 DEF Cursor
<1>11. SeenTorn'
  <2>1. CycleSeen' => CycleSeen
    BY <1>1, <1>4, <1>5 DEF CycleSeen
  <2>. QED
    BY <1>1, <1>2, <2>1 DEF SeenTorn
<1>12. TabComplete'
  <2>1. SUFFICES ASSUME NEW h \in Hosts, NEW ts \in Range(series[h]),
                        ts <= maxTsSeen', ts >= clock - Retain, ts \notin Lost(h)
                 PROVE  ts \in Range(buf'[h])
    BY <1>1 DEF TabComplete, Lost
  <2>2. CASE ts <= maxTsSeen
    BY <1>2, <1>5, <1>6, <2>1, <2>2 DEF TabComplete
  <2>3. CASE ts > maxTsSeen
    <3>1. PICK g \in Hosts : maxTsSeen' \in Range(poll[p].rows[g])
      BY <1>5, <1>6, <2>1, <2>3
    <3>2. ts \in Range(poll[p].rows[h])
      BY <1>1, <1>2, <2>1, <2>3, <3>1 DEF AnswersComplete
    <3>. QED
      BY <1>5, <1>6, <2>1, <3>2
  <2>. QED
    BY <1>6, <2>2, <2>3
<1>13. AnswersComplete'
  <2>1. SUFFICES ASSUME NEW o \in Polls, poll'[o].at = "answered", NEW g \in Hosts,
                        NEW h \in Hosts, NEW r \in Range(poll'[o].rows[g]),
                        NEW ts \in Range(series[h]),
                        ts > maxTsSeen', ts <= r, ts \notin Lost(h)
                 PROVE  ts \in Range(poll'[o].rows[h])
    BY <1>1 DEF AnswersComplete, Lost
  <2>2. ts > maxTsSeen
    <3>1. ts \in Nat
      BY <1>6, <2>1
    <3>2. maxTsSeen' \in Nat /\ maxTsSeen <= maxTsSeen'
      BY <1>5
    <3>. QED
      BY <1>6, <2>1, <3>1, <3>2
  <2>. QED
    BY <1>2, <1>4, <2>1, <2>2 DEF AnswersComplete
<1>14. OnePoll'
  <2>1. SUFFICES ASSUME ~ overlapped PROVE OnePoll'
    BY <1>1 DEF OnePoll
  <2>2. \A o \in Polls : poll'[o].at = "none"
    BY <1>1, <1>2, <1>4, <2>1 DEF OnePoll
  <2>3. ASSUME NEW h \in Hosts PROVE Increasing(buf'[h])
    <3>. DEFINE b == buf[h]
                r == poll[p].rows[h]
    <3>1. b \in Seq(Times) /\ r \in Seq(Times) /\ poll[p].now \in Nat
      BY <1>1, <1>2, TypesFacts
    <3>2. \A t \in Range(b) : t \in Nat /\ t <= maxTsSeen
      BY <1>2, TypesFacts DEF Cursor
    <3>3. \A t \in Range(r) : t \in Nat /\ t > maxTsSeen
      BY <1>1, <1>2, <2>1, TypesFacts DEF OnePoll
    <3>4. Increasing(b) /\ Increasing(r)
      BY <1>1, <1>2, <2>1 DEF OnePoll
    <3>5. buf'[h] = Trim(b \o r, poll[p].now)
      BY <1>5
    <3>. HIDE DEF b, r
    <3>6. \A s \in Range(b), t \in Range(r) : s < t
      BY <1>6, <3>2, <3>3
    <3>7. b \o r \in Seq(Times) /\ Increasing(b \o r)
      BY <3>1, <3>4, <3>6, JoinFacts
    <3>. QED
      BY <3>1, <3>5, <3>7, TrimFacts
  <2>. QED
    BY <2>2, <2>3 DEF OnePoll
<1>. QED
  BY <1>7, <1>8, <1>9, <1>10, <1>11, <1>12, <1>13, <1>14 DEF Inv

LEMMA StutterInv == ASSUME Inv, UNCHANGED vars PROVE Inv'
<1>1. UNCHANGED <<clock, series, next, poll, buf, maxTsSeen, torn, overlapped>>
  BY DEF vars, server, tab, history
<1>2. (Types /\ Timely /\ SharedGrid /\ Cursor)'
  BY <1>1 DEF Inv, Types, Timely, SharedGrid, Cursor
<1>3. (SeenTorn /\ TabComplete /\ AnswersComplete /\ OnePoll)'
  BY <1>1 DEF Inv, SeenTorn, CycleSeen, TabComplete, AnswersComplete, Lost, OnePoll
<1>. QED
  BY <1>2, <1>3 DEF Inv

THEOREM InvInductive == Inv /\ [Next]_vars => Inv'
<1>1. SUFFICES ASSUME Inv, Next PROVE Inv'
  BY StutterInv
<1>2. CASE StartCycle
  BY <1>1, <1>2, StartCycleInv
<1>3. CASE Ingest
  BY <1>1, <1>3, IngestInv
<1>4. CASE Restart
  BY <1>1, <1>4, RestartInv
<1>5. CASE Reload
  BY <1>1, <1>5, ReloadInv
<1>6. ASSUME NEW p \in Polls, SendPoll(p) \/ Answer(p) \/ PollFails(p) \/ Merge(p) PROVE Inv'
  BY <1>1, <1>6, SendPollInv, AnswerInv, PollFailsInv, MergeInv
<1>. QED
  BY <1>1, <1>2, <1>3, <1>4, <1>5, <1>6 DEF Next

THEOREM InvCorrect == Spec => []Inv
BY InitInv, InvInductive, PTL DEF Spec

-----------------------------------------------------------------------------
(* What follows from it. *)

\* Type correctness: no sample is from the future, and no deque exceeds its maxlen.
THEOREM TypeCorrect == Spec => []TypeOK
<1>1. ASSUME Inv PROVE TypeOK
  <2>1. Types /\ Timely /\ Cursor
    BY <1>1 DEF Inv
  <2>2. ASSUME NEW q \in Seq(Times), \A ts \in Range(q) : ts <= clock
        PROVE  q \in Seq(1..clock)
    <3>1. /\ Len(q) \in Nat /\ q \in [1..Len(q) -> Times]
          /\ \A i \in 1..Len(q) : q[i] \in Range(q) /\ q[i] \in Nat \ {0}
      BY LenProperties, SeriesFacts DEF Times
    <3>2. q \in [1..Len(q) -> 1..clock]
      BY <2>1, <2>2, <3>1 DEF Types
    <3>3. Seq(1..clock) = UNION {[1..n -> 1..clock] : n \in Nat}
      BY SeqDef
    <3>4. \E n \in Nat : q \in [1..n -> 1..clock]
      BY <3>1, <3>2, Zenon
    <3>. QED
      BY <3>3, <3>4, Zenon
  <2>3. ASSUME NEW h \in Hosts
        PROVE  series[h] \in Seq(1..clock) /\ Len(series[h]) <= MaxLen /\ buf[h] \in Seq(1..clock)
    <3>1. /\ series[h] \in Seq(Times) /\ \A ts \in Range(series[h]) : ts <= clock
          /\ Len(series[h]) <= MaxLen
      BY <2>1, TypesFacts DEF Timely
    <3>2. buf[h] \in Seq(Times) /\ \A ts \in Range(buf[h]) : ts \in Nat /\ ts <= maxTsSeen
      BY <2>1, TypesFacts DEF Cursor
    <3>3. \A ts \in Range(buf[h]) : ts <= clock
      BY <2>1, <3>2 DEF Cursor, Types
    <3>. QED
      BY <2>2, <3>1, <3>2, <3>3
  <2>4. clock \in 0..MaxTime /\ next \in 0..NHosts /\ maxTsSeen \in 0..clock
    BY <2>1 DEF Types, Cursor
  <2>5. \A p \in Polls : poll[p].at \in {"none", "sent", "answered"}
    BY <2>1, TypesFacts
  <2>6. torn \subseteq 1..clock /\ overlapped \in BOOLEAN
    BY <2>1 DEF Types, Timely
  <2>. QED
    BY <2>3, <2>4, <2>5, <2>6 DEF TypeOK
<1>. QED
  BY <1>1, InvCorrect, PTL

\* History's promise of one x-axis grid, also while a cycle is between two hosts
\* and across restarts of the service.
THEOREM SharedGridCorrect == Spec => []SharedGrid
BY InvCorrect, PTL DEF Inv

\* While a tab's polls do not overlap its buffers are in time order, each sample once.
THEOREM BuffersSortedCorrect == Spec => []BuffersSorted
<1>1. Inv => BuffersSorted
  BY DEF Inv, OnePoll, BuffersSorted
<1>. QED
  BY <1>1, InvCorrect, PTL

\* Delta polling loses nothing of the reference chip.
THEOREM ReferenceCompleteCorrect == Spec => []ReferenceComplete
<1>1. 1 \in Hosts
  BY DEF Hosts
<1>2. Inv => ReferenceComplete
  BY <1>1 DEF Inv, TabComplete, Lost, ReferenceComplete
<1>. QED
  BY <1>2, InvCorrect, PTL

\* Of the other chips it loses only cycles that an answer has seen torn.
THEOREM OnlyTornCyclesLostCorrect == Spec => []OnlyTornCyclesLost
<1>1. \A h \in Hosts : Lost(h) \subseteq torn
  BY DEF Lost
<1>2. Inv => OnlyTornCyclesLost
  BY <1>1 DEF Inv, TabComplete, OnlyTornCyclesLost
<1>. QED
  BY <1>2, InvCorrect, PTL
=============================================================================
