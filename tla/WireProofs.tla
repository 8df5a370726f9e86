---------------------------- MODULE WireProofs ------------------------------
(***************************************************************************)
(* The event that monitoring takes from the logs of a transaction is of    *)
(* the feed's own program, and an envelope's price of a token comes from   *)
(* the feed's last successful transmission, for logs of any length and     *)
(* calls of any depth. What the program reads from a transmission is what  *)
(* the oracles put into it, and a faulty minority does not move the        *)
(* medians, for any oracles, observations and epochs. Go and Rust compute  *)
(* the same digests, and a configuration in force is the one given, for    *)
(* any configuration and any size of its chunks.                           *)
(***************************************************************************)
EXTENDS Envelope, Reports, Digests, FiniteSetTheorems, FunctionTheorems,
        SequenceTheorems, WellFoundedInduction, TLAPS

(* A set of naturals has a least element. *)
LEMMA LeastOf ==
  ASSUME NEW T \in SUBSET Nat, T # {}
  PROVE  \E n \in T : \A m \in T : n <= m
  <1>1. PICK n \in T : \A m \in T : ~(<<m, n>> \in OpToRel(<, Nat))
    BY WFMin, NatLessThanWellFounded
  <1>2. ASSUME NEW m \in T PROVE n <= m
    <2>1. n \in Nat /\ m \in Nat  OBVIOUS
    <2>2. ~(m < n)  BY <1>1, <2>1 DEF OpToRel
    <2> QED  BY <2>1, <2>2
  <1> QED  BY <1>2

-----------------------------------------------------------------------------
(***************************************************************************)
(* The recursions over sequences, those of the parser and of Own over log  *)
(* lines and that of FlattenSeq over sequences, by where they start and    *)
(* how they take one line.                                                 *)
(***************************************************************************)
AtStart(what) ==
  IF what = "parser" THEN [stack |-> <<>>, output |-> <<>>, ended |-> FALSE]
  ELSE <<>>

OwnAfter(s, l) == IF IsOwn(l) THEN Append(s, l.event.juels) ELSE s

Taken(what, s, l) ==
  IF what = "parser" THEN Parsed(s, l, Ocr2)
  ELSE IF what = "flatten" THEN s \o l
  ELSE OwnAfter(s, l)

(* g holds what there is after each of the first n lines. *)
Takes(what, ls, n, g) ==
  g = [i \in 0..n |-> IF i = 0 THEN AtStart(what)
                      ELSE Taken(what, g[i-1], ls[i])]

After(what, ls) == (CHOOSE g : Takes(what, ls, Len(ls), g))[Len(ls)]

(* Each line is taken from what there was before it. *)
LineByLine(what, ls, n, g) ==
  \A i \in 1..n : g[i] = Taken(what, g[i-1], ls[i])

(* What the recursion holds at each line. *)
LEMMA TakesAt ==
  ASSUME NEW what, NEW ls, NEW n \in Nat, NEW g, Takes(what, ls, n, g)
  PROVE  g[0] = AtStart(what) /\ LineByLine(what, ls, n, g)
  <1> DEFINE e(h, k) == IF k = 0 THEN AtStart(what) ELSE Taken(what, h[k-1], ls[k])
             G == [k \in 0..n |-> e(g, k)]
  <1>1. g = G  BY DEF Takes
  <1>2. ASSUME NEW i \in 0..n PROVE g[i] = e(g, i)
    <2>1. G[i] = e(g, i)  BY Zenon
    <2> QED  BY <1>1, <2>1, Zenon
  <1>3. g[0] = AtStart(what)
    <2>1. 0 \in 0..n  OBVIOUS
    <2>2. g[0] = e(g, 0)  BY <1>2, <2>1, Zenon
    <2> QED  BY <2>2, Zenon
  <1>4. ASSUME NEW i \in 1..n PROVE g[i] = Taken(what, g[i-1], ls[i])
    <2>1. i \in 0..n /\ i # 0  OBVIOUS
    <2>2. g[i] = e(g, i)  BY <1>2, <2>1, Zenon
    <2> QED  BY <2>1, <2>2, Zenon
  <1> QED  BY <1>3, <1>4, Zenon DEF LineByLine

Alike(ls, ms, n) == \A i \in 1..n : ls[i] = ms[i]

(* The first lines are taken alike, whatever follows. *)
LEMMA TakesAgree ==
  ASSUME NEW what, NEW ls, NEW ms, NEW n \in Nat, NEW m \in Nat, n <= m,
         NEW g, NEW h, Takes(what, ls, n, g), Takes(what, ms, m, h),
         Alike(ls, ms, n)
  PROVE  g[n] = h[n]
  <1> DEFINE C == {i \in 0..n : g[i] # h[i]}
  <1> SUFFICES ASSUME C # {} PROVE FALSE
    <2>1. n \in 0..n  OBVIOUS
    <2> QED  BY <2>1
  <1>1. PICK i \in C : \A k \in C : i <= k
    <2>1. C \in SUBSET Nat  OBVIOUS
    <2> HIDE DEF C
    <2> QED  BY <2>1, LeastOf
  <1>2. i \in 0..n /\ i \in 0..m /\ g[i] # h[i]  OBVIOUS
  <1>g. g[0] = AtStart(what) /\ LineByLine(what, ls, n, g)
    BY TakesAt, Zenon
  <1>h. h[0] = AtStart(what) /\ LineByLine(what, ms, m, h)
    BY TakesAt, Zenon
  <1>3. CASE i = 0
    BY <1>2, <1>3, <1>g, <1>h
  <1>4. CASE i # 0
    <2>3. i - 1 \in 0..n /\ ~(i <= i - 1) /\ i \in 1..n /\ i \in 1..m  BY <1>2, <1>4
    <2>1. g[i] = Taken(what, g[i-1], ls[i])  BY <2>3, <1>g, Zenon DEF LineByLine
    <2>2. h[i] = Taken(what, h[i-1], ms[i])  BY <2>3, <1>h, Zenon DEF LineByLine
    <2>4. g[i-1] = h[i-1]  BY <1>1, <2>3
    <2>5. ls[i] = ms[i]  BY <2>3 DEF Alike
    <2> QED  BY <1>2, <2>1, <2>2, <2>4, <2>5
  <1> QED  BY <1>3, <1>4

(* The recursion has a solution. *)
LEMMA TakesExists ==
  ASSUME NEW what, NEW ls, NEW n \in Nat
  PROVE  \E g : Takes(what, ls, n, g)
  <1> DEFINE C == {m \in Nat : ~\E g : Takes(what, ls, m, g)}
  <1> SUFFICES ASSUME C # {} PROVE FALSE  OBVIOUS
  <1>1. PICK m \in C : \A k \in C : m <= k
    <2>1. C \in SUBSET Nat  OBVIOUS
    <2> HIDE DEF C
    <2> QED  BY <2>1, LeastOf
  <1>2. m \in Nat /\ ~\E g : Takes(what, ls, m, g)  OBVIOUS
  <1>3. CASE m = 0
    <2> DEFINE G == [i \in 0..0 |-> AtStart(what)]
               e(i) == IF i = 0 THEN AtStart(what) ELSE Taken(what, G[i-1], ls[i])
    <2>1. \A i \in 0..0 : e(i) = AtStart(what)
      <3> HIDE DEF G
      <3> QED  OBVIOUS
    <2>2. G = [i \in 0..0 |-> e(i)]
      <3>0. G = [i \in 0..0 |-> AtStart(what)]  OBVIOUS
      <3> HIDE DEF e, G
      <3> QED  BY <2>1, <3>0
    <2>3. Takes(what, ls, 0, G)
      <3> HIDE DEF G
      <3> QED  BY <2>2 DEF Takes
    <2> HIDE DEF G
    <2> QED  BY <1>2, <1>3, <2>3
  <1>4. CASE m # 0
    <2>1. m - 1 \in Nat /\ ~(m <= m - 1)  BY <1>2, <1>4
    <2>2. PICK g : Takes(what, ls, m - 1, g)  BY <1>1, <2>1
    <2>g. g[0] = AtStart(what) /\ LineByLine(what, ls, m - 1, g)
      BY <2>1, <2>2, TakesAt, Zenon
    <2> DEFINE G == [i \in 0..m |->
                       IF i = m THEN Taken(what, g[i-1], ls[i]) ELSE g[i]]
               e(i) == IF i = 0 THEN AtStart(what) ELSE Taken(what, G[i-1], ls[i])
    <2>3. \A i \in 0..m - 1 : G[i] = g[i]  BY <1>2
    <2>4. G[m] = Taken(what, g[m-1], ls[m])
      <3>1. m \in 0..m  BY <1>2
      <3> QED  BY <3>1, Zenon
    <2>5. \A i \in 0..m : G[i] = e(i)
      <3> SUFFICES ASSUME NEW i \in 0..m PROVE G[i] = e(i)  OBVIOUS
      <3> HIDE DEF G
      <3>1. CASE i = m
        <4>1. G[m-1] = g[m-1]  BY <1>2, <2>1, <2>3
        <4> QED  BY <1>4, <2>4, <3>1, <4>1
      <3>2. CASE i # m
        <4>1. i \in 0..m - 1  BY <1>2, <3>2
        <4>2. G[i] = g[i]  BY <2>3, <4>1
        <4>3. CASE i = 0
          <5>1. g[i] = AtStart(what)  BY <2>g, <4>3
          <5> QED  BY <4>2, <4>3, <5>1
        <4>4. CASE i # 0
          <5>1. g[i] = Taken(what, g[i-1], ls[i])
            <6>1. i \in 1..m - 1  BY <4>1, <4>4
            <6> QED  BY <2>g, <6>1, Zenon DEF LineByLine
          <5>2. i - 1 \in 0..m - 1  BY <1>2, <4>1, <4>4
          <5>3. G[i-1] = g[i-1]  BY <2>3, <5>2
          <5> QED  BY <4>2, <4>4, <5>1, <5>3
        <4> QED  BY <4>3, <4>4
      <3> QED  BY <3>1, <3>2
    <2>6. G = [i \in 0..m |-> e(i)]
      <3>1. G = [i \in 0..m |-> G[i]]  BY Zenon
      <3> HIDE DEF e, G
      <3> QED  BY <2>5, <3>1
    <2>7. Takes(what, ls, m, G)
      <3> HIDE DEF G
      <3> QED  BY <2>6 DEF Takes
    <2> HIDE DEF G
    <2> QED  BY <1>2, <2>7
  <1> QED  BY <1>3, <1>4

(* One more line is one more step. *)
LEMMA AfterStep ==
  ASSUME NEW what, NEW S, NEW ls \in Seq(S), NEW l \in S
  PROVE  After(what, Append(ls, l)) = Taken(what, After(what, ls), l)
  <1> DEFINE n == Len(ls)
             ms == Append(ls, l)
             g == CHOOSE h : Takes(what, ls, n, h)
             k == CHOOSE h : Takes(what, ms, n + 1, h)
  <1>1. /\ n \in Nat /\ n + 1 \in Nat /\ n <= n + 1 /\ Len(ms) = n + 1
        /\ ms[n+1] = l /\ \A i \in 1..n : ls[i] = ms[i]
    OBVIOUS
  <1>2. Takes(what, ls, n, g)  BY <1>1, TakesExists
  <1>3. Takes(what, ms, n + 1, k)
    <2> HIDE DEF n, ms
    <2> QED  BY <1>1, TakesExists
  <1>4. After(what, ls) = g[n]  BY DEF After
  <1>5. After(what, ms) = k[n+1]
    <2> HIDE DEF ms, n
    <2> QED  BY <1>1 DEF After
  <1> HIDE DEF n, ms, g, k
  <1>6. n + 1 \in 0..n + 1 /\ n + 1 # 0 /\ (n + 1) - 1 = n /\ n \in 0..n
    BY <1>1
  <1>7. k[n+1] = Taken(what, k[n], ms[n+1])
    <2>1. n + 1 \in 1..n + 1  BY <1>1
    <2>2. LineByLine(what, ms, n + 1, k)
      BY <1>1, <1>3, TakesAt, Zenon
    <2>3. k[n+1] = Taken(what, k[(n+1)-1], ms[n+1])  BY <2>1, <2>2, Zenon DEF LineByLine
    <2> QED  BY <1>6, <2>3
  <1>8. g[n] = k[n]
    <2>1. Alike(ls, ms, n)  BY <1>1 DEF Alike
    <2>2. PICK m \in Nat : m = n + 1  BY <1>1
    <2>3. n \in Nat /\ n <= m /\ Takes(what, ms, m, k)
      BY <1>1, <1>3, <2>2
    <2> QED  BY <1>2, <2>1, <2>3, TakesAgree
  <1> QED  BY <1>1, <1>4, <1>5, <1>7, <1>8 DEF ms

(* Before the first line. *)
LEMMA AfterStart ==
  ASSUME NEW what PROVE After(what, <<>>) = AtStart(what)
  <1> DEFINE g == CHOOSE h : Takes(what, <<>>, 0, h)
  <1>1. Takes(what, <<>>, 0, g)  BY TakesExists
  <1>2. After(what, <<>>) = g[0]  BY DEF After
  <1> HIDE DEF g
  <1>3. 0 \in 0..0 /\ 0 \in Nat  OBVIOUS
  <1>4. g[0] = AtStart(what)  BY <1>1, <1>3, TakesAt, Zenon
  <1> QED  BY <1>2, <1>4

(* ExtractEvents returns the output of the parser. *)
LEMMA ExtractIs ==
  ASSUME NEW ls
  PROVE  ExtractEvents(ls, Ocr2) = After("parser", ls).output
  <1> DEFINE P(g) == g = [i \in 0..Len(ls) |->
                            IF i = 0 THEN [stack |-> <<>>, output |-> <<>>,
                                           ended |-> FALSE]
                            ELSE Parsed(g[i-1], ls[i], Ocr2)]
  <1>1. \A g : P(g) <=> Takes("parser", ls, Len(ls), g)
    BY Zenon DEF Takes, AtStart, Taken
  <1>2. ExtractEvents(ls, Ocr2) = (CHOOSE g : P(g))[Len(ls)].output
    BY Zenon DEF ExtractEvents
  <1> HIDE DEF P
  <1>3. (CHOOSE g : P(g)) = CHOOSE g : Takes("parser", ls, Len(ls), g)
    BY <1>1, Zenon
  <1> QED  BY <1>2, <1>3 DEF After

(* Own is the recursion that collects the feed's own transmissions. *)
LEMMA OwnIs ==
  ASSUME NEW ls PROVE Own(ls) = After("own", ls)
  <1> DEFINE P(g) == g = [i \in 0..Len(ls) |->
                            IF i = 0 THEN <<>>
                            ELSE IF IsOwn(ls[i])
                                 THEN Append(g[i-1], ls[i].event.juels)
                                 ELSE g[i-1]]
  <1>1. \A g : P(g) <=> Takes("own", ls, Len(ls), g)
    BY Zenon DEF Takes, AtStart, Taken, OwnAfter
  <1>2. Own(ls) = (CHOOSE g : P(g))[Len(ls)]
    BY Zenon DEF Own
  <1> HIDE DEF P
  <1>3. (CHOOSE g : P(g)) = CHOOSE g : Takes("own", ls, Len(ls), g)
    BY <1>1, Zenon
  <1> QED  BY <1>2, <1>3 DEF After

-----------------------------------------------------------------------------
(***************************************************************************)
(* What the parser has found in the log of the transaction under way: its  *)
(* stack is that of the runtime, it has not given up, and the prices of    *)
(* the transmissions in its output are ones that the feed's own program    *)
(* logged.                                                                 *)
(***************************************************************************)
Program == Others \cup {Ocr2}
Juels == Nat \cup {Foreign}
Event == [type : {"NewTransmission", "word"}, juels : Juels]
LogLine == [kind : {"invoke", "log", "success", "text"}, program : Program,
            event : Event]
ParserState == [stack : Seq(Program), output : Seq(Event), ended : BOOLEAN]
Tx == [err : BOOLEAN, events : Seq(Event)]

OfTheFeed(events, prices) ==
  \A k \in DOMAIN events :
     events[k].type = "NewTransmission" => events[k].juels \in ToSet(prices)

Parsing(ls, st) ==
  /\ ls \in Seq(LogLine) /\ st \in Seq(Program)
  /\ After("parser", ls) \in ParserState
  /\ After("parser", ls).stack = st /\ After("parser", ls).ended = FALSE
  /\ Own(ls) \in Seq(Juels)
  /\ OfTheFeed(After("parser", ls).output, Own(ls))

(* The elements of two sequences. *)
LEMMA ToSetConcat ==
  ASSUME NEW S, NEW s \in Seq(S), NEW t \in Seq(S)
  PROVE  ToSet(s \o t) = ToSet(s) \cup ToSet(t)
  <1> DEFINE u == s \o t
  <1>1. /\ u \in Seq(S) /\ Len(u) = Len(s) + Len(t)
        /\ Len(s) \in Nat /\ Len(t) \in Nat
        /\ DOMAIN s = 1..Len(s) /\ DOMAIN t = 1..Len(t) /\ DOMAIN u = 1..Len(u)
    OBVIOUS
  <1>2. \A i \in 1..Len(s) : u[i] = s[i]  OBVIOUS
  <1>3. \A i \in 1..Len(t) : u[Len(s) + i] = t[i]  OBVIOUS
  <1>4. \A i \in 1..Len(u) : i > Len(s) => u[i] = t[i - Len(s)]  OBVIOUS
  <1> HIDE DEF u
  <1>5. ASSUME NEW x \in ToSet(u) PROVE x \in ToSet(s) \cup ToSet(t)
    <2>1. PICK i \in 1..Len(u) : x = u[i]  BY <1>1 DEF ToSet
    <2>2. CASE i <= Len(s)
      <3>1. i \in 1..Len(s)  BY <1>1, <2>2
      <3> QED  BY <1>1, <1>2, <2>1, <3>1 DEF ToSet
    <2>3. CASE i > Len(s)
      <3>1. i - Len(s) \in 1..Len(t)  BY <1>1, <2>3
      <3> QED  BY <1>1, <1>4, <2>1, <2>3, <3>1 DEF ToSet
    <2> QED  BY <1>1, <2>2, <2>3
  <1>6. ASSUME NEW x \in ToSet(s) PROVE x \in ToSet(u)
    <2>1. PICK i \in 1..Len(s) : x = s[i]  BY <1>1 DEF ToSet
    <2>2. i \in 1..Len(u)  BY <1>1
    <2> QED  BY <1>1, <1>2, <2>1, <2>2 DEF ToSet
  <1>7. ASSUME NEW x \in ToSet(t) PROVE x \in ToSet(u)
    <2>1. PICK i \in 1..Len(t) : x = t[i]  BY <1>1 DEF ToSet
    <2>2. Len(s) + i \in 1..Len(u)  BY <1>1
    <2> QED  BY <1>1, <1>3, <2>1, <2>2 DEF ToSet
  <1>8. ToSet(u) = ToSet(s) \cup ToSet(t)
    <2> HIDE DEF u
    <2> QED  BY <1>5, <1>6, <1>7, Zenon
  <1> QED  BY <1>8 DEF u

(* The elements of a longer sequence. *)
LEMMA ToSetAppend ==
  ASSUME NEW S, NEW s \in Seq(S), NEW x \in S
  PROVE  ToSet(Append(s, x)) = ToSet(s) \cup {x}
  <1>1. Append(s, x) = s \o <<x>>  BY AppendIsConcat
  <1>2. <<x>> \in Seq(S)  OBVIOUS
  <1>3. ToSet(<<x>>) = {x}  BY DEF ToSet
  <1>4. PICK t \in Seq(S) : t = <<x>>  BY <1>2
  <1>5. ToSet(s \o t) = ToSet(s) \cup ToSet(t)  BY ToSetConcat
  <1> QED  BY <1>1, <1>3, <1>4, <1>5

(* More prices only help. *)
LEMMA OfTheFeedMore ==
  ASSUME NEW es, NEW ps, NEW qs, OfTheFeed(es, ps), ToSet(ps) \subseteq ToSet(qs)
  PROVE  OfTheFeed(es, qs)
  BY DEF OfTheFeed

(* One more event that is a word, or whose price is one of the feed's. *)
LEMMA OfTheFeedAppend ==
  ASSUME NEW es \in Seq(Event), NEW ps, NEW e \in Event, OfTheFeed(es, ps),
         e.type = "NewTransmission" => e.juels \in ToSet(ps)
  PROVE  OfTheFeed(Append(es, e), ps)
  <1> DEFINE fs == Append(es, e)
  <1>1. /\ Len(es) \in Nat /\ DOMAIN es = 1..Len(es) /\ DOMAIN fs = 1..Len(es) + 1
        /\ \A i \in 1..Len(es) : fs[i] = es[i]
        /\ fs[Len(es) + 1] = e
    OBVIOUS
  <1> HIDE DEF fs
  <1>2. ASSUME NEW k \in DOMAIN fs, fs[k].type = "NewTransmission"
        PROVE fs[k].juels \in ToSet(ps)
    <2>1. CASE k = Len(es) + 1  BY <1>1, <1>2, <2>1
    <2>2. CASE k # Len(es) + 1
      <3>1. k \in 1..Len(es)  BY <1>1, <2>2
      <3> QED  BY <1>1, <1>2, <3>1 DEF OfTheFeed
    <2> QED  BY <2>1, <2>2
  <1>3. OfTheFeed(fs, ps)  BY <1>2 DEF OfTheFeed
  <1> QED  BY <1>3 DEF fs

(* One more line, to the parser and to the feed's own prices. *)
LEMMA OneMoreLine ==
  ASSUME NEW ls \in Seq(LogLine), NEW l \in LogLine
  PROVE  /\ Append(ls, l) \in Seq(LogLine)
         /\ After("parser", Append(ls, l)) = Parsed(After("parser", ls), l, Ocr2)
         /\ Own(Append(ls, l)) = OwnAfter(Own(ls), l)
  <1>1. After("parser", Append(ls, l)) = Taken("parser", After("parser", ls), l)
    BY AfterStep
  <1>2. After("own", Append(ls, l)) = Taken("own", After("own", ls), l)
    BY AfterStep
  <1>3. Own(Append(ls, l)) = After("own", Append(ls, l)) /\ Own(ls) = After("own", ls)
    BY OwnIs
  <1> QED  BY <1>1, <1>2, <1>3 DEF Taken

(* Before the first line. *)
LEMMA ParsingStart == Parsing(<<>>, <<>>)
  <1>1. After("parser", <<>>) = [stack |-> <<>>, output |-> <<>>, ended |-> FALSE]
    BY AfterStart DEF AtStart
  <1>2. Own(<<>>) = <<>>
    <2>1. After("own", <<>>) = <<>>  BY AfterStart DEF AtStart
    <2> QED  BY <2>1, OwnIs
  <1>3. PICK e : e = <<>>  OBVIOUS
  <1>4. e \in Seq(Program) /\ e \in Seq(Event) /\ e \in Seq(LogLine) /\ e \in Seq(Juels)
        /\ DOMAIN e = {}
    BY <1>3
  <1>5. After("parser", e) = [stack |-> e, output |-> e, ended |-> FALSE] /\ Own(e) = e
    BY <1>1, <1>2, <1>3
  <1>6. After("parser", e) \in ParserState
    <2>1. \A a \in Seq(Program) : \A b \in Seq(Event) :
             [stack |-> a, output |-> b, ended |-> FALSE] \in ParserState
      BY DEF ParserState
    <2> QED  BY <1>4, <1>5, <2>1
  <1>7. Parsing(e, e)  BY <1>4, <1>5, <1>6 DEF Parsing, OfTheFeed
  <1> QED  BY <1>3, <1>7

(* A program is invoked. *)
LEMMA ParsingInvoke ==
  ASSUME NEW ls, NEW st, Parsing(ls, st), NEW p \in Program, NEW e \in Event
  PROVE  Parsing(Append(ls, Line("invoke", p, e)), Append(st, p))
  <1> DEFINE l == Line("invoke", p, e)
             q == Append(st, p)
  <1>1. l \in LogLine /\ l.kind = "invoke" /\ l.program = p  BY DEF LogLine, Line
  <1> HIDE DEF l
  <1> DEFINE s == After("parser", ls)
             t == After("parser", Append(ls, l))
  <1>2. ls \in Seq(LogLine) /\ s \in ParserState /\ s.ended = FALSE /\ s.stack = st
        /\ Own(ls) \in Seq(Juels) /\ OfTheFeed(s.output, Own(ls))
        /\ st \in Seq(Program)
    BY DEF Parsing
  <1>3. /\ Append(ls, l) \in Seq(LogLine)
        /\ t = Parsed(s, l, Ocr2) /\ Own(Append(ls, l)) = OwnAfter(Own(ls), l)
    BY <1>1, <1>2, OneMoreLine
  <1>4. Own(Append(ls, l)) = Own(ls)  BY <1>1, <1>3 DEF OwnAfter, IsOwn
  <1> HIDE DEF s, t
  <1>5. t = [s EXCEPT !.stack = q] /\ q \in Seq(Program)
    BY <1>1, <1>2, <1>3 DEF Parsed
  <1> HIDE DEF q
  <1>6. t \in ParserState /\ t.stack = q /\ t.ended = FALSE
        /\ t.output = s.output
    BY <1>2, <1>5 DEF ParserState
  <1> QED  BY <1>2, <1>3, <1>4, <1>5, <1>6 DEF Parsing, t, l, q

(* The program that runs logs an event; only its own is the feed's. *)
LEMMA ParsingLog ==
  ASSUME NEW ls, NEW st, Parsing(ls, st), st # <<>>, NEW e \in Event
  PROVE  Parsing(Append(ls, Line("log", Last(st), e)), st)
  <1> DEFINE p == Last(st)
             l == Line("log", p, e)
             s == After("parser", ls)
             t == After("parser", Append(ls, l))
             own == Own(Append(ls, l))
  <1>2. ls \in Seq(LogLine) /\ s \in ParserState /\ s.ended = FALSE /\ s.stack = st
        /\ Own(ls) \in Seq(Juels) /\ OfTheFeed(s.output, Own(ls))
        /\ st \in Seq(Program)
    BY DEF Parsing
  <1>p. p \in Program  BY <1>2 DEF Last
  <1> HIDE DEF p
  <1>1. l \in LogLine /\ l.kind = "log" /\ l.program = p /\ l.event = e
    BY <1>p DEF LogLine, Line
  <1> HIDE DEF l
  <1>3. /\ Append(ls, l) \in Seq(LogLine)
        /\ t = Parsed(s, l, Ocr2) /\ own = OwnAfter(Own(ls), l)
    BY <1>1, <1>2, OneMoreLine
  <1> HIDE DEF s, t, own
  <1>e. e.juels \in Juels  BY DEF Event
  <1>4. /\ own \in Seq(Juels) /\ ToSet(Own(ls)) \subseteq ToSet(own)
        /\ IsOwn(l) => e.juels \in ToSet(own)
    <2>1. CASE IsOwn(l)
      <3>1. own = Append(Own(ls), e.juels)  BY <1>1, <1>3, <2>1 DEF OwnAfter
      <3>2. ToSet(own) = ToSet(Own(ls)) \cup {e.juels}
        BY <1>2, <1>e, <3>1, ToSetAppend
      <3> QED  BY <1>2, <1>e, <3>1, <3>2
    <2>2. CASE ~IsOwn(l)  BY <1>2, <1>3, <2>2 DEF OwnAfter
    <2> QED  BY <2>1, <2>2
  <1>5. OfTheFeed(s.output, own)  BY <1>2, <1>4, OfTheFeedMore
  <1>6. s.output \in Seq(Event)  BY <1>2 DEF ParserState
  <1>7. CASE p = Ocr2
    <2> DEFINE o == Append(s.output, e)
    <2>1. t = [s EXCEPT !.output = o] /\ o \in Seq(Event)
      BY <1>1, <1>2, <1>3, <1>6, <1>7 DEF Parsed, p
    <2> HIDE DEF o
    <2>2. t \in ParserState /\ t.stack = st /\ t.ended = FALSE
          /\ t.output = o
      BY <1>2, <2>1 DEF ParserState
    <2>3. e.type = "NewTransmission" => e.juels \in ToSet(own)
      BY <1>1, <1>4, <1>7 DEF IsOwn
    <2>4. OfTheFeed(t.output, own)  BY <1>5, <1>6, <2>2, <2>3, OfTheFeedAppend DEF o
    <2> QED  BY <1>2, <1>3, <1>4, <2>2, <2>4 DEF Parsing, t, own, l, p
  <1>8. CASE p # Ocr2
    <2>1. t = s  BY <1>1, <1>2, <1>3, <1>8 DEF Parsed, p
    <2> QED  BY <1>2, <1>3, <1>4, <1>5, <2>1 DEF Parsing, t, own, l, p
  <1> QED  BY <1>7, <1>8

(* The program that runs succeeds. *)
LEMMA ParsingSuccess ==
  ASSUME NEW ls, NEW st, Parsing(ls, st), st # <<>>, NEW e \in Event
  PROVE  Parsing(Append(ls, Line("success", Last(st), e)), Front(st))
  <1> DEFINE p == Last(st)
             l == Line("success", p, e)
             s == After("parser", ls)
             t == After("parser", Append(ls, l))
             f == Front(st)
  <1>2. ls \in Seq(LogLine) /\ s \in ParserState /\ s.ended = FALSE /\ s.stack = st
        /\ Own(ls) \in Seq(Juels) /\ OfTheFeed(s.output, Own(ls))
        /\ st \in Seq(Program)
    BY DEF Parsing
  <1>p. p \in Program /\ f \in Seq(Program)  BY <1>2 DEF Last, Front
  <1> HIDE DEF p
  <1>1. l \in LogLine /\ l.kind = "success" /\ l.program = p
    BY <1>p DEF LogLine, Line
  <1> HIDE DEF l
  <1>3. /\ Append(ls, l) \in Seq(LogLine)
        /\ t = Parsed(s, l, Ocr2) /\ Own(Append(ls, l)) = OwnAfter(Own(ls), l)
    BY <1>1, <1>2, OneMoreLine
  <1>4. Own(Append(ls, l)) = Own(ls)  BY <1>1, <1>3 DEF OwnAfter, IsOwn
  <1> HIDE DEF s, t
  <1>5. t = [s EXCEPT !.stack = f]
    BY <1>1, <1>2, <1>3 DEF Parsed, p
  <1> HIDE DEF f
  <1>6. t \in ParserState /\ t.stack = f /\ t.ended = FALSE
        /\ t.output = s.output
    BY <1>2, <1>5, <1>p DEF ParserState
  <1> QED  BY <1>2, <1>3, <1>4, <1>6, <1>p DEF Parsing, t, l, p, f

(* "failed: ..." is no line that the parser knows. *)
LEMMA ParsingFailure ==
  ASSUME NEW ls, NEW st, Parsing(ls, st), NEW p \in Program, NEW e \in Event
  PROVE  ExtractEvents(Append(ls, Line("text", p, e)), Ocr2)
           = After("parser", ls).output
  <1> DEFINE l == Line("text", p, e)
             s == After("parser", ls)
  <1>1. l \in LogLine /\ l.kind = "text"  BY DEF LogLine, Line
  <1> HIDE DEF l
  <1>2. After("parser", Append(ls, l)) = Parsed(s, l, Ocr2)
    BY <1>1, OneMoreLine DEF Parsing
  <1>3. s.ended = FALSE  BY DEF Parsing
  <1> HIDE DEF s
  <1>4. Parsed(s, l, Ocr2) = s  BY <1>1, <1>3 DEF Parsed
  <1>5. ExtractEvents(Append(ls, l), Ocr2) = s.output  BY <1>2, <1>4, ExtractIs
  <1> QED  BY <1>5 DEF l, s

-----------------------------------------------------------------------------
(***************************************************************************)
(* The past transactions that succeeded, and what the source has read.     *)
(***************************************************************************)
TxsOfTheFeed(ts, prices) ==
  /\ ts \in Seq(Tx) /\ prices \in Seq(Juels)
  /\ \A i \in DOMAIN ts : ~ts[i].err => OfTheFeed(ts[i].events, prices)

Reading == [round : Nat, answer : Seq(Nat), juels : Seq(Juels), failed : BOOLEAN]

ReadOfTheFeed(r, prices) ==
  /\ r \in Reading /\ r.round <= Len(prices)
  /\ r.answer # none /\ ~r.failed => r.answer[1] >= r.round
  /\ r.juels # none /\ ~r.failed => r.juels[1] \in ToSet(prices) \cup {0}

EnvelopeInv ==
  /\ Parsing(logs, stack)
  /\ TxsOfTheFeed(txs, committed)
  /\ cache \in ToSet(committed) \cup {0}
  /\ reading # none => ReadOfTheFeed(reading, committed)

(* Nothing has run and nothing has been read. *)
LEMMA EnvelopeInitInv == EnvelopeInit => EnvelopeInv
  <1> SUFFICES ASSUME EnvelopeInit PROVE EnvelopeInv  OBVIOUS
  <1>1. Parsing(logs, stack)  BY ParsingStart DEF EnvelopeInit
  <1>2. TxsOfTheFeed(txs, committed)  BY DEF EnvelopeInit, TxsOfTheFeed
  <1> QED  BY <1>1, <1>2 DEF EnvelopeInit, EnvelopeInv

(* The word that a program logs and the line about it are well formed. *)
LEMMA WordIsEvent == Word \in Event
  BY DEF Word, Event, Juels

(* So is the event of a new transmission. *)
LEMMA BodyIsEvent ==
  ASSUME NEW n \in Nat, NEW j \in {n + 1, Foreign}
  PROVE  NewTransmission(j) \in Event
  <1>1. j \in Juels  BY DEF Juels
  <1> QED  BY <1>1 DEF NewTransmission, Event

(* One more transaction, that failed or whose prices are committed. *)
LEMMA OneMoreTx ==
  ASSUME NEW ts, NEW prices, TxsOfTheFeed(ts, prices), NEW more \in Seq(Juels),
         NEW tx \in Tx, ~tx.err => OfTheFeed(tx.events, more)
  PROVE  /\ TxsOfTheFeed(<<tx>> \o ts, prices \o more)
         /\ ToSet(prices) \subseteq ToSet(prices \o more)
         /\ Len(prices) <= Len(prices \o more)
  <1> DEFINE all == prices \o more
             us == <<tx>> \o ts
  <1>1. ts \in Seq(Tx) /\ prices \in Seq(Juels)  BY DEF TxsOfTheFeed
  <1>2. ToSet(all) = ToSet(prices) \cup ToSet(more)  BY <1>1, ToSetConcat
  <1>3. all \in Seq(Juels) /\ Len(prices) <= Len(all)  BY <1>1
  <1>4. us \in Seq(Tx) /\ us[1] = tx  BY <1>1
  <1>5. \A i \in DOMAIN us : i = 1 \/ (i - 1 \in DOMAIN ts /\ us[i] = ts[i - 1])
    BY <1>1
  <1> HIDE DEF all, us
  <1>6. ASSUME NEW i \in DOMAIN us, ~us[i].err
        PROVE  OfTheFeed(us[i].events, all)
    <2>1. CASE i = 1
      <3>1. OfTheFeed(us[i].events, more)  BY <1>4, <1>6, <2>1
      <3> QED  BY <1>2, <3>1, OfTheFeedMore
    <2>2. CASE i # 1
      <3>1. i - 1 \in DOMAIN ts /\ us[i] = ts[i - 1]  BY <1>5, <2>2
      <3>2. OfTheFeed(us[i].events, prices)  BY <1>6, <3>1 DEF TxsOfTheFeed
      <3> QED  BY <1>2, <3>2, OfTheFeedMore
    <2> QED  BY <2>1, <2>2
  <1>7. TxsOfTheFeed(us, all)  BY <1>3, <1>4, <1>6 DEF TxsOfTheFeed
  <1> QED  BY <1>2, <1>3, <1>7 DEF all, us

(* What was read stays of the feed when more is committed. *)
LEMMA ReadStays ==
  ASSUME NEW r, NEW prices, NEW all, ReadOfTheFeed(r, prices),
         prices \in Seq(Juels), all \in Seq(Juels),
         ToSet(prices) \subseteq ToSet(all), Len(prices) <= Len(all)
  PROVE  ReadOfTheFeed(r, all)
  <1>1. r.round \in Nat  BY DEF ReadOfTheFeed, Reading
  <1>2. r.round <= Len(all)
    <2>1. Len(prices) \in Nat /\ Len(all) \in Nat  OBVIOUS
    <2> QED  BY <1>1, <2>1 DEF ReadOfTheFeed
  <1> QED  BY <1>2 DEF ReadOfTheFeed

(* The transaction ends, well or not. *)
LEMMA EndInv ==
  ASSUME EnvelopeInv, NEW more \in Seq(Juels), NEW tx \in Tx,
         ~tx.err => OfTheFeed(tx.events, more),
         txs' = <<tx>> \o txs, committed' = committed \o more,
         logs' = <<>>, stack' = <<>>, UNCHANGED <<reading, cache>>
  PROVE  EnvelopeInv'
  <1>1. PICK ts, prices : ts = txs /\ prices = committed  OBVIOUS
  <1>2. TxsOfTheFeed(ts, prices)  BY <1>1 DEF EnvelopeInv
  <1>3. /\ TxsOfTheFeed(<<tx>> \o ts, prices \o more)
        /\ ToSet(prices) \subseteq ToSet(prices \o more)
        /\ Len(prices) <= Len(prices \o more)
    BY <1>2, OneMoreTx
  <1>4. TxsOfTheFeed(txs', committed')  BY <1>1, <1>3
  <1>5. /\ ToSet(committed) \subseteq ToSet(committed')
        /\ Len(committed) <= Len(committed')
    BY <1>1, <1>3
  <1>6. Parsing(logs', stack')  BY ParsingStart
  <1>7. cache' \in ToSet(committed') \cup {0}  BY <1>5 DEF EnvelopeInv
  <1>8. ASSUME reading' # none PROVE ReadOfTheFeed(reading', committed')
    <2>1. ReadOfTheFeed(reading, committed)  BY <1>8 DEF EnvelopeInv
    <2>2. PICK r, all : r = reading /\ all = committed'  OBVIOUS
    <2>3. prices \in Seq(Juels) /\ all \in Seq(Juels)
      BY <1>2, <1>4, <2>2 DEF TxsOfTheFeed
    <2>4. ReadOfTheFeed(r, prices)  BY <1>1, <2>1, <2>2
    <2>5. ToSet(prices) \subseteq ToSet(all) /\ Len(prices) <= Len(all)
      BY <1>1, <1>5, <2>2
    <2>6. ReadOfTheFeed(r, all)  BY <2>3, <2>4, <2>5, ReadStays
    <2> QED  BY <2>2, <2>6
  <1> QED  BY <1>4, <1>6, <1>7, <1>8 DEF EnvelopeInv

(* The runtime: a line is added to the log. *)
LEMMA LineInv ==
  ASSUME EnvelopeInv, Parsing(logs', stack'),
         UNCHANGED <<txs, committed, reading, cache>>
  PROVE  EnvelopeInv'
  BY DEF EnvelopeInv

(* A call adds its line to the log and its program to the stack. *)
LEMMA InvokeInv ==
  ASSUME EnvelopeInv, NEW p \in Program, Invoke(p) PROVE EnvelopeInv'
  <1>1. PICK ls, st : ls = logs /\ st = stack  OBVIOUS
  <1>2. Parsing(ls, st)  BY <1>1 DEF EnvelopeInv
  <1>3. Parsing(Append(ls, Line("invoke", p, Word)), Append(st, p))
    BY <1>2, WordIsEvent, ParsingInvoke
  <1>4. Parsing(logs', stack')  BY <1>1, <1>3 DEF Invoke
  <1> QED  BY <1>4, LineInv DEF Invoke

(* The program on top of the stack logs an event. *)
LEMMA LogInv == ASSUME EnvelopeInv, LogEvent PROVE EnvelopeInv'
  <1>1. PICK ls, st : ls = logs /\ st = stack  OBVIOUS
  <1>2. Parsing(ls, st) /\ st # <<>>  BY <1>1 DEF EnvelopeInv, LogEvent
  <1>3. PICK body \in Bodies(Last(stack)) :
           logs' = Append(logs, Line("log", Last(stack), body))
    BY DEF LogEvent
  <1>4. PICK n \in Nat : n = Len(txs)  BY DEF EnvelopeInv, TxsOfTheFeed
  <1>5. body \in Event
    <2>1. \A j \in {n + 1, Foreign} : NewTransmission(j) \in Event
      BY BodyIsEvent
    <2>2. Price(Last(stack)) \in {n + 1, Foreign}  BY <1>4 DEF Price
    <2>3. NewTransmission(Price(Last(stack))) \in Event  BY <2>1, <2>2
    <2> QED  BY <1>3, <2>3, WordIsEvent DEF Bodies
  <1>6. PICK e \in Event : e = body  BY <1>5
  <1>7. Parsing(Append(ls, Line("log", Last(st), e)), st)  BY <1>2, ParsingLog
  <1>8. logs' = Append(ls, Line("log", Last(st), e)) /\ stack' = st
    BY <1>1, <1>3, <1>6 DEF LogEvent
  <1>9. Parsing(logs', stack')  BY <1>7, <1>8
  <1> QED  BY <1>9, LineInv DEF LogEvent

(* The program on top of the stack returns. *)
LEMMA SuccessInv == ASSUME EnvelopeInv, Success PROVE EnvelopeInv'
  <1>1. PICK ls, st : ls = logs /\ st = stack  OBVIOUS
  <1>2. Parsing(ls, st) /\ st # <<>>  BY <1>1 DEF EnvelopeInv, Success
  <1>3. Parsing(Append(ls, Line("success", Last(st), Word)), Front(st))
    BY <1>2, WordIsEvent, ParsingSuccess
  <1>4. Parsing(logs', stack')  BY <1>1, <1>3 DEF Success
  <1> QED  BY <1>4, LineInv DEF Success

(* A transaction is over, and the prices in its own events are committed. *)
LEMMA CommitInv == ASSUME EnvelopeInv, Commit PROVE EnvelopeInv'
  <1>1. PICK ls, st : ls = logs /\ st = stack  OBVIOUS
  <1>2. Parsing(ls, st)  BY <1>1 DEF EnvelopeInv
  <1> DEFINE o == After("parser", ls).output
  <1>3. ExtractEvents(ls, Ocr2) = o  BY ExtractIs
  <1>4. o \in Seq(Event) /\ Own(ls) \in Seq(Juels) /\ OfTheFeed(o, Own(ls))
    BY <1>2 DEF Parsing, ParserState
  <1>5. PICK more \in Seq(Juels) : more = Own(ls)  BY <1>4
  <1> HIDE DEF o
  <1>6. \A es \in Seq(Event) : [err |-> FALSE, events |-> es] \in Tx  BY DEF Tx
  <1>7. PICK tx \in Tx : tx = [err |-> FALSE, events |-> o]  BY <1>4, <1>6
  <1>8. ~tx.err => OfTheFeed(tx.events, more)  BY <1>4, <1>5, <1>7
  <1>9. /\ txs' = <<tx>> \o txs /\ committed' = committed \o more
        /\ logs' = <<>> /\ stack' = <<>> /\ UNCHANGED <<reading, cache>>
    BY <1>1, <1>3, <1>5, <1>7 DEF Commit
  <1> QED  BY <1>8, <1>9, EndInv

(* A transaction is undone: the source gets its events and that it failed. *)
LEMMA FailInv == ASSUME EnvelopeInv, Fail PROVE EnvelopeInv'
  <1>1. PICK ls, st : ls = logs /\ st = stack  OBVIOUS
  <1>2. Parsing(ls, st) /\ st # <<>>  BY <1>1 DEF EnvelopeInv, Fail
  <1>3. Last(st) \in Program  BY <1>2 DEF Parsing, Last
  <1> DEFINE o == After("parser", ls).output
  <1>4. ExtractEvents(Append(ls, Line("text", Last(st), Word)), Ocr2) = o
    BY <1>2, <1>3, WordIsEvent, ParsingFailure
  <1>5. o \in Seq(Event)  BY <1>2 DEF Parsing, ParserState
  <1> HIDE DEF o
  <1>6. \A es \in Seq(Event) : [err |-> TRUE, events |-> es] \in Tx  BY DEF Tx
  <1>7. PICK tx \in Tx : tx = [err |-> TRUE, events |-> o]  BY <1>5, <1>6
  <1>8. PICK more \in Seq(Juels) : more = <<>>
    <2>1. <<>> \in Seq(Juels)  BY EmptySeq
    <2> QED  BY <2>1, Zenon
  <1>9. committed' = committed \o more
    <2>1. committed \in Seq(Juels)  BY DEF EnvelopeInv, TxsOfTheFeed
    <2>2. committed \o <<>> = committed  BY <2>1
    <2> QED  BY <1>8, <2>2 DEF Fail
  <1>10. /\ txs' = <<tx>> \o txs /\ logs' = <<>> /\ stack' = <<>>
         /\ UNCHANGED <<reading, cache>>
    BY <1>1, <1>4, <1>7 DEF Fail
  <1>11. ~tx.err => OfTheFeed(tx.events, more)  BY <1>7
  <1> QED  BY <1>9, <1>10, <1>11, EndInv

(* The source: only what it has read, and the price it keeps, change. *)
LEMMA ReadInv ==
  ASSUME EnvelopeInv, UNCHANGED <<stack, logs, txs, committed>>,
         cache' \in ToSet(committed) \cup {0},
         reading' = none \/ ReadOfTheFeed(reading', committed)
  PROVE  EnvelopeInv'
  BY DEF EnvelopeInv

(* Fetch reads the state, whose round is the latest committed one. *)
LEMMA StartFetchInv == ASSUME EnvelopeInv, StartFetch PROVE EnvelopeInv'
  <1>1. committed \in Seq(Juels)  BY DEF EnvelopeInv, TxsOfTheFeed
  <1>2. PICK n \in Nat : n = Len(committed)  BY <1>1
  <1>3. PICK e : e = <<>>  OBVIOUS
  <1>4. e \in Seq(Nat) /\ e \in Seq(Juels)  BY <1>3
  <1>5. reading' = [round |-> n, answer |-> e, juels |-> e, failed |-> FALSE]
    BY <1>2, <1>3 DEF StartFetch, unread, none
  <1>6. \A a \in Seq(Nat), b \in Seq(Juels) :
           [round |-> n, answer |-> a, juels |-> b, failed |-> FALSE] \in Reading
    BY DEF Reading
  <1>7. reading' \in Reading  BY <1>4, <1>5, <1>6
  <1>8. ReadOfTheFeed(reading', committed)
    BY <1>2, <1>3, <1>5, <1>7 DEF ReadOfTheFeed, none
  <1>9. cache' \in ToSet(committed) \cup {0}  BY DEF StartFetch, EnvelopeInv
  <1> QED  BY <1>8, <1>9, ReadInv DEF StartFetch

(* The answer is read after the state, so it is of its round or a later one. *)
LEMMA AnswerInv == ASSUME EnvelopeInv, GetLatestTransmission PROVE EnvelopeInv'
  <1>1. ReadOfTheFeed(reading, committed)
    BY DEF EnvelopeInv, GetLatestTransmission
  <1>2. committed \in Seq(Juels)  BY DEF EnvelopeInv, TxsOfTheFeed
  <1>3. PICK n \in Nat : n = Len(committed)  BY <1>2
  <1>4. PICK r \in Reading : r = reading  BY <1>1 DEF ReadOfTheFeed
  <1>5. \A m \in Nat : <<m>> \in Seq(Nat) /\ <<m>>[1] = m  OBVIOUS
  <1>6. \A a \in Seq(Nat) : [r EXCEPT !.answer = a] \in Reading  BY DEF Reading
  <1>7. \A a \in Seq(Nat) :
           [r EXCEPT !.answer = a, !.failed = TRUE] \in Reading
    BY DEF Reading
  <1>8. CASE reading' = [reading EXCEPT !.answer = <<Len(committed)>>]
    <2>1. PICK a \in Seq(Nat) : a = <<n>> /\ a[1] = n  BY <1>5
    <2>2. reading' = [r EXCEPT !.answer = a]  BY <1>3, <1>4, <1>8, <2>1
    <2>3. reading' \in Reading  BY <1>6, <2>2
    <2>4. /\ reading'.round = r.round /\ reading'.answer = a
          /\ reading'.juels = r.juels /\ reading'.failed = r.failed
      BY <2>2 DEF Reading
    <2>5. r.round \in Nat /\ r.round <= n  BY <1>1, <1>3, <1>4 DEF ReadOfTheFeed, Reading
    <2>6. ReadOfTheFeed(reading', committed)
      BY <1>1, <1>3, <1>4, <2>1, <2>3, <2>4, <2>5 DEF ReadOfTheFeed
    <2>7. cache' \in ToSet(committed) \cup {0}  BY DEF GetLatestTransmission, EnvelopeInv
    <2> QED  BY <2>6, <2>7, ReadInv DEF GetLatestTransmission
  <1>9. CASE reading' = [reading EXCEPT !.answer = <<0>>, !.failed = TRUE]
    <2>1. PICK a \in Seq(Nat) : a = <<0>>  BY <1>5
    <2>2. reading' = [r EXCEPT !.answer = a, !.failed = TRUE]  BY <1>4, <1>9, <2>1
    <2>3. reading' \in Reading  BY <1>7, <2>2
    <2>4. reading'.round = r.round /\ reading'.failed = TRUE  BY <2>2 DEF Reading
    <2>6. ReadOfTheFeed(reading', committed)
      BY <1>1, <1>4, <2>3, <2>4 DEF ReadOfTheFeed
    <2>7. cache' \in ToSet(committed) \cup {0}  BY DEF GetLatestTransmission, EnvelopeInv
    <2> QED  BY <2>6, <2>7, ReadInv DEF GetLatestTransmission
  <1> QED  BY <1>8, <1>9 DEF GetLatestTransmission

(* A price of gas that is read becomes part of the envelope. *)
LEMMA PriceRead ==
  ASSUME NEW r, NEW prices \in Seq(Juels), NEW j \in Juels, ReadOfTheFeed(r, prices)
  PROVE  /\ j \in ToSet(prices) \cup {0} =>
              ReadOfTheFeed([r EXCEPT !.juels = <<j>>], prices)
         /\ ReadOfTheFeed([r EXCEPT !.juels = <<j>>, !.failed = TRUE], prices)
  <1>1. r \in Reading  BY DEF ReadOfTheFeed
  <1>2. PICK q \in Seq(Juels) : q = <<j>> /\ q[1] = j
    <2>1. <<j>> \in Seq(Juels) /\ <<j>>[1] = j  OBVIOUS
    <2> QED  BY <2>1, Zenon
  <1>3. [r EXCEPT !.juels = q] \in Reading  BY <1>1 DEF Reading
  <1>4. [r EXCEPT !.juels = q, !.failed = TRUE] \in Reading  BY <1>1 DEF Reading
  <1>5. ASSUME j \in ToSet(prices) \cup {0}
        PROVE  ReadOfTheFeed([r EXCEPT !.juels = q], prices)
    <2> DEFINE s == [r EXCEPT !.juels = q]
    <2>1. /\ s.round = r.round /\ s.answer = r.answer
          /\ s.juels = q /\ s.failed = r.failed
      BY <1>1 DEF Reading
    <2> HIDE DEF s
    <2>2. ReadOfTheFeed(s, prices)  BY <1>2, <1>3, <1>5, <2>1 DEF ReadOfTheFeed, s
    <2> QED  BY <2>2 DEF s
  <1>6. ReadOfTheFeed([r EXCEPT !.juels = q, !.failed = TRUE], prices)
    <2> DEFINE s == [r EXCEPT !.juels = q, !.failed = TRUE]
    <2>1. s.round = r.round /\ s.failed = TRUE  BY <1>1 DEF Reading
    <2> HIDE DEF s
    <2>2. ReadOfTheFeed(s, prices)  BY <1>4, <2>1 DEF ReadOfTheFeed, s
    <2> QED  BY <2>2 DEF s
  <1> QED  BY <1>2, <1>5, <1>6

(* The least of some naturals is one of them. *)
LEMMA MinOf ==
  ASSUME NEW T \in SUBSET Nat, T # {} PROVE Min(T) \in T
  <1>1. \E x \in T : \A y \in T : x <= y  BY LeastOf
  <1> QED  BY <1>1 DEF Min

(* The transmission that the newest useful transaction holds. *)
LEMMA UsefulPrice ==
  ASSUME NEW ts, NEW prices, TxsOfTheFeed(ts, prices),
         NEW useful \in SUBSET (DOMAIN ts), useful # {},
         \A i \in useful : ~ts[i].err /\ Transmissions(ts[i]) # {}
  PROVE  ts[Min(useful)].events[Min(Transmissions(ts[Min(useful)]))].juels
           \in ToSet(prices)
  <1> DEFINE tx == ts[Min(useful)]
             T == Transmissions(tx)
  <1>1. ts \in Seq(Tx) /\ DOMAIN ts \subseteq Nat  BY DEF TxsOfTheFeed
  <1>2. Min(useful) \in useful  BY <1>1, MinOf
  <1>3. tx \in Tx /\ ~tx.err /\ T # {} /\ OfTheFeed(tx.events, prices)
    BY <1>1, <1>2 DEF TxsOfTheFeed
  <1> HIDE DEF tx
  <1>4. tx.events \in Seq(Event)  BY <1>3 DEF Tx
  <1>5. DOMAIN tx.events \subseteq Nat  BY <1>4
  <1>6. T \subseteq DOMAIN tx.events
        /\ \A k \in T : tx.events[k].type = "NewTransmission"
    BY DEF Transmissions
  <1> HIDE DEF T
  <1>7. Min(T) \in T  BY <1>3, <1>5, <1>6, MinOf
  <1>8. tx.events[Min(T)].juels \in ToSet(prices)
    BY <1>3, <1>6, <1>7 DEF OfTheFeed
  <1> QED  BY <1>8 DEF tx, T

(* The price is of the last successful transaction found, the cached one if
   none is listed, and none with an error if none is useful. *)
LEMMA PriceInv ==
  ASSUME EnvelopeInv, NEW listed \in 0..Len(txs), NEW found \in SUBSET (1..listed),
         getJuelsPerLamport(listed, found)
  PROVE  EnvelopeInv'
  <1>1. PICK ts, prices, r : ts = txs /\ prices = committed /\ r = reading  OBVIOUS
  <1>2. /\ TxsOfTheFeed(ts, prices) /\ ReadOfTheFeed(r, prices)
        /\ cache \in ToSet(prices) \cup {0}
    BY <1>1 DEF EnvelopeInv, getJuelsPerLamport
  <1>3. ts \in Seq(Tx) /\ prices \in Seq(Juels)  BY <1>2 DEF TxsOfTheFeed
  <1>4. 0 \in Juels /\ ToSet(prices) \subseteq Juels
    BY <1>3 DEF Juels, ToSet
  <1>5. \A j \in Juels :
          /\ j \in ToSet(prices) \cup {0} =>
               ReadOfTheFeed([r EXCEPT !.juels = <<j>>], prices)
          /\ ReadOfTheFeed([r EXCEPT !.juels = <<j>>, !.failed = TRUE], prices)
    BY <1>2, <1>3, PriceRead
  <1>6. CASE listed = 0
    <2>1. cache' = cache /\ reading' = [r EXCEPT !.juels = <<cache>>]
      BY <1>1, <1>6 DEF getJuelsPerLamport
    <2>2. ReadOfTheFeed(reading', committed)  BY <1>1, <1>2, <1>4, <1>5, <2>1
    <2> QED  BY <1>1, <1>2, <2>1, <2>2, ReadInv DEF getJuelsPerLamport
  <1>7. CASE listed # 0 /\ Useful(found) = {}
    <2>1. cache' = cache /\ reading' = [r EXCEPT !.juels = <<0>>, !.failed = TRUE]
      BY <1>1, <1>7 DEF getJuelsPerLamport
    <2>2. ReadOfTheFeed(reading', committed)  BY <1>1, <1>4, <1>5, <2>1
    <2> QED  BY <1>1, <1>2, <2>1, <2>2, ReadInv DEF getJuelsPerLamport
  <1>8. CASE listed # 0 /\ Useful(found) # {}
    <2>1. PICK useful : useful = Useful(found)  OBVIOUS
    <2>2. useful \in SUBSET (DOMAIN ts)
          /\ \A i \in useful : ~ts[i].err /\ Transmissions(ts[i]) # {}
      <3>1. DOMAIN ts = 1..Len(ts) /\ Len(ts) \in Nat  BY <1>3
      <3>2. found \subseteq DOMAIN ts  BY <1>1, <3>1
      <3> QED  BY <1>1, <2>1, <3>2 DEF Useful
    <2> DEFINE j == ts[Min(useful)].events[Min(Transmissions(ts[Min(useful)]))].juels
    <2>3. j \in ToSet(prices)  BY <1>2, <1>8, <2>1, <2>2, UsefulPrice
    <2>4. cache' = j /\ reading' = [r EXCEPT !.juels = <<j>>]
      BY <1>1, <1>8, <2>1, Zenon DEF getJuelsPerLamport
    <2> HIDE DEF j
    <2>5. ReadOfTheFeed(reading', committed)  BY <1>1, <1>4, <1>5, <2>3, <2>4
    <2> QED  BY <1>1, <2>3, <2>4, <2>5, ReadInv DEF getJuelsPerLamport
  <1> QED  BY <1>6, <1>7, <1>8

(* Fetch is over. *)
LEMMA ReturnInv == ASSUME EnvelopeInv, FetchReturns PROVE EnvelopeInv'
  BY ReadInv DEF FetchReturns, EnvelopeInv

(* Every step of the runtime and of the source. *)
LEMMA EnvelopeNextInv == EnvelopeInv /\ [EnvelopeNext]_envelopeVars => EnvelopeInv'
  <1> SUFFICES ASSUME EnvelopeInv, [EnvelopeNext]_envelopeVars PROVE EnvelopeInv'
    OBVIOUS
  <1>1. CASE \E p \in Others \cup {Ocr2} : Invoke(p)
    BY <1>1, InvokeInv DEF Program
  <1>2. CASE LogEvent  BY <1>2, LogInv
  <1>3. CASE Success  BY <1>3, SuccessInv
  <1>4. CASE Commit  BY <1>4, CommitInv
  <1>5. CASE Fail  BY <1>5, FailInv
  <1>6. CASE StartFetch  BY <1>6, StartFetchInv
  <1>7. CASE GetLatestTransmission  BY <1>7, AnswerInv
  <1>8. CASE \E listed \in 0..Len(txs) : \E found \in SUBSET (1..listed) :
                getJuelsPerLamport(listed, found)
    BY <1>8, PriceInv
  <1>9. CASE FetchReturns  BY <1>9, ReturnInv
  <1>10. CASE UNCHANGED envelopeVars
    BY <1>10 DEF envelopeVars, EnvelopeInv
  <1> QED
    BY <1>1, <1>2, <1>3, <1>4, <1>5, <1>6, <1>7, <1>8, <1>9, <1>10 DEF EnvelopeNext

(***************************************************************************)
(* An envelope's price of a token is one that a successful transaction's   *)
(* own event carried, or the zero of startup, and its answer is not older  *)
(* than the round in the state it was read with: ExtractEvents gives no    *)
(* event of another program, whatever was called before, around or inside  *)
(* the feed's calls, and getJuelsPerLamport none of a transaction that     *)
(* was undone.                                                             *)
(***************************************************************************)
THEOREM EnvelopeOfTheFeed == EnvelopeSpec => []EnvelopeIsOfTheFeed
  <1>1. EnvelopeInv => EnvelopeIsOfTheFeed
    BY DEF EnvelopeInv, EnvelopeIsOfTheFeed, Complete, ReadOfTheFeed
  <1> QED  BY <1>1, EnvelopeInitInv, EnvelopeNextInv, PTL DEF EnvelopeSpec

-----------------------------------------------------------------------------
(***************************************************************************)
(* Numbers and bytes.                                                      *)
(***************************************************************************)

(* The quotient and the remainder of a byte. *)
LEMMA ByteQuotient ==
  ASSUME NEW x \in Int, NEW q \in Int, 256 * q <= x, x < 256 * (q + 1)
  PROVE  q = x \div 256
  BY SMT

(* What is left over is a byte. *)
LEMMA ByteRemainder ==
  ASSUME NEW x \in Int
  PROVE  /\ x \div 256 \in Int /\ x % 256 \in Int
         /\ 0 <= x % 256 /\ x % 256 < 256
         /\ x % 256 = x - 256 * (x \div 256)
  <1>1. x % 256 = x - 256 * (x \div 256)  BY SMT
  <1>2. x \div 256 \in Int  BY SMT
  <1>3. x % 256 \in Int /\ 0 <= x % 256 /\ x % 256 < 256  BY SMT
  <1> QED  BY <1>1, <1>2, <1>3, SMT

(* Two bytes are dropped one by one. *)
LEMMA WordQuotient ==
  ASSUME NEW x \in Int
  PROVE  (x \div 256) \div 256 = x \div 65536
  <1> DEFINE q == x \div 256
             k == q \div 256
  <1>1. q \in Int /\ 256 * q <= x /\ x < 256 * (q + 1)  BY SMT
  <1>2. k \in Int /\ 256 * k <= q /\ q < 256 * (k + 1)  BY <1>1, SMT
  <1> HIDE DEF q, k
  <1>3. 65536 * k <= x /\ x < 65536 * (k + 1)  BY <1>1, <1>2, SMT
  <1>4. k = x \div 65536  BY <1>2, <1>3, SMT
  <1> QED  BY <1>4, SMT DEF q, k

\* What three bytes hold of x.
Holds(y, x) ==
  /\ x \in Unsigned => y = x
  /\ x \in Signed /\ x < 0 => y = x + 256 * 65536

(* The three low bytes of a number. *)
LEMMA ThreeBytes ==
  ASSUME NEW x \in Int, NEW a \in Int, NEW b \in Int, NEW c \in Int,
         c = (x \div 65536) % 256, b = (x \div 256) % 256, a = x % 256
  PROVE  Holds(65536 * c + 256 * b + a, x)
  <1> DEFINE q == x \div 256
             k == x \div 65536
             j == k \div 256
             y == 65536 * c + 256 * b + a
  <1>1. q \in Int /\ a = x - 256 * q /\ 0 <= a /\ a < 256
    BY ByteRemainder, SMT
  <1>2. k \in Int /\ b = q - 256 * k /\ 0 <= b /\ b < 256
    BY <1>1, ByteRemainder, WordQuotient, SMT
  <1>3. j \in Int /\ c = k - 256 * j /\ 0 <= c /\ c < 256
    BY <1>2, ByteRemainder, SMT
  <1> HIDE DEF q, k, j
  <1>6. y \in Int /\ y = x - 16777216 * j /\ y >= 0 /\ y < 16777216
    BY <1>1, <1>2, <1>3, SMT
  <1> HIDE DEF y
  <1>7. ASSUME x \in Unsigned PROVE y = x
    <2>1. 0 <= x /\ x < 16777216  BY <1>7, SMT DEF Unsigned
    <2>2. j = 0  BY <1>3, <1>6, <2>1, SMT
    <2> QED  BY <1>6, <2>2, SMT
  <1>8. ASSUME x \in Signed, x < 0 PROVE y = x + 256 * 65536
    <2>1. -8388608 <= x  BY <1>8, SMT DEF Signed
    <2>2. j = -1  BY <1>3, <1>6, <1>8, <2>1, SMT
    <2> QED  BY <1>6, <2>2, SMT
  <1>9. Holds(y, x)  BY <1>7, <1>8, SMT DEF Holds
  <1> QED  BY <1>9, SMT DEF y

\* r is f, of n elements, and then t, of m elements.
Joins(r, f, t, n, m) ==
  /\ Len(r) = n + m
  /\ \A i \in 1..n : r[i] = f[i]
  /\ \A i \in 1..m : r[n + i] = t[i]

(* What stands where in two sequences one after the other. *)
LEMMA Concatenated ==
  ASSUME NEW S, NEW f \in Seq(S), NEW t \in Seq(S), NEW n \in Nat, NEW m \in Nat,
         Len(f) = n, Len(t) = m
  PROVE  f \o t \in Seq(S) /\ Joins(f \o t, f, t, n, m)
  BY DEF Joins

(* What a serialized number is, byte by byte. *)
LEMMA Serialized ==
  ASSUME NEW w \in Nat, w >= 4, NEW x \in Int
  PROVE  /\ SerializeSigned(w, x) \in Seq(Int) /\ Len(SerializeSigned(w, x)) = w
         /\ Holds(Low(SerializeSigned(w, x)), x)
         /\ \A i \in 1..w - 3 :
               SerializeSigned(w, x)[i] = IF x < 0 THEN 255 ELSE 0
  <1>1. PICK a \in Int, b \in Int, c \in Int :
          a = (x \div 65536) % 256 /\ b = (x \div 256) % 256 /\ c = x % 256
    <2>1. x \div 65536 \in Int /\ x \div 256 \in Int /\ x \in Int  BY SMT
    <2>2. (x \div 65536) % 256 \in Int /\ (x \div 256) % 256 \in Int
          /\ x % 256 \in Int
      BY <2>1, SMT
    <2> QED  BY <2>2, SMT
  <1>2. PICK s \in {0, 255} : s = IF x < 0 THEN 255 ELSE 0  BY SMT
  <1>3. PICK n \in Nat : n = w - 3  BY SMT
  <1> DEFINE f == Fill(n, s)
             t == <<a, b, c>>
             r == f \o t
  <1>4. SerializeSigned(w, x) = r  BY <1>1, <1>2, <1>3, SMT DEF SerializeSigned
  <1>5. f \in Seq(Int) /\ Len(f) = n /\ \A i \in 1..n : f[i] = s  BY SMT DEF Fill
  <1>6. t \in Seq(Int) /\ Len(t) = 3 /\ t[1] = a /\ t[2] = b /\ t[3] = c  BY SMT
  <1> HIDE DEF f, t
  <1>7. /\ r \in Seq(Int) /\ Len(r) = n + 3
        /\ r[n + 1] = a /\ r[n + 2] = b /\ r[n + 3] = c
        /\ \A i \in 1..n : r[i] = s
    <2>1. /\ r \in Seq(Int) /\ Len(r) = n + 3
          /\ \A i \in 1..n : r[i] = f[i]
          /\ \A i \in 1..3 : r[n + i] = t[i]
      <3>1. PICK m \in Nat : m = 3  OBVIOUS
      <3>2. PICK u \in Seq(Int), v \in Seq(Int) : u = f /\ v = t
        BY <1>5, <1>6, Zenon
      <3>3. Len(u) = n /\ Len(v) = m  BY <1>5, <1>6, <3>1, <3>2, SMT
      <3>4. u \o v \in Seq(Int) /\ Joins(u \o v, u, v, n, m)
        BY <3>3, Concatenated, Zenon
      <3> QED  BY <3>1, <3>2, <3>4 DEF Joins
    <2> HIDE DEF r
    <2>2. \A i \in 1..n : r[i] = s  BY <1>5, <2>1, SMT
    <2>3. r[n + 1] = t[1] /\ r[n + 2] = t[2] /\ r[n + 3] = t[3]
      BY <2>1, SMT
    <2> QED  BY <1>6, <2>1, <2>2, <2>3, SMT
  <1> HIDE DEF r
  <1>8. w - 2 = n + 1 /\ w - 1 = n + 2 /\ w = n + 3  BY <1>3, SMT
  <1>9. Low(r) = 65536 * r[w - 2] + 256 * r[w - 1] + r[w]
    <2>1. Len(r) = w  BY <1>7, <1>8, SMT
    <2> QED  BY <2>1, SMT DEF Low
  <1>10. Low(r) = 65536 * a + 256 * b + c  BY <1>7, <1>8, <1>9, SMT
  <1>11. Holds(65536 * a + 256 * b + c, x)  BY <1>1, ThreeBytes, SMT
  <1> QED  BY <1>2, <1>3, <1>4, <1>7, <1>8, <1>10, <1>11, SMT

(* A number that three bytes hold is read as it was written. *)
LEMMA ReadUnsigned ==
  ASSUME NEW w \in Nat, w >= 4, NEW x \in Unsigned
  PROVE  from_be_bytes(SerializeSigned(w, x)) = x
  <1> DEFINE b == SerializeSigned(w, x)
  <1>1. x \in Int /\ x >= 0  BY SMT DEF Unsigned
  <1>2. /\ b \in Seq(Int) /\ Len(b) = w
        /\ Holds(Low(b), x)
        /\ \A i \in 1..w - 3 : b[i] = IF x < 0 THEN 255 ELSE 0
    BY <1>1, Serialized, SMT
  <1> HIDE DEF b
  <1>3. \A i \in 1..(Len(b) - 3) : b[i] = 0  BY <1>1, <1>2, SMT
  <1>5. Low(b) = x  BY <1>2, SMT DEF Holds
  <1>6. from_be_bytes(b) = x  BY <1>2, <1>3, <1>5, SMT DEF from_be_bytes
  <1> QED  BY <1>6, SMT DEF b

(* A signed number is read as it was written. *)
LEMMA ReadSigned ==
  ASSUME NEW w \in Nat, w >= 4, NEW x \in Signed
  PROVE  from_signed_be_bytes(SerializeSigned(w, x)) = x
  <1> DEFINE b == SerializeSigned(w, x)
  <1>1. x \in Int  BY SMT DEF Signed
  <1>2. /\ b \in Seq(Int) /\ Len(b) = w
        /\ Holds(Low(b), x)
        /\ \A i \in 1..w - 3 : b[i] = IF x < 0 THEN 255 ELSE 0
    BY <1>1, Serialized, SMT
  <1> HIDE DEF b
  <1>3. b[1] = IF x < 0 THEN 255 ELSE 0  BY <1>2, SMT
  <1>5. CASE x < 0
    <2>1. Low(b) = x + 256 * 65536  BY <1>2, <1>5, SMT DEF Holds
    <2>2. from_signed_be_bytes(b) = (x + 256 * 65536) - 256 * 65536
      BY <1>2, <1>3, <1>5, <2>1, SMT DEF from_signed_be_bytes
    <2> QED  BY <1>1, <2>2, SMT DEF b
  <1>6. CASE x >= 0
    <2>1. x \in Unsigned  BY <1>1, <1>6, SMT DEF Signed, Unsigned
    <2>2. Low(b) = x  BY <1>2, <2>1, SMT DEF Holds
    <2>3. from_signed_be_bytes(b) = x
      BY <1>1, <1>2, <1>3, <1>6, <2>2, SMT DEF from_signed_be_bytes
    <2> QED  BY <2>3, SMT DEF b
  <1> QED  BY <1>1, <1>5, <1>6, SMT

-----------------------------------------------------------------------------
(***************************************************************************)
(* Orders and medians.  p lists the members of D, n of them, by their      *)
(* keys k.                                                                 *)
(***************************************************************************)
Lists(D, n, k, p) ==
  /\ p \in [1..n -> D]
  /\ \A i, j \in 1..n : i < j => p[i] # p[j] /\ k[p[i]] <= k[p[j]]

(* Some of a collection of finite sets is none of them plus an element. *)
LEMMA Smallest ==
  ASSUME NEW C, C # {}, \A T \in C : IsFiniteSet(T)
  PROVE  \E T \in C : \A U \in C : ~(\E x \in T : U = T \ {x})
  <1> DEFINE N == {Cardinality(T) : T \in C}
  <1>1. \A T \in C : Cardinality(T) \in Nat  BY FS_CardinalityType
  <1>2. N \in SUBSET Nat /\ N # {}  BY <1>1
  <1>3. PICK n \in N : \A m \in N : n <= m
    <2> HIDE DEF N
    <2> QED  BY <1>2, LeastOf
  <1>4. PICK T \in C : Cardinality(T) = n  OBVIOUS
  <1>5. ASSUME NEW U \in C, NEW x \in T, U = T \ {x} PROVE FALSE
    <2>1. Cardinality(U) = Cardinality(T) - 1  BY <1>5, FS_RemoveElement
    <2>2. Cardinality(T) <= Cardinality(U)  BY <1>3, <1>4
    <2> QED  BY <1>1, <2>1, <2>2
  <1> QED  BY <1>5

(* Some member of a finite set has the largest key. *)
LEMMA LargestKey ==
  ASSUME NEW D, IsFiniteSet(D), NEW k, \A d \in D : k[d] \in Int, D # {}
  PROVE  \E z \in D : \A d \in D : k[d] <= k[z]
  <1> DEFINE C == {T \in SUBSET D : T # {} /\ ~\E z \in T : \A d \in T : k[d] <= k[z]}
  <1> SUFFICES ASSUME C # {} PROVE FALSE  OBVIOUS
  <1>1. PICK T \in C : \A U \in C : ~(\E x \in T : U = T \ {x})
    <2>1. \A T \in C : IsFiniteSet(T)  BY FS_Subset
    <2> HIDE DEF C
    <2> QED  BY <2>1, Smallest
  <1>2. T \subseteq D /\ T # {} /\ ~\E z \in T : \A d \in T : k[d] <= k[z]
    OBVIOUS
  <1>3. PICK x \in T : TRUE  BY <1>2
  <1> DEFINE U == T \ {x}
  <1>4. U \notin C  BY <1>1, <1>3
  <1>5. CASE U = {}
    <2>1. T = {x}  BY <1>3, <1>5
    <2>2. k[x] <= k[x]  BY <1>2
    <2> QED  BY <1>2, <2>1, <2>2
  <1>6. CASE U # {}
    <2>1. PICK z \in U : \A d \in U : k[d] <= k[z]  BY <1>2, <1>4, <1>6
    <2>2. z \in T /\ x \in T /\ k[z] \in Int /\ k[x] \in Int
          /\ \A d \in T : k[d] \in Int
      BY <1>2
    <2>3. CASE k[x] <= k[z]
      <3>1. \A d \in T : k[d] <= k[z]  BY <2>1, <2>3
      <3> QED  BY <1>2, <2>2, <3>1
    <2>4. CASE k[z] <= k[x]
      <3>1. \A d \in T : k[d] <= k[x]  BY <2>1, <2>2, <2>4
      <3> QED  BY <1>2, <2>2, <3>1
    <2> QED  BY <2>2, <2>3, <2>4
  <1> QED  BY <1>5, <1>6

(* A finite set can be listed by its keys. *)
LEMMA ListExists ==
  ASSUME NEW D, IsFiniteSet(D), NEW k, \A d \in D : k[d] \in Int
  PROVE  \E p : Lists(D, Cardinality(D), k, p)
  <1> DEFINE C == {T \in SUBSET D : ~\E p : Lists(T, Cardinality(T), k, p)}
  <1> SUFFICES ASSUME C # {} PROVE FALSE  OBVIOUS
  <1>1. PICK T \in C : \A U \in C : ~(\E x \in T : U = T \ {x})
    <2>1. \A T \in C : IsFiniteSet(T)  BY FS_Subset
    <2> HIDE DEF C
    <2> QED  BY <2>1, Smallest
  <1>2. T \subseteq D /\ ~\E p : Lists(T, Cardinality(T), k, p)  OBVIOUS
  <1>3. IsFiniteSet(T)  BY <1>2, FS_Subset
  <1>4. PICK n \in Nat : n = Cardinality(T)  BY <1>3, FS_CardinalityType
  <1>5. CASE T = {}
    <2>1. n = 0  BY <1>4, <1>5, FS_EmptySet
    <2>2. Lists(T, 0, k, [i \in 1..0 |-> 0])  BY DEF Lists
    <2> QED  BY <1>2, <1>4, <2>1, <2>2
  <1>6. CASE T # {}
    <2>1. PICK z \in T : \A d \in T : k[d] <= k[z]
      BY <1>2, <1>3, <1>6, LargestKey
    <2> DEFINE U == T \ {z}
    <2>2. Cardinality(U) = n - 1 /\ n - 1 \in Nat
      <3>1. Cardinality(U) = n - 1  BY <1>3, <1>4, FS_RemoveElement
      <3>2. IsFiniteSet(U)  BY <1>3, FS_RemoveElement
      <3>3. Cardinality(U) \in Nat  BY <3>2, FS_CardinalityType
      <3> QED  BY <3>1, <3>3
    <2>3. U \notin C  BY <1>1
    <2>4. PICK q : Lists(U, n - 1, k, q)  BY <1>2, <2>2, <2>3
    <2> DEFINE p == [i \in 1..n |-> IF i = n THEN z ELSE q[i]]
    <2>5. p \in [1..n -> T] /\ p[n] = z
          /\ \A i \in 1..n - 1 : p[i] = q[i] /\ q[i] \in U
      BY <2>2, <2>4 DEF Lists
    <2> HIDE DEF p
    <2>6. ASSUME NEW i \in 1..n, NEW j \in 1..n, i < j
          PROVE  p[i] # p[j] /\ k[p[i]] <= k[p[j]]
      <3>1. i \in 1..n - 1  BY <2>6
      <3>2. CASE j = n  BY <2>1, <2>5, <3>1, <3>2
      <3>3. CASE j # n
        <4>1. j \in 1..n - 1  BY <3>3
        <4> QED  BY <2>4, <2>5, <2>6, <3>1, <4>1 DEF Lists
      <3> QED  BY <3>2, <3>3
    <2>7. Lists(T, n, k, p)  BY <2>5, <2>6 DEF Lists
    <2> QED  BY <1>2, <1>4, <2>7
  <1> QED  BY <1>5, <1>6

(* The members at some places are as many as the places. *)
LEMMA Places ==
  ASSUME NEW D, NEW n \in Nat, NEW k, NEW p, Lists(D, n, k, p),
         NEW X, IsFiniteSet(X), NEW a \in Int, NEW b \in Int, 1 <= a, b <= n,
         \A i \in a..b : p[i] \in X
  PROVE  b - a + 1 <= Cardinality(X)
  <1> DEFINE g == [i \in a..b |-> p[i]]
  <1>1. g \in [a..b -> X]  OBVIOUS
  <1>2. ASSUME NEW i \in a..b, NEW j \in a..b, i # j PROVE g[i] # g[j]
    <2>1. i \in 1..n /\ j \in 1..n /\ (i < j \/ j < i)  BY <1>2
    <2> QED  BY <2>1 DEF Lists
  <1> HIDE DEF g
  <1>3. IsInjective(g)
    <2>1. DOMAIN g = a..b  BY <1>1
    <2> QED  BY <1>2, <2>1 DEF IsInjective
  <1>4. g \in Injection(a..b, X)  BY <1>1, <1>3 DEF Injection
  <1>5. Cardinality(a..b) <= Cardinality(X)  BY <1>4, FS_Injection
  <1>6. Cardinality(X) \in Nat  BY FS_CardinalityType
  <1>7. Cardinality(a..b) = IF a > b THEN 0 ELSE b - a + 1  BY FS_Interval
  <1> QED  BY <1>5, <1>6, <1>7

(* More places than there are faulty members hold one that is not. *)
LEMMA Outsider ==
  ASSUME NEW D, NEW n \in Nat, NEW k, NEW p, Lists(D, n, k, p),
         NEW F, IsFiniteSet(F), NEW a \in 1..n, NEW b \in 1..n,
         Cardinality(F) < b - a + 1
  PROVE  \E i \in a..b : p[i] \in D \ F
  <1> SUFFICES ASSUME \A i \in a..b : p[i] \in F PROVE FALSE
    <2>1. \A i \in a..b : i \in 1..n  OBVIOUS
    <2>2. \A i \in a..b : p[i] \in D  BY <2>1 DEF Lists
    <2> QED  BY <2>2
  <1>1. a \in Int /\ b \in Int /\ 1 <= a /\ b <= n  OBVIOUS
  <1>2. b - a + 1 <= Cardinality(F)  BY <1>1, Places
  <1>3. Cardinality(F) \in Nat  BY FS_CardinalityType
  <1> QED  BY <1>1, <1>2, <1>3

\* The key x is in the middle: so many members, and no more, are below it.
Halves(D, n, k, x) ==
  /\ Cardinality({o \in D : k[o] < x}) <= n \div 2
  /\ n \div 2 < Cardinality({o \in D : k[o] <= x})

(* The key of the middle of a list is in the middle. *)
LEMMA MiddleHalves ==
  ASSUME NEW D, IsFiniteSet(D), NEW n \in Nat, n = Cardinality(D), n # 0,
         NEW k, NEW p, Lists(D, n, k, p), \A d \in D : k[d] \in Int
  PROVE  Halves(D, n, k, k[p[n \div 2 + 1]])
  <1>1. PICK m \in 1..n : m = n \div 2 + 1  OBVIOUS
  <1>2. \A i \in 1..n : p[i] \in D /\ k[p[i]] \in Int  BY DEF Lists
  <1>3. PICK x \in Int : x = k[p[m]]  BY <1>2
  <1> DEFINE Below == {o \in D : k[o] < x}
             UpTo == {o \in D : k[o] <= x}
  <1>4. /\ IsFiniteSet(Below) /\ IsFiniteSet(UpTo) /\ IsFiniteSet(D \ Below)
        /\ Cardinality(Below) \in Nat /\ Cardinality(UpTo) \in Nat
        /\ Cardinality(D \ Below) = n - Cardinality(Below)
    <2>1. IsFiniteSet(Below) /\ IsFiniteSet(UpTo) /\ IsFiniteSet(D \ Below)
      <3>1. Below \in SUBSET D /\ UpTo \in SUBSET D /\ D \ Below \in SUBSET D
        OBVIOUS
      <3> HIDE DEF Below, UpTo
      <3> QED  BY <3>1, FS_Subset
    <2>2. Cardinality(D \ Below) = Cardinality(D) - Cardinality(D \cap Below)
      BY FS_Difference
    <2>3. D \cap Below = Below  OBVIOUS
    <2> HIDE DEF Below, UpTo
    <2> QED  BY <2>1, <2>2, <2>3, FS_CardinalityType
  <1>5. n - m + 1 <= n - Cardinality(Below)
    <2>1. ASSUME NEW i \in m..n PROVE p[i] \in D \ Below
      <3>1. i \in 1..n /\ (i = m \/ m < i)  BY <1>1
      <3>2. p[i] \in D /\ k[p[i]] \in Int  BY <1>2, <3>1
      <3>3. x <= k[p[i]]  BY <1>1, <1>2, <1>3, <3>1 DEF Lists
      <3> QED  BY <1>3, <3>2, <3>3
    <2> HIDE DEF Below
    <2>2. m \in Int /\ n \in Int /\ 1 <= m /\ n <= n  OBVIOUS
    <2>3. n - m + 1 <= Cardinality(D \ Below)  BY <1>4, <2>1, <2>2, Places
    <2> QED  BY <1>4, <2>3
  <1>6. m <= Cardinality(UpTo)
    <2>1. ASSUME NEW i \in 1..m PROVE p[i] \in UpTo
      <3>1. i \in 1..n /\ (i = m \/ i < m)  BY <1>1
      <3>2. p[i] \in D /\ k[p[i]] \in Int  BY <1>2, <3>1
      <3>3. k[p[i]] <= x  BY <1>1, <1>2, <1>3, <3>1 DEF Lists
      <3> QED  BY <3>2, <3>3
    <2> HIDE DEF UpTo
    <2>2. PICK a \in Int : a = 1  OBVIOUS
    <2>3. m \in Int /\ 1 <= a /\ m <= n /\ \A i \in a..m : p[i] \in UpTo
      BY <2>1, <2>2
    <2>4. m - a + 1 <= Cardinality(UpTo)  BY <1>4, <2>3, Places
    <2> QED  BY <1>4, <2>2, <2>4
  <1>7. Cardinality(Below) <= n \div 2 /\ n \div 2 < Cardinality(UpTo)
    <2> HIDE DEF Below, UpTo
    <2>1. n \div 2 \in Nat  OBVIOUS
    <2> QED  BY <1>1, <1>4, <1>5, <1>6, <2>1
  <1>8. Halves(D, n, k, x)  BY <1>7 DEF Halves
  <1> QED  BY <1>1, <1>3, <1>8

(* The middle of a list is between the keys of two members that are not    *)
(* among a faulty minority.                                                *)
LEMMA MiddleIsHonest ==
  ASSUME NEW D, NEW n \in Nat, NEW k, NEW p, Lists(D, n, k, p),
         \A d \in D : k[d] \in Int,
         NEW F, IsFiniteSet(F), 2 * Cardinality(F) < n
  PROVE  \E o \in D \ F, r \in D \ F :
            k[o] <= k[p[n \div 2 + 1]] /\ k[p[n \div 2 + 1]] <= k[r]
  <1>1. PICK f \in Nat : f = Cardinality(F)  BY FS_CardinalityType
  <1>2. PICK m \in 1..n : m = n \div 2 + 1 /\ f < m /\ f < n - m + 1
    <2>1. n \div 2 \in Nat /\ 2 * (n \div 2) <= n /\ n <= 2 * (n \div 2) + 1
      OBVIOUS
    <2>2. n \div 2 + 1 \in 1..n  BY <1>1, <2>1
    <2> QED  BY <1>1, <2>1, <2>2
  <1>3. PICK i \in 1..m : p[i] \in D \ F
    <2>1. PICK a \in 1..n : a = 1  BY <1>2
    <2>2. m \in 1..n /\ Cardinality(F) < m - a + 1  BY <1>1, <1>2, <2>1
    <2>3. \E i \in a..m : p[i] \in D \ F  BY <2>2, Outsider
    <2> QED  BY <2>1, <2>3
  <1>4. PICK j \in m..n : p[j] \in D \ F
    <2>1. n \in 1..n /\ m \in 1..n /\ Cardinality(F) < n - m + 1  BY <1>1, <1>2
    <2> QED  BY <2>1, Outsider
  <1>5. i \in 1..n /\ j \in 1..n /\ (i = m \/ i < m) /\ (j = m \/ m < j)
    BY <1>2, <1>3, <1>4
  <1>6. p[m] \in D  BY DEF Lists
  <1>7. k[p[i]] <= k[p[m]]  BY <1>5, <1>6 DEF Lists
  <1>8. k[p[m]] <= k[p[j]]  BY <1>5, <1>6 DEF Lists
  <1> QED  BY <1>2, <1>3, <1>4, <1>7, <1>8

Fields == {"value", "timestamp", "juels"}

\* The observations of some oracles.
Fit(obs) ==
  /\ IsFiniteSet(DOMAIN obs) /\ Cardinality(DOMAIN obs) \in 1..MAX_ORACLES
  /\ \A o \in DOMAIN obs : obs[o] \in
        [value : Signed, timestamp : Unsigned, juels : Unsigned]

(* The orders of the model are the lists by one field. *)
LEMMA SortedIs ==
  ASSUME NEW obs, Fit(obs), NEW field
  PROVE  \A p : p \in Sorted(obs, field) <=>
            Lists(DOMAIN obs, Cardinality(DOMAIN obs),
                  [o \in DOMAIN obs |-> obs[o][field]], p)
  <1> DEFINE D == DOMAIN obs
             k == [o \in D |-> obs[o][field]]
  <1>1. PICK n \in Nat : n = Cardinality(D)  BY DEF Fit
  <1> SUFFICES ASSUME NEW p
               PROVE  p \in Sorted(obs, field) <=> Lists(D, n, k, p)
    BY <1>1
  <1>2. ASSUME NEW q \in [1..n -> D], NEW i \in 1..n, NEW j \in 1..n
        PROVE  k[q[i]] = obs[q[i]][field] /\ k[q[j]] = obs[q[j]][field]
    OBVIOUS
  <1> HIDE DEF k
  <1>3. ASSUME p \in Sorted(obs, field) PROVE Lists(D, n, k, p)
    <2>1. p \in [1..n -> D] /\ DOMAIN p = 1..n
          /\ \A i, j \in DOMAIN p :
                i < j => p[i] # p[j] /\ obs[p[i]][field] <= obs[p[j]][field]
      BY <1>1, <1>3 DEF Sorted
    <2> QED  BY <1>2, <2>1 DEF Lists
  <1>4. ASSUME Lists(D, n, k, p) PROVE p \in Sorted(obs, field)
    <2>1. p \in [1..n -> D] /\ DOMAIN p = 1..n  BY <1>4 DEF Lists
    <2>2. \A i, j \in DOMAIN p :
             i < j => p[i] # p[j] /\ obs[p[i]][field] <= obs[p[j]][field]
      BY <1>2, <1>4, <2>1 DEF Lists
    <2> QED  BY <1>1, <2>1, <2>2 DEF Sorted
  <1> QED  BY <1>3, <1>4

(* Every field of an observation is a number. *)
LEMMA FieldIsInt ==
  ASSUME NEW obs, Fit(obs), NEW field \in Fields, NEW o \in DOMAIN obs
  PROVE  obs[o][field] \in Int
  <1>1. obs[o] \in [value : Signed, timestamp : Unsigned, juels : Unsigned]
    BY DEF Fit
  <1>2. Signed \subseteq Int /\ Unsigned \subseteq Int
    BY SMT DEF Signed, Unsigned
  <1> QED  BY <1>1, <1>2 DEF Fields

\* Correct oracles observed less, and more, of a field.
Within(obs, x, field) ==
  \E o, p \in DOMAIN obs \ Faulty : obs[o][field] <= x /\ x <= obs[p][field]

\* The median of one field of the observations, as Encoded takes it.
Median(obs, field) == obs[Middle(CHOOSE q \in Sorted(obs, field) : TRUE)][field]

\* x is in the middle of what was observed.
HalvesOf(obs, x, field) ==
  LET half == Cardinality(DOMAIN obs) \div 2
  IN /\ Cardinality({o \in DOMAIN obs : obs[o][field] < x}) <= half
     /\ half < Cardinality({o \in DOMAIN obs : obs[o][field] <= x})

(* It is one of the observations, in their middle and between those of     *)
(* correct oracles.                                                        *)
LEMMA MedianFits ==
  ASSUME NEW obs, Fit(obs), NEW field \in Fields
  PROVE  /\ \E o \in DOMAIN obs : Median(obs, field) = obs[o][field]
         /\ HalvesOf(obs, Median(obs, field), field)
         /\ IsFiniteSet(Faulty) /\ 2 * Cardinality(Faulty) < Cardinality(DOMAIN obs)
              => Within(obs, Median(obs, field), field)
  <1> DEFINE D == DOMAIN obs
             k == [o \in D |-> obs[o][field]]
  <1>1. PICK n \in 1..MAX_ORACLES : n = Cardinality(D)  BY DEF Fit
  <1>2. \A o \in D : k[o] = obs[o][field] /\ k[o] \in Int  BY FieldIsInt
  <1>3. \A p : p \in Sorted(obs, field) <=> Lists(D, n, k, p)
    BY <1>1, SortedIs
  <1> HIDE DEF k
  <1>4. IsFiniteSet(D)  BY DEF Fit
  <1>5. \E p : Lists(D, n, k, p)  BY <1>1, <1>2, <1>4, ListExists
  <1>6. PICK q : q = (CHOOSE r \in Sorted(obs, field) : TRUE)  OBVIOUS
  <1>7. q \in Sorted(obs, field)  BY <1>3, <1>5, <1>6
  <1>8. Lists(D, n, k, q)  BY <1>3, <1>7
  <1>9. n \in Nat /\ n \div 2 + 1 \in 1..n  BY DEF MAX_ORACLES
  <1>10. q \in [1..n -> D] /\ Len(q) = n /\ q[n \div 2 + 1] \in D
    BY <1>8, <1>9 DEF Lists
  <1>11. Median(obs, field) = obs[q[n \div 2 + 1]][field]
    BY <1>6, <1>10 DEF Median, Middle
  <1>12. Median(obs, field) = k[q[n \div 2 + 1]]  BY <1>2, <1>10, <1>11
  <1>13. ASSUME IsFiniteSet(Faulty), 2 * Cardinality(Faulty) < n
         PROVE  Within(obs, Median(obs, field), field)
    <2>1. PICK o \in D \ Faulty, r \in D \ Faulty :
             k[o] <= k[q[n \div 2 + 1]] /\ k[q[n \div 2 + 1]] <= k[r]
      BY <1>2, <1>8, <1>9, <1>13, MiddleIsHonest
    <2> QED  BY <1>2, <1>12, <2>1 DEF Within
  <1>14. HalvesOf(obs, Median(obs, field), field)
    <2>1. PICK x : x = Median(obs, field)  OBVIOUS
    <2>2. Halves(D, n, k, x)
      <3>1. n = Cardinality(D) /\ n # 0  BY <1>1
      <3>2. Halves(D, n, k, k[q[n \div 2 + 1]])
        BY <1>2, <1>4, <1>8, <1>9, <3>1, MiddleHalves
      <3> QED  BY <1>12, <2>1, <3>2
    <2>3. {o \in D : k[o] < x} = {o \in DOMAIN obs : obs[o][field] < x}
          /\ {o \in D : k[o] <= x} = {o \in DOMAIN obs : obs[o][field] <= x}
      BY <1>2
    <2> QED  BY <1>1, <2>1, <2>2, <2>3, Zenon DEF Halves, HalvesOf
  <1> QED  BY <1>1, <1>10, <1>11, <1>13, <1>14

-----------------------------------------------------------------------------
(***************************************************************************)
(* Cutting bytes: c is a, of n bytes, and then b, of m bytes.              *)
(***************************************************************************)
Is(a, n) == a \in Seq(Int) /\ Len(a) = n

Cut(c, a, b, n, m) == Is(a, n) /\ Is(b, m) /\ c = a \o b

(* It has the bytes of both. *)
LEMMA CutIs ==
  ASSUME NEW n \in Nat, NEW m \in Nat, NEW a, NEW b, NEW c, Cut(c, a, b, n, m)
  PROVE  Is(c, n + m)
  <1>1. a \in Seq(Int) /\ b \in Seq(Int) /\ Len(a) = n /\ Len(b) = m /\ c = a \o b
    BY DEF Cut, Is
  <1>2. a \o b \in Seq(Int) /\ Len(a \o b) = Len(a) + Len(b)
    BY <1>1, ConcatProperties
  <1> QED  BY <1>1, <1>2 DEF Is

(* A slice of the first part. *)
LEMMA SliceLeft ==
  ASSUME NEW n \in Nat, NEW m \in Nat, NEW a, NEW b, NEW c, Cut(c, a, b, n, m),
         NEW i \in Nat, NEW j \in Nat, i < j, j <= n
  PROVE  Slice(c, i, j) = Slice(a, i, j)
  <1>1. i + 1 \in 1..Len(a) /\ j \in 1..Len(a)  BY DEF Cut, Is
  <1> QED  BY <1>1, SubSeqOfConcat1 DEF Slice, Cut, Is

(* The second part. *)
LEMMA SliceRight ==
  ASSUME NEW n \in Nat, NEW m \in Nat, NEW a, NEW b, NEW c, Cut(c, a, b, n, m),
         NEW j \in Nat, j = n + m
  PROVE  Slice(c, n, j) = b
  <1>0. a \in Seq(Int) /\ b \in Seq(Int) /\ Len(a) = n /\ Len(b) = m /\ c = a \o b
    BY DEF Cut, Is
  <1> DEFINE d == Slice(c, n, j)
  <1>1. d \in Seq(Int) /\ Len(d) = Len(b)  BY <1>0 DEF Slice
  <1>2. \A k \in 1..Len(b) : d[k] = b[k]
    <2> SUFFICES ASSUME NEW k \in 1..Len(b) PROVE d[k] = b[k]  OBVIOUS
    <2>1. k \in Nat /\ k \in 1..m /\ j = n + m  BY <1>0
    <2>2. d = SubSeq(c, n + 1, j) /\ c \in Seq(Int) /\ Len(c) = n + m
      <3>1. a \o b \in Seq(Int) /\ Len(a \o b) = Len(a) + Len(b)
        BY <1>0, ConcatProperties
      <3>2. d = SubSeq(c, n + 1, j)  BY Zenon DEF Slice
      <3> HIDE DEF d
      <3> QED  BY <1>0, <3>1, <3>2
    <2>3. d[k] = c[n + k]
      <3> HIDE DEF d
      <3> QED  BY <2>1, <2>2, SMTT(30)
    <2>4. c[n + k] = b[k]  BY <1>0, <2>1, SMTT(30)
    <2> QED  BY <2>3, <2>4
  <1> HIDE DEF d
  <1>3. d = b  BY <1>0, <1>1, <1>2, SeqEqual
  <1> QED  BY <1>3 DEF d

(* All of a sequence. *)
LEMMA SliceWhole ==
  ASSUME NEW n \in Nat, NEW b, Is(b, n)
  PROVE  Slice(b, 0, n) = b
  BY SubSeqFull DEF Slice, Is

(* The tail of a sequence that begins with one byte. *)
LEMMA TailOf ==
  ASSUME NEW x \in Int, NEW b \in Seq(Int)
  PROVE  Tail(<<x>> \o b) = b /\ (<<x>> \o b)[1] = x
  <1> DEFINE c == <<x>> \o b
  <1>1. Tail(c) \in Seq(Int) /\ Len(Tail(c)) = Len(b) /\ c[1] = x  OBVIOUS
  <1>2. \A n \in 1..Len(b) : Tail(c)[n] = b[n]  OBVIOUS
  <1> HIDE DEF c
  <1>3. Tail(c) = b  BY <1>1, <1>2, SeqEqual
  <1> QED  BY <1>1, <1>3 DEF c

(* Three sequences in a row. *)
LEMMA Regrouped ==
  ASSUME NEW s \in Seq(Int), NEW t \in Seq(Int), NEW u \in Seq(Int)
  PROVE  (s \o t) \o u = s \o (t \o u)
  OBVIOUS

\* A report R of n observers: their ids p and F, which fills the array of them.
Report(R, T, N, p, F, M, J, n, m) ==
  /\ n + m = 32
  /\ Is(T, 4) /\ Is(N, 1) /\ Is(p, n) /\ Is(F, m) /\ Is(M, 16) /\ Is(J, 8)
  /\ R = T \o N \o p \o F \o M \o J

(* The parts of a report. *)
LEMMA ReportParts ==
  ASSUME NEW n \in Nat, NEW m \in Nat,
         NEW T, NEW N, NEW p, NEW F, NEW M, NEW J, NEW R,
         Report(R, T, N, p, F, M, J, n, m)
  PROVE  /\ Is(R, 61)
         /\ Slice(R, 0, 4) = T /\ Slice(R, 4, 5) = N /\ Slice(R, 5, 37) = p \o F
         /\ Slice(R, 37, 53) = M /\ Slice(R, 53, 61) = J
  <1>r. /\ n + m = 32
        /\ Is(T, 4) /\ Is(N, 1) /\ Is(p, n) /\ Is(F, m) /\ Is(M, 16) /\ Is(J, 8)
        /\ R = T \o N \o p \o F \o M \o J
    BY DEF Report
  <1>0. PICK P, A, B, C : P = p \o F /\ A = T \o N /\ B = A \o P /\ C = B \o M
    OBVIOUS
  <1>1. Cut(P, p, F, n, m)  BY <1>0, <1>r DEF Cut
  <1>p. Is(P, 32)  BY <1>1, <1>r, CutIs
  <1>2. Cut(A, T, N, 4, 1)  BY <1>0, <1>r DEF Cut
  <1>a. Is(A, 5)
    <2>1. Is(A, 4 + 1)  BY <1>2, CutIs
    <2> QED  BY <2>1
  <1>3. Cut(B, A, P, 5, 32)  BY <1>0, <1>p, <1>a, <1>r DEF Cut
  <1>b. Is(B, 37)
    <2>1. Is(B, 5 + 32)  BY <1>3, CutIs
    <2> QED  BY <2>1
  <1>4. Cut(C, B, M, 37, 16)  BY <1>0, <1>b, <1>r DEF Cut
  <1>c. Is(C, 53)
    <2>1. Is(C, 37 + 16)  BY <1>4, CutIs
    <2> QED  BY <2>1
  <1>5. B = T \o N \o p \o F
    <2>1. A \in Seq(Int) /\ p \in Seq(Int) /\ F \in Seq(Int)  BY <1>a, <1>r DEF Is
    <2>2. (A \o p) \o F = A \o (p \o F)
      <3>1. PICK s \in Seq(Int), t \in Seq(Int), u \in Seq(Int) :
              s = A /\ t = p /\ u = F
        BY <2>1, Zenon
      <3>2. (s \o t) \o u = s \o (t \o u)  BY Regrouped
      <3> QED  BY <3>1, <3>2
    <2> QED  BY <1>0, <2>2
  <1>6. Cut(R, C, J, 53, 8)  BY <1>0, <1>5, <1>c, <1>r DEF Cut
  <1>7. Is(R, 61)
    <2>1. Is(R, 53 + 8)  BY <1>6, CutIs
    <2> QED  BY <2>1
  <1>8. Slice(R, 53, 61) = J  BY <1>6, SliceRight
  <1>9. Slice(R, 37, 53) = M
    <2>1. Slice(R, 37, 53) = Slice(C, 37, 53)  BY <1>6, SliceLeft
    <2>2. Slice(C, 37, 53) = M  BY <1>4, SliceRight
    <2> QED  BY <2>1, <2>2
  <1>10. ASSUME NEW i \in Nat, NEW j \in Nat, i < j, j <= 37
         PROVE  Slice(R, i, j) = Slice(B, i, j)
    <2>1. Slice(R, i, j) = Slice(C, i, j)  BY <1>6, <1>10, SliceLeft
    <2>2. Slice(C, i, j) = Slice(B, i, j)  BY <1>4, <1>10, SliceLeft
    <2> QED  BY <2>1, <2>2
  <1>11. Slice(R, 5, 37) = P
    <2>1. Slice(R, 5, 37) = Slice(B, 5, 37)  BY <1>10
    <2>2. Slice(B, 5, 37) = P  BY <1>3, SliceRight
    <2> QED  BY <2>1, <2>2
  <1>12. Slice(R, 4, 5) = N
    <2>1. Slice(R, 4, 5) = Slice(B, 4, 5)  BY <1>10
    <2>2. Slice(B, 4, 5) = Slice(A, 4, 5)  BY <1>3, SliceLeft
    <2>3. Slice(A, 4, 5) = N  BY <1>2, SliceRight
    <2> QED  BY <2>1, <2>2, <2>3
  <1>13. Slice(R, 0, 4) = T
    <2>1. Slice(R, 0, 4) = Slice(B, 0, 4)  BY <1>10
    <2>2. Slice(B, 0, 4) = Slice(A, 0, 4)  BY <1>3, SliceLeft
    <2>3. Slice(A, 0, 4) = Slice(T, 0, 4)  BY <1>2, SliceLeft
    <2>4. Slice(T, 0, 4) = T  BY <1>r, SliceWhole
    <2> QED  BY <2>1, <2>2, <2>3, <2>4
  <1> QED  BY <1>0, <1>7, <1>8, <1>9, <1>11, <1>12, <1>13

\* A report context X: digest, padding, epoch, round and extra hash.
Context(X, G, Z, E, O, H) ==
  /\ Is(G, 32) /\ Is(Z, 27) /\ Is(E, 4) /\ Is(O, 1) /\ Is(H, 32)
  /\ X = G \o Z \o E \o O \o H

(* The parts of a report context. *)
LEMMA ContextParts ==
  ASSUME NEW G, NEW Z, NEW E, NEW O, NEW H, NEW X, Context(X, G, Z, E, O, H)
  PROVE  /\ Is(X, 96) /\ Slice(X, 0, 32) = G
         /\ Slice(X, 59, 63) = E /\ Slice(X, 63, 64) = O
  <1>r. /\ Is(G, 32) /\ Is(Z, 27) /\ Is(E, 4) /\ Is(O, 1) /\ Is(H, 32)
        /\ X = G \o Z \o E \o O \o H
    BY DEF Context
  <1>0. PICK A, B, C : A = G \o Z /\ B = A \o E /\ C = B \o O  OBVIOUS
  <1>1. Cut(A, G, Z, 32, 27)  BY <1>0, <1>r DEF Cut
  <1>a. Is(A, 59)
    <2>1. Is(A, 32 + 27)  BY <1>1, CutIs
    <2> QED  BY <2>1
  <1>2. Cut(B, A, E, 59, 4)  BY <1>0, <1>a, <1>r DEF Cut
  <1>b. Is(B, 63)
    <2>1. Is(B, 59 + 4)  BY <1>2, CutIs
    <2> QED  BY <2>1
  <1>3. Cut(C, B, O, 63, 1)  BY <1>0, <1>b, <1>r DEF Cut
  <1>c. Is(C, 64)
    <2>1. Is(C, 63 + 1)  BY <1>3, CutIs
    <2> QED  BY <2>1
  <1>4. Cut(X, C, H, 64, 32)  BY <1>0, <1>c, <1>r DEF Cut
  <1>5. Is(X, 96)
    <2>1. Is(X, 64 + 32)  BY <1>4, CutIs
    <2> QED  BY <2>1
  <1>6. Slice(X, 63, 64) = O
    <2>1. Slice(X, 63, 64) = Slice(C, 63, 64)  BY <1>4, SliceLeft
    <2>2. Slice(C, 63, 64) = O  BY <1>3, SliceRight
    <2> QED  BY <2>1, <2>2
  <1>7. Slice(X, 59, 63) = E
    <2>1. Slice(X, 59, 63) = Slice(C, 59, 63)  BY <1>4, SliceLeft
    <2>2. Slice(C, 59, 63) = Slice(B, 59, 63)  BY <1>3, SliceLeft
    <2>3. Slice(B, 59, 63) = E  BY <1>2, SliceRight
    <2> QED  BY <2>1, <2>2, <2>3
  <1>8. Slice(X, 0, 32) = G
    <2>1. Slice(X, 0, 32) = Slice(C, 0, 32)  BY <1>4, SliceLeft
    <2>2. Slice(C, 0, 32) = Slice(B, 0, 32)  BY <1>3, SliceLeft
    <2>3. Slice(B, 0, 32) = Slice(A, 0, 32)  BY <1>2, SliceLeft
    <2>4. Slice(A, 0, 32) = Slice(G, 0, 32)  BY <1>1, SliceLeft
    <2>5. Slice(G, 0, 32) = G  BY <1>r, SliceWhole
    <2> QED  BY <2>1, <2>2, <2>3, <2>4, <2>5
  <1> QED  BY <1>5, <1>6, <1>7, <1>8

-----------------------------------------------------------------------------
(* A run of equal bytes. *)
LEMMA FillIs ==
  ASSUME NEW n \in Nat, NEW x \in Int
  PROVE  Is(Fill(n, x), n)
  <1>1. [i \in 1..n |-> x] \in Seq(Int) /\ Len([i \in 1..n |-> x]) = n  OBVIOUS
  <1> QED  BY <1>1 DEF Is, Fill

(* A signature is 64 bytes and the recovery id. *)
LEMMA SignatureIs ==
  ASSUME NEW o \in Nat
  PROVE  Is(Signature(o), 65)
  <1>1. PICK a, b : a = Fill(64, 100 + o) /\ b = <<o>>  OBVIOUS
  <1>2. PICK x \in Int : x = 100 + o  OBVIOUS
  <1>3. Is(a, 64)
    <2>1. \A n \in Nat : Is(Fill(n, x), n)  BY FillIs
    <2> QED  BY <1>1, <1>2, <2>1
  <1>4. Is(b, 1)  BY <1>1 DEF Is
  <1>5. PICK n \in Nat, m \in Nat : n = 64 /\ m = 1  OBVIOUS
  <1>6. Cut(a \o b, a, b, n, m)  BY <1>3, <1>4, <1>5 DEF Cut
  <1>7. Is(a \o b, n + m)  BY <1>6, CutIs
  <1>8. n + m = 65  BY <1>5
  <1> QED  BY <1>1, <1>7, <1>8 DEF Signature

\* The data of an instruction with the signatures of o and p.
SentBy(data, e, r, rep, o, p) ==
  data = <<STORE_NONCE>> \o RawReportContext(e, r) \o rep
           \o (Signature(o) \o Signature(p))

(* Two signatures at the end of the data. *)
LEMMA DataIs ==
  ASSUME NEW e, NEW r, NEW rep, NEW o \in Nat, NEW p \in Nat,
         NEW data, data = TransmitData(e, r, rep, <<o, p>>)
  PROVE  SentBy(data, e, r, rep, o, p)
  <1>0. Signature(o) \in Seq(Int) /\ Signature(p) \in Seq(Int)
    BY SignatureIs DEF Is
  <1> DEFINE s == <<o, p>>
             P(g) == g = [i \in 0..Len(s) |->
                            IF i = 0 THEN <<>> ELSE g[i-1] \o Signature(s[i])]
             A == Signature(o)
             B == Signature(p)
             end == CHOOSE g : P(g)
  <1>1. TransmitData(e, r, rep, s)
          = <<STORE_NONCE>> \o RawReportContext(e, r) \o rep \o end[Len(s)]
    BY Zenon DEF TransmitData
  <1>2. Len(s) = 2 /\ s[1] = o /\ s[2] = p  OBVIOUS
  <1> HIDE DEF s
  <1> DEFINE h == [i \in 0..2 |-> IF i = 0 THEN <<>> ELSE IF i = 1 THEN A ELSE A \o B]
  <1>3. P(h)
    <2>1. h = [i \in 0..2 |-> IF i = 0 THEN <<>> ELSE h[i-1] \o Signature(s[i])]
      <3> DEFINE k(i) == IF i = 0 THEN <<>> ELSE h[i-1] \o Signature(s[i])
      <3>1. h[0] = <<>> /\ h[1] = A /\ h[2] = A \o B  OBVIOUS
      <3>2. <<>> \o A = A  BY <1>0, ConcatEmptySeq
      <3>3. \A i \in 0..2 : h[i] = k(i)
        <4> SUFFICES ASSUME NEW i \in 0..2 PROVE h[i] = k(i)  OBVIOUS
        <4> HIDE DEF h
        <4>1. CASE i = 0  BY <3>1, <4>1
        <4>2. CASE i = 1
          <5>1. k(i) = h[0] \o Signature(s[1])  BY <4>2
          <5> QED  BY <1>2, <3>1, <3>2, <4>2, <5>1
        <4>3. CASE i = 2
          <5>1. k(i) = h[1] \o Signature(s[2])  BY <4>3
          <5> QED  BY <1>2, <3>1, <4>3, <5>1
        <4> QED  BY <4>1, <4>2, <4>3
      <3>4. h = [i \in 0..2 |-> h[i]]  OBVIOUS
      <3> HIDE DEF h, k
      <3>5. h = [i \in 0..2 |-> k(i)]  BY <3>3, <3>4
      <3> QED  BY <3>5 DEF k
    <2> HIDE DEF h
    <2> QED  BY <1>2, <2>1
  <1>4. P(end)
    <2> HIDE DEF h, P
    <2>1. \E g : P(g)  BY <1>3
    <2> QED  BY <2>1
  <1> HIDE DEF end, h
  <1>5. \A i \in 0..2 : end[i] = IF i = 0 THEN <<>> ELSE end[i-1] \o Signature(s[i])
    BY <1>2, <1>4
  <1>6. end[0] = <<>> /\ end[1] = end[0] \o Signature(s[1])
        /\ end[2] = end[1] \o Signature(s[2])
    <2>1. end[0] = <<>>  BY <1>5
    <2>2. ASSUME NEW i \in 0..2, NEW j, i # 0, j = i - 1
          PROVE  end[i] = end[j] \o Signature(s[i])
      BY <1>5, <2>2
    <2>3. 1 \in 0..2 /\ 1 # 0 /\ 0 = 1 - 1 /\ 2 \in 0..2 /\ 2 # 0 /\ 1 = 2 - 1
      OBVIOUS
    <2>4. end[1] = end[0] \o Signature(s[1])  BY <2>2, <2>3, Zenon
    <2>5. end[2] = end[1] \o Signature(s[2])  BY <2>2, <2>3, Zenon
    <2> QED  BY <2>1, <2>4, <2>5
  <1>7. <<>> \o A = A  BY <1>0, ConcatEmptySeq
  <1>8. end[2] = A \o B  BY <1>2, <1>6, <1>7
  <1>9. data = TransmitData(e, r, rep, s)  BY DEF s
  <1> QED  BY <1>1, <1>2, <1>8, <1>9 DEF SentBy

\* The data of an instruction: the byte c, a report context, a report and two
\* signatures.
Data(data, c, X, R, A, B) ==
  /\ Is(X, 96) /\ Is(R, 61) /\ Is(A, 65) /\ Is(B, 65)
  /\ data = <<c>> \o X \o R \o (A \o B)

(* What the program takes apart. *)
LEMMA ReceivedParts ==
  ASSUME NEW X, NEW R, NEW A, NEW B, NEW c \in Int, NEW data,
         Data(data, c, X, R, A, B)
  PROVE  /\ Received(data).status = "received" /\ Received(data).nonce = c
         /\ Received(data).digest = Slice(X, 0, 32)
         /\ Received(data).epoch = from_be_bytes(Slice(X, 59, 63))
         /\ Received(data).round = Slice(X, 63, 64)[1]
         /\ Received(data).sent = R /\ Received(data).read = unpack(R)
         /\ DOMAIN Received(data).signatures = 1..2
         /\ Received(data).signatures[1] = A /\ Received(data).signatures[2] = B
  <1>r. /\ Is(X, 96) /\ Is(R, 61) /\ Is(A, 65) /\ Is(B, 65)
        /\ data = <<c>> \o X \o R \o (A \o B)
    BY DEF Data
  <1>0. PICK raw, sigs, rest : raw = X \o R /\ sigs = A \o B /\ rest = raw \o sigs
    OBVIOUS
  <1>1. Cut(raw, X, R, 96, 61) /\ Cut(sigs, A, B, 65, 65)  BY <1>0, <1>r DEF Cut
  <1>2. Is(raw, 157) /\ Is(sigs, 130)
    <2>1. Is(raw, 96 + 61) /\ Is(sigs, 65 + 65)  BY <1>1, CutIs
    <2> QED  BY <2>1
  <1>3. Cut(rest, raw, sigs, 157, 130)  BY <1>0, <1>2 DEF Cut
  <1>4. Is(rest, 287)
    <2>1. Is(rest, 157 + 130)  BY <1>3, CutIs
    <2> QED  BY <2>1
  <1>5. data = <<c>> \o rest
    <2>1. <<c>> \in Seq(Int) /\ X \in Seq(Int) /\ R \in Seq(Int)
          /\ raw \in Seq(Int) /\ sigs \in Seq(Int)
      BY <1>2, <1>r DEF Is
    <2>2. PICK s \in Seq(Int), t \in Seq(Int), u \in Seq(Int), v \in Seq(Int),
               w \in Seq(Int) :
            s = <<c>> /\ t = X /\ u = R /\ v = raw /\ w = sigs
      BY <2>1, Zenon
    <2>3. (s \o t) \o u = s \o (t \o u)  BY SMTT(30)
    <2>4. (s \o v) \o w = s \o (v \o w)  BY SMTT(30)
    <2> QED  BY <1>0, <1>r, <2>2, <2>3, <2>4
  <1>6. Tail(data) = rest /\ data[1] = c
    <2>1. PICK b \in Seq(Int) : b = rest  BY <1>4 DEF Is
    <2>2. Tail(<<c>> \o b) = b /\ (<<c>> \o b)[1] = c  BY TailOf
    <2> QED  BY <1>5, <2>1, <2>2
  <1>7. CONTEXT_LEN = 96 /\ CONTEXT_LEN + REPORT_LEN = 157 /\ SIGNATURE_LEN = 65
    BY DEF CONTEXT_LEN, REPORT_LEN, SIGNATURE_LEN
  <1>8. Slice(rest, 0, 157) = raw
    <2>1. Slice(rest, 0, 157) = Slice(raw, 0, 157)  BY <1>3, SliceLeft
    <2>2. Slice(raw, 0, 157) = raw  BY <1>2, SliceWhole
    <2> QED  BY <2>1, <2>2
  <1>9. Slice(raw, 0, 96) = X
    <2>1. Slice(raw, 0, 96) = Slice(X, 0, 96)  BY <1>1, SliceLeft
    <2>2. Slice(X, 0, 96) = X  BY <1>r, SliceWhole
    <2> QED  BY <2>1, <2>2
  <1>10. Slice(raw, 96, 157) = R  BY <1>1, SliceRight
  <1>11. Len(rest) = 287 /\ Len(sigs) = 130  BY <1>2, <1>4 DEF Is
  <1>12. Slice(rest, 157, 287) = sigs  BY <1>3, SliceRight
  <1>13. 130 % 65 = 0 /\ 130 \div 65 = 2 /\ ~(287 <= 157)  OBVIOUS
  <1> DEFINE parts == [i \in 1..2 |-> Slice(sigs, (i - 1) * 65, i * 65)]
             received ==
               [status |-> "received", nonce |-> c, digest |-> Slice(X, 0, 32),
                epoch |-> from_be_bytes(Slice(X, 59, 63)),
                round |-> Slice(X, 63, 64)[1], signatures |-> parts,
                sent |-> R, read |-> unpack(R)]
  <1>14. Received(data) = received
    <2>1. Slice(Tail(data), 0, CONTEXT_LEN + REPORT_LEN) = raw  BY <1>6, <1>7, <1>8
    <2>2. Slice(raw, 0, CONTEXT_LEN) = X  BY <1>7, <1>9
    <2>3. Slice(raw, CONTEXT_LEN, CONTEXT_LEN + REPORT_LEN) = R  BY <1>7, <1>10
    <2>4. Slice(Tail(data), CONTEXT_LEN + REPORT_LEN, Len(Tail(data))) = sigs
      BY <1>6, <1>7, <1>11, <1>12
    <2>5. ~(Len(Tail(data)) <= CONTEXT_LEN + REPORT_LEN
            \/ Len(sigs) % SIGNATURE_LEN # 0)
      BY <1>6, <1>7, <1>11, <1>13
    <2>6. parts = [i \in 1..(Len(sigs) \div SIGNATURE_LEN) |->
                      Slice(sigs, (i - 1) * SIGNATURE_LEN, i * SIGNATURE_LEN)]
      BY <1>7, <1>11, <1>13
    <2>7. data[1] = c  BY <1>6
    <2> HIDE DEF parts
    <2> QED  BY <2>1, <2>2, <2>3, <2>4, <2>5, <2>6, <2>7, Zenon DEF Received
  <1>15. parts[1] = A /\ parts[2] = B /\ DOMAIN parts = 1..2
    <2>1. Slice(sigs, 0, 65) = A
      <3>1. Slice(sigs, 0, 65) = Slice(A, 0, 65)  BY <1>1, SliceLeft
      <3>2. Slice(A, 0, 65) = A  BY <1>r, SliceWhole
      <3> QED  BY <3>1, <3>2
    <2>2. Slice(sigs, 65, 130) = B  BY <1>1, SliceRight
    <2>3. parts[1] = Slice(sigs, (1 - 1) * 65, 1 * 65)
          /\ parts[2] = Slice(sigs, (2 - 1) * 65, 2 * 65)
      OBVIOUS
    <2> QED  BY <2>1, <2>2, <2>3
  <1> HIDE DEF parts
  <1>16. /\ received.status = "received" /\ received.nonce = c
         /\ received.digest = Slice(X, 0, 32)
         /\ received.epoch = from_be_bytes(Slice(X, 59, 63))
         /\ received.round = Slice(X, 63, 64)[1]
         /\ received.sent = R /\ received.read = unpack(R)
         /\ received.signatures = parts
    OBVIOUS
  <1> HIDE DEF received
  <1> QED  BY <1>14, <1>15, <1>16

-----------------------------------------------------------------------------
(* The medians fit where they go. *)
LEMMA MedianType ==
  ASSUME NEW obs, Fit(obs)
  PROVE  /\ Median(obs, "value") \in Signed
         /\ Median(obs, "timestamp") \in Unsigned
         /\ Median(obs, "juels") \in Unsigned
  <1>1. \A o \in DOMAIN obs :
          /\ obs[o]["value"] \in Signed
          /\ obs[o]["timestamp"] \in Unsigned
          /\ obs[o]["juels"] \in Unsigned
    BY DEF Fit
  <1>2. \A field \in Fields : \E o \in DOMAIN obs : Median(obs, field) = obs[o][field]
    BY MedianFits
  <1> QED  BY <1>1, <1>2, Zenon DEF Fields

(* An order of the observers is a sequence of ids. *)
LEMMA OrderIs ==
  ASSUME NEW obs, Fit(obs), DOMAIN obs \subseteq Nat, NEW field,
         NEW p \in Sorted(obs, field)
  PROVE  \E n \in 1..19 : n = Cardinality(DOMAIN obs) /\ Is(p, n)
  <1>1. PICK n \in 1..19 : n = Cardinality(DOMAIN obs)  BY DEF Fit, MAX_ORACLES
  <1>2. p \in [1..n -> DOMAIN obs]  BY <1>1, Zenon DEF Sorted
  <1>3. p \in [1..n -> Int]  BY <1>2
  <1>4. p \in Seq(Int) /\ Len(p) = n  BY <1>3
  <1> QED  BY <1>1, <1>4 DEF Is

(* The beginning of a beginning. *)
LEMMA ShorterPrefix ==
  ASSUME NEW b \in Seq(Int), Len(b) = 32, NEW n \in 1..19
  PROVE  SubSeq(SubSeq(b, 1, 19), 1, n) = SubSeq(b, 1, n)
  <1>1. PICK one \in Int, last \in Int : one = 1 /\ last = 19  OBVIOUS
  <1>2. /\ one \in 1..Len(b) /\ last \in 1..Len(b)
        /\ one \in 1..(last - one + 1) /\ n \in 1..(last - one + 1)
    BY <1>1
  <1>3. SubSeq(SubSeq(b, one, last), one, n) = SubSeq(b, one + one - 1, one + n - 1)
    BY <1>2, SubSeqOfSubSeq
  <1>4. one + one - 1 = 1 /\ one + n - 1 = n  BY <1>1
  <1> QED  BY <1>1, <1>3, <1>4, Zenon

(* What the codec packed is what the program unpacks. *)
LEMMA ReportRead ==
  ASSUME NEW obs, Fit(obs), DOMAIN obs \subseteq Nat, NEW p \in Sorted(obs, "value")
  PROVE  /\ Is(Encoded(obs, p), 61)
         /\ unpack(Encoded(obs, p)) =
              [timestamp |-> Median(obs, "timestamp"), observers |-> p,
               median |-> Median(obs, "value"), juels |-> Median(obs, "juels")]
         /\ MedianFromReport(Encoded(obs, p)) = Median(obs, "value")
         /\ ObserversCountFromReport(Encoded(obs, p)) = Len(p)
  <1>1. PICK n \in 1..19 : Is(p, n)  BY OrderIs
  <1>2. PICK m \in Nat : m = 32 - n  OBVIOUS
  <1>3. PICK v, t, j : v = Median(obs, "value") /\ t = Median(obs, "timestamp")
                        /\ j = Median(obs, "juels")
    OBVIOUS
  <1>4. v \in Signed /\ t \in Unsigned /\ j \in Unsigned  BY <1>3, MedianType
  <1>5. v \in Int /\ t \in Int /\ j \in Int  BY <1>4, SMT DEF Signed, Unsigned
  <1>6. PICK T, N, F, M, J : /\ T = SerializeSigned(4, t) /\ N = <<n>>
                             /\ F = Fill(m, 0) /\ M = SerializeSigned(16, v)
                             /\ J = SerializeSigned(8, j)
    OBVIOUS
  <1>7. Is(T, 4) /\ Is(M, 16) /\ Is(J, 8)
    <2>1. \A w \in Nat, x \in Int : w >= 4 => Is(SerializeSigned(w, x), w)
      BY Serialized DEF Is
    <2>2. Is(SerializeSigned(4, t), 4)
      <3>1. PICK w \in Nat : w = 4  OBVIOUS
      <3> QED  BY <1>5, <2>1, <3>1
    <2>3. Is(SerializeSigned(16, v), 16)
      <3>1. PICK w \in Nat : w = 16  OBVIOUS
      <3> QED  BY <1>5, <2>1, <3>1
    <2>4. Is(SerializeSigned(8, j), 8)
      <3>1. PICK w \in Nat : w = 8  OBVIOUS
      <3> QED  BY <1>5, <2>1, <3>1
    <2> QED  BY <1>6, <2>2, <2>3, <2>4
  <1>8. Is(N, 1) /\ N[1] = n  BY <1>6 DEF Is
  <1>9. Is(F, m)
    <2>1. PICK z \in Int : z = 0  OBVIOUS
    <2> QED  BY <1>6, <2>1, FillIs
  <1>10. PICK R : R = T \o N \o p \o F \o M \o J  OBVIOUS
  <1>11. Encoded(obs, p) = R
    <2>1. Len(p) = n /\ 32 - n = m  BY <1>1, <1>2 DEF Is
    <2>2. /\ SerializeSigned(TimestampLen, Median(obs, "timestamp")) = T
          /\ <<Len(p)>> = N /\ Fill(ObsArrLen - Len(p), 0) = F
          /\ SerializeSigned(MedianLen, Median(obs, "value")) = M
          /\ SerializeSigned(JuelsLen, Median(obs, "juels")) = J
      BY <1>3, <1>6, <2>1 DEF TimestampLen, ObsArrLen, MedianLen, JuelsLen
    <2> QED  BY <1>10, <2>2, Zenon DEF Encoded, Median
  <1>12. /\ Is(R, 61)
         /\ Slice(R, 0, 4) = T /\ Slice(R, 4, 5) = N /\ Slice(R, 5, 37) = p \o F
         /\ Slice(R, 37, 53) = M /\ Slice(R, 53, 61) = J
    <2>1. n \in Nat /\ n + m = 32  BY <1>2
    <2>2. Report(R, T, N, p, F, M, J, n, m)
      BY <1>1, <1>7, <1>8, <1>9, <1>10, <2>1, Zenon DEF Report
    <2> QED  BY <2>1, <2>2, ReportParts
  <1>13. SubSeq(SubSeq(p \o F, 1, MAX_ORACLES), 1, n) = p
    <2>1. n \in Nat /\ 0 < n  OBVIOUS
    <2>2. Cut(p \o F, p, F, n, m)  BY <1>1, <1>9 DEF Cut
    <2>3. PICK z \in Nat : z = 0  OBVIOUS
    <2>4. Slice(p \o F, z, n) = Slice(p, z, n)  BY <2>1, <2>2, <2>3, SliceLeft
    <2>5. Slice(p, z, n) = p  BY <1>1, <2>1, <2>3, SliceWhole
    <2>6. z + 1 = 1  BY <2>3
    <2>7. SubSeq(p \o F, 1, n) = p  BY <2>4, <2>5, <2>6 DEF Slice
    <2>8. Is(p \o F, n + m) /\ n + m = 32  BY <1>2, <2>1, <2>2, CutIs
    <2>9. SubSeq(SubSeq(p \o F, 1, 19), 1, n) = SubSeq(p \o F, 1, n)
      <3>1. PICK b \in Seq(Int) : b = p \o F /\ Len(b) = 32  BY <2>8 DEF Is
      <3>2. SubSeq(SubSeq(b, 1, 19), 1, n) = SubSeq(b, 1, n)
        BY <3>1, ShorterPrefix
      <3> QED  BY <3>1, <3>2
    <2> QED  BY <2>7, <2>9 DEF MAX_ORACLES
  <1>14. from_be_bytes(T) = t /\ from_be_bytes(J) = j /\ from_signed_be_bytes(M) = v
    <2>1. from_be_bytes(SerializeSigned(4, t)) = t
      <3>1. PICK w \in Nat : w = 4 /\ w >= 4  OBVIOUS
      <3> QED  BY <1>4, <3>1, ReadUnsigned
    <2>2. from_be_bytes(SerializeSigned(8, j)) = j
      <3>1. PICK w \in Nat : w = 8 /\ w >= 4  OBVIOUS
      <3> QED  BY <1>4, <3>1, ReadUnsigned
    <2>3. from_signed_be_bytes(SerializeSigned(16, v)) = v
      <3>1. PICK w \in Nat : w = 16 /\ w >= 4  OBVIOUS
      <3> QED  BY <1>4, <3>1, ReadSigned
    <2> QED  BY <1>6, <2>1, <2>2, <2>3
  <1>15. unpack(R) = [timestamp |-> t, observers |-> p, median |-> v, juels |-> j]
    BY <1>8, <1>12, <1>13, <1>14, Zenon DEF unpack
  <1>16. MedianFromReport(R) = v
    <2>1. ReportHeaderLen = 37 /\ ReportHeaderLen + MedianLen = 53
      BY DEF ReportHeaderLen, TimestampLen, ObsCountLen, ObsArrLen, MedianLen
    <2> QED  BY <1>12, <1>14, <2>1 DEF MedianFromReport
  <1>17. ObserversCountFromReport(R) = Len(p)
    <2>1. TimestampLen = 4 /\ TimestampLen + ObsCountLen = 5
      BY DEF TimestampLen, ObsCountLen
    <2>2. Len(p) = n  BY <1>1 DEF Is
    <2> QED  BY <1>8, <1>12, <2>1, <2>2 DEF ObserversCountFromReport
  <1> QED  BY <1>3, <1>11, <1>12, <1>15, <1>16, <1>17

(* The context gives back the epoch and the round. *)
LEMMA ContextRead ==
  ASSUME NEW e \in Unsigned, NEW r \in Int
  PROVE  /\ Is(RawReportContext(e, r), 96)
         /\ Slice(RawReportContext(e, r), 0, 32) = DIGEST
         /\ from_be_bytes(Slice(RawReportContext(e, r), 59, 63)) = e
         /\ Slice(RawReportContext(e, r), 63, 64)[1] = r
  <1>1. PICK G, Z, E, O, H :
          /\ G = DIGEST /\ Z = Fill(27, 0)
          /\ E = SerializeSigned(4, e) /\ O = <<r>> /\ H = Fill(32, CONTEXT_HASH)
    OBVIOUS
  <1>2. Is(G, 32) /\ Is(Z, 27) /\ Is(H, 32)
    <2>1. \A n \in Nat, x \in Int : Is(Fill(n, x), n)  BY FillIs
    <2>2. PICK a \in Nat, b \in Nat : a = 32 /\ b = 27  OBVIOUS
    <2>3. CONTEXT_HASH \in Int  BY DEF CONTEXT_HASH
    <2>4. Is(G, 32)  BY <1>1 DEF Is, DIGEST
    <2> QED  BY <1>1, <2>1, <2>2, <2>3, <2>4
  <1>3. PICK w \in Nat : w = 4 /\ w >= 4  OBVIOUS
  <1>4. e \in Int  BY SMT DEF Unsigned
  <1>5. Is(E, 4)  BY <1>1, <1>3, <1>4, Serialized DEF Is
  <1>6. from_be_bytes(E) = e  BY <1>1, <1>3, ReadUnsigned
  <1>7. Is(O, 1) /\ O[1] = r  BY <1>1 DEF Is
  <1>8. PICK X : X = G \o Z \o E \o O \o H  OBVIOUS
  <1>9. Is(X, 96) /\ Slice(X, 0, 32) = G /\ Slice(X, 59, 63) = E /\ Slice(X, 63, 64) = O
    <2>1. Context(X, G, Z, E, O, H)
      BY <1>2, <1>5, <1>7, <1>8, Zenon DEF Context
    <2> QED  BY <2>1, ContextParts
  <1>10. RawReportContext(e, r) = X  BY <1>1, <1>8, Zenon DEF RawReportContext
  <1> QED  BY <1>1, <1>6, <1>7, <1>9, <1>10

\* What the program makes of two signatures o and q under a report of these
\* observations, in the order p.
ReadOf(u, obs, e, r, p, o, q) ==
  /\ u.status = "received" /\ u.nonce = STORE_NONCE
  /\ u.digest = DIGEST /\ u.epoch = e /\ u.round = r
  /\ DOMAIN u.signatures = 1..2
  /\ u.signatures[1] = Signature(o) /\ u.signatures[2] = Signature(q)
  /\ u.read.timestamp = Median(obs, "timestamp") /\ u.read.observers = p
  /\ u.read.median = Median(obs, "value") /\ u.read.juels = Median(obs, "juels")
  /\ MedianFromReport(u.sent) = Median(obs, "value")
  /\ ObserversCountFromReport(u.sent) = Len(p)

(* The whole way of a report. *)
LEMMA Survives ==
  ASSUME NEW obs, Fit(obs), DOMAIN obs \subseteq Nat, NEW p \in Sorted(obs, "value"),
         NEW e \in Unsigned, NEW r \in Int, NEW o \in Nat, NEW q \in Nat
  PROVE  ReadOf(Received(TransmitData(e, r, Encoded(obs, p), <<o, q>>)),
                obs, e, r, p, o, q)
  <1>0. STORE_NONCE \in Int  BY DEF STORE_NONCE
  <1>p. PICK c \in Int : c = STORE_NONCE  BY <1>0, Zenon
  <1>1. PICK X, R, A, B, data :
          /\ X = RawReportContext(e, r) /\ R = Encoded(obs, p)
          /\ A = Signature(o) /\ B = Signature(q)
          /\ data = TransmitData(e, r, Encoded(obs, p), <<o, q>>)
    OBVIOUS
  <1>2. Is(A, 65) /\ Is(B, 65)  BY <1>1, SignatureIs
  <1>3. /\ Is(X, 96) /\ Slice(X, 0, 32) = DIGEST /\ from_be_bytes(Slice(X, 59, 63)) = e
        /\ Slice(X, 63, 64)[1] = r
    BY <1>1, ContextRead
  <1>4. /\ Is(R, 61)
        /\ unpack(R) =
              [timestamp |-> Median(obs, "timestamp"), observers |-> p,
               median |-> Median(obs, "value"), juels |-> Median(obs, "juels")]
        /\ MedianFromReport(R) = Median(obs, "value")
        /\ ObserversCountFromReport(R) = Len(p)
    BY <1>1, ReportRead
  <1>5. data = <<c>> \o X \o R \o (A \o B)
    <2>1. data = TransmitData(e, r, R, <<o, q>>)  BY <1>1
    <2>2. SentBy(data, e, r, R, o, q)  BY <2>1, DataIs, Zenon
    <2> QED  BY <1>1, <1>p, <2>2, Zenon DEF SentBy
  <1>6. /\ Received(data).status = "received" /\ Received(data).nonce = c
        /\ Received(data).digest = Slice(X, 0, 32)
        /\ Received(data).epoch = from_be_bytes(Slice(X, 59, 63))
        /\ Received(data).round = Slice(X, 63, 64)[1]
        /\ Received(data).sent = R /\ Received(data).read = unpack(R)
        /\ DOMAIN Received(data).signatures = 1..2
        /\ Received(data).signatures[1] = A /\ Received(data).signatures[2] = B
    <2>1. Data(data, c, X, R, A, B)  BY <1>2, <1>3, <1>4, <1>5, Zenon DEF Data
    <2> QED  BY <2>1, ReceivedParts
  <1>7. PICK u : u = Received(data)  OBVIOUS
  <1>8. /\ u.read.timestamp = Median(obs, "timestamp") /\ u.read.observers = p
        /\ u.read.median = Median(obs, "value") /\ u.read.juels = Median(obs, "juels")
    BY <1>4, <1>6, <1>7
  <1>9. ReadOf(u, obs, e, r, p, o, q)
    BY <1>1, <1>p, <1>3, <1>4, <1>6, <1>7, <1>8, Zenon DEF ReadOf
  <1> QED  BY <1>1, <1>7, <1>9

-----------------------------------------------------------------------------
\* Observations of oracles.
Observations(obs) ==
  /\ DOMAIN obs \subseteq Observer
  /\ \A o \in DOMAIN obs : obs[o] \in Observation

\* The transmitter sent this data of these observations, as t says.
SentOf(obs, t, data) ==
  \E e \in Epochs, p \in Sorted(obs, "value"), o \in Observer, q \in Observer :
      /\ t = [epoch |-> e, round |-> 3, signers |-> <<o, q>>]
      /\ data = TransmitData(e, 3, Encoded(obs, p), <<o, q>>)

\* More than twice as many observations as faulty oracles.
EnoughOf(obs) == 2 * Cardinality(Faulty) < Cardinality(DOMAIN obs)

(***************************************************************************)
(* Inductive: what is on its way was sent of the observations the leader   *)
(* has, of which there are enough, and what the program read is what it    *)
(* makes of such data.                                                     *)
(***************************************************************************)
ReportsInv ==
  /\ Observations(observed)
  /\ payload # <<>> => EnoughOf(observed) /\ SentOf(observed, transmitted, payload)
  /\ unpacked # nothing =>
       /\ EnoughOf(observed)
       /\ \E data : SentOf(observed, transmitted, data) /\ unpacked = Received(data)
  /\ payload = <<>> \/ unpacked = nothing

(* Enough observations make a report. *)
LEMMA EnoughFit ==
  ASSUME NEW obs, Observations(obs), EnoughOf(obs)
  PROVE  Fit(obs) /\ DOMAIN obs \subseteq Nat /\ IsFiniteSet(Faulty)
         /\ 2 * Cardinality(Faulty) < Cardinality(DOMAIN obs)
  <1>1. DOMAIN obs \subseteq Observer /\ Observer \subseteq Nat
        /\ IsFiniteSet(Observer) /\ Faulty \subseteq Observer
        /\ Cardinality(Observer) <= MAX_ORACLES
    BY ReportsAssumption DEF Observations
  <1>2. /\ IsFiniteSet(DOMAIN obs) /\ IsFiniteSet(Faulty)
        /\ Cardinality(DOMAIN obs) <= Cardinality(Observer)
    BY <1>1, FS_Subset
  <1>3. /\ Cardinality(DOMAIN obs) \in Nat /\ Cardinality(Faulty) \in Nat
        /\ Cardinality(Observer) \in Nat
    BY <1>1, <1>2, FS_CardinalityType
  <1>4. Cardinality(DOMAIN obs) \in 1..MAX_ORACLES
    BY <1>1, <1>2, <1>3 DEF EnoughOf, MAX_ORACLES
  <1>5. \A o \in DOMAIN obs : obs[o] \in
          [value : Signed, timestamp : Unsigned, juels : Unsigned]
    BY ReportsAssumption DEF Observations
  <1> QED  BY <1>1, <1>2, <1>4, <1>5 DEF Fit, EnoughOf

(* What the program makes of what was sent. *)
LEMMA ReceivedRead ==
  ASSUME NEW obs, Fit(obs), DOMAIN obs \subseteq Nat,
         NEW t, NEW data, SentOf(obs, t, data), NEW u, u = Received(data)
  PROVE  \E e \in Epochs, p \in Sorted(obs, "value"), o \in Observer, q \in Observer :
             /\ t = [epoch |-> e, round |-> 3, signers |-> <<o, q>>]
             /\ ReadOf(u, obs, e, 3, p, o, q)
  <1>1. PICK e \in Epochs, p \in Sorted(obs, "value"), o \in Observer, q \in Observer :
          /\ t = [epoch |-> e, round |-> 3, signers |-> <<o, q>>]
          /\ data = TransmitData(e, 3, Encoded(obs, p), <<o, q>>)
    BY DEF SentOf
  <1>2. e \in Unsigned /\ o \in Nat /\ q \in Nat  BY ReportsAssumption
  <1>3. PICK r \in Int : r = 3  OBVIOUS
  <1>4. ReadOf(Received(TransmitData(e, r, Encoded(obs, p), <<o, q>>)),
               obs, e, r, p, o, q)
    BY <1>2, Survives
  <1>5. ReadOf(u, obs, e, 3, p, o, q)  BY <1>1, <1>3, <1>4, Zenon
  <1> QED  BY <1>1, <1>5

(* Nothing is observed and nothing is sent at first. *)
LEMMA ReportsStart == ReportsInit => ReportsInv
  <1> SUFFICES ASSUME ReportsInit PROVE ReportsInv  OBVIOUS
  <1>1. DOMAIN observed = {}  BY DEF ReportsInit
  <1> QED  BY <1>1 DEF ReportsInit, ReportsInv, Observations

(* Observe adds an oracle's observation while nothing is on its way. *)
LEMMA ObserveInv ==
  ASSUME ReportsInv, NEW o \in Observer, NEW obs \in Observation, Observe(o, obs)
  PROVE  ReportsInv'
  <1>1. payload' = <<>> /\ unpacked' = nothing  BY DEF Observe
  <1>2. DOMAIN observed' = DOMAIN observed \cup {o}  BY DEF Observe
  <1>3. \A p \in DOMAIN observed' :
          observed'[p] = IF p = o THEN obs ELSE observed[p]
    BY <1>2 DEF Observe
  <1>4. Observations(observed')  BY <1>2, <1>3 DEF ReportsInv, Observations
  <1> QED  BY <1>1, <1>4, Zenon DEF ReportsInv

(* Transmit sends a report of the observations there are. *)
LEMMA TransmitInv ==
  ASSUME ReportsInv, NEW e \in Epochs, NEW s \in Signers, Transmit(e, 3, s)
  PROVE  ReportsInv'
  <1>1. PICK o \in Observer, q \in Observer : s = <<o, q>>  BY DEF Signers
  <1>2. PICK p \in Sorted(observed, "value") :
          payload' = TransmitData(e, 3, Encoded(observed, p), s)
    BY DEF Transmit, BuildReport
  <1>3. SentOf(observed, transmitted', payload')
    <2>1. transmitted' = [epoch |-> e, round |-> 3, signers |-> s]
      BY DEF Transmit
    <2> QED  BY <1>1, <1>2, <2>1, Zenon DEF SentOf
  <1>4. EnoughOf(observed)  BY DEF Transmit, Enough, EnoughOf
  <1>5. observed' = observed /\ unpacked' = nothing  BY DEF Transmit
  <1> QED  BY <1>3, <1>4, <1>5, Zenon DEF ReportsInv

(* The program takes what was sent. *)
LEMMA ReceiveInv ==
  ASSUME ReportsInv, transmit_impl
  PROVE  ReportsInv'
  <1>1. /\ payload # <<>> /\ unpacked' = Received(payload)
        /\ payload' = <<>> /\ observed' = observed
        /\ transmitted' = transmitted
    BY DEF transmit_impl
  <1>2. EnoughOf(observed) /\ SentOf(observed, transmitted, payload) /\ Observations(observed)
    BY <1>1 DEF ReportsInv
  <1> QED  BY <1>1, <1>2, Zenon DEF ReportsInv

(* A new round has no observations. *)
LEMMA RoundInv ==
  ASSUME ReportsInv, NextRound
  PROVE  ReportsInv'
  <1>1. observed' = [o \in {} |-> nothing] /\ unpacked' = nothing
        /\ payload' = payload /\ payload = <<>>
    BY DEF NextRound, ReportsInv
  <1>2. DOMAIN observed' = {}  BY <1>1
  <1>3. Observations(observed')  BY <1>2 DEF Observations
  <1> QED  BY <1>1, <1>3, Zenon DEF ReportsInv

(* Every step keeps it. *)
LEMMA ReportsNextInv ==
  ASSUME ReportsInv, [ReportsNext]_reportVars
  PROVE  ReportsInv'
  <1>1. CASE UNCHANGED reportVars  BY <1>1 DEF reportVars, ReportsInv
  <1>2. CASE ReportsNext
    BY <1>2, ObserveInv, TransmitInv, ReceiveInv, RoundInv DEF ReportsNext
  <1> QED  BY <1>1, <1>2

(* The invariant holds in every state. *)
LEMMA ReportsAlways == ReportsSpec => []ReportsInv
  BY ReportsStart, ReportsNextInv, PTL DEF ReportsSpec

(* What the invariant says of what the program read. *)
LEMMA ReadIs ==
  ASSUME ReportsInv, unpacked # nothing
  PROVE  /\ Fit(observed) /\ IsFiniteSet(Faulty)
         /\ 2 * Cardinality(Faulty) < Cardinality(DOMAIN observed)
         /\ \E e \in Epochs, p \in Sorted(observed, "value"),
               o \in Observer, q \in Observer :
                 /\ transmitted = [epoch |-> e, round |-> 3, signers |-> <<o, q>>]
                 /\ ReadOf(unpacked, observed, e, 3, p, o, q)
  <1>1. PICK data : SentOf(observed, transmitted, data) /\ unpacked = Received(data)
    BY DEF ReportsInv
  <1>2. PICK obs, t, u : obs = observed /\ t = transmitted /\ u = unpacked
    OBVIOUS
  <1>3. Observations(obs) /\ EnoughOf(obs)  BY <1>2 DEF ReportsInv
  <1>4. /\ Fit(obs) /\ DOMAIN obs \subseteq Nat /\ IsFiniteSet(Faulty)
        /\ 2 * Cardinality(Faulty) < Cardinality(DOMAIN obs)
    BY <1>3, EnoughFit
  <1>5. SentOf(obs, t, data) /\ u = Received(data)  BY <1>1, <1>2
  <1>6. \E e \in Epochs, p \in Sorted(obs, "value"), o \in Observer, q \in Observer :
          /\ t = [epoch |-> e, round |-> 3, signers |-> <<o, q>>]
          /\ ReadOf(u, obs, e, 3, p, o, q)
    BY <1>4, <1>5, ReceivedRead
  <1> QED  BY <1>2, <1>4, <1>6, Zenon

(***************************************************************************)
(* What the program reads is what the oracles observed and the transmitter *)
(* sent, for any oracles, observations and epochs: the answer, timestamp   *)
(* and price of gas are the medians of the observations, with their sign,  *)
(* the observers are those whose observations were used, ordered by value, *)
(* and the digest, the epoch, the round and each signature are the ones    *)
(* that were put into the instruction. MedianFromReport, by which the      *)
(* oracles decide whether to transmit, and the count of observers read the *)
(* same (BuildReport, the transmitter's payload, transmit_impl).           *)
(***************************************************************************)
THEOREM ReportsSurvive == ReportsSpec => []ReportSurvives
  <1>1. ReportsInv => ReportSurvives
    <2> SUFFICES ASSUME ReportsInv, unpacked # nothing PROVE ReportSurvives
      BY DEF ReportSurvives
    <2>1. PICK e \in Epochs, p \in Sorted(observed, "value"),
               o \in Observer, q \in Observer :
            /\ transmitted = [epoch |-> e, round |-> 3, signers |-> <<o, q>>]
            /\ ReadOf(unpacked, observed, e, 3, p, o, q)
      BY ReadIs
    <2>2. /\ unpacked.status = "received" /\ unpacked.nonce = STORE_NONCE
          /\ unpacked.digest = DIGEST /\ unpacked.epoch = e /\ unpacked.round = 3
          /\ DOMAIN unpacked.signatures = 1..2
          /\ unpacked.signatures[1] = Signature(o)
          /\ unpacked.signatures[2] = Signature(q)
          /\ unpacked.read.observers = p
          /\ unpacked.read.median = Median(observed, "value")
          /\ unpacked.read.timestamp = Median(observed, "timestamp")
          /\ unpacked.read.juels = Median(observed, "juels")
          /\ MedianFromReport(unpacked.sent) = Median(observed, "value")
          /\ ObserversCountFromReport(unpacked.sent) = Len(p)
      BY <2>1, Zenon DEF ReadOf
    <2>3. unpacked # rejected
      <3>1. rejected.status = "rejected"  BY DEF rejected
      <3>2. "rejected" # "received"  OBVIOUS
      <3> QED  BY <2>2, <3>1, <3>2, Zenon
    <2>4. /\ transmitted.epoch = e /\ transmitted.round = 3
          /\ transmitted.signers = <<o, q>>
      BY <2>1
    <2>5. /\ DOMAIN <<o, q>> = 1..2 /\ <<o, q>>[1] = o /\ <<o, q>>[2] = q
          /\ \A i \in 1..2 : i = 1 \/ i = 2
      OBVIOUS
    <2>6. /\ DOMAIN unpacked.signatures = DOMAIN transmitted.signers
          /\ \A i \in DOMAIN transmitted.signers :
                unpacked.signatures[i] = Signature(transmitted.signers[i])
      BY <2>2, <2>4, <2>5, Zenon
    <2>7. PICK obs : obs = observed  OBVIOUS
    <2>8. \A field \in Fields :
            /\ \E k \in DOMAIN obs : Median(obs, field) = obs[k][field]
            /\ HalvesOf(obs, Median(obs, field), field)
      BY <2>7, ReadIs, MedianFits
    <2>9. \A field \in Fields : IsUpperMedian(Median(observed, field), field)
      BY <2>7, <2>8, Zenon DEF IsUpperMedian, HalvesOf
    <2>10. /\ IsUpperMedian(Median(observed, "value"), "value")
           /\ IsUpperMedian(Median(observed, "timestamp"), "timestamp")
           /\ IsUpperMedian(Median(observed, "juels"), "juels")
      BY <2>9, Zenon DEF Fields
    <2>11. /\ IsUpperMedian(unpacked.read.median, "value")
           /\ IsUpperMedian(unpacked.read.timestamp, "timestamp")
           /\ IsUpperMedian(unpacked.read.juels, "juels")
      BY <2>2, <2>10, Zenon
    <2> QED  BY <2>2, <2>3, <2>4, <2>6, <2>11, Zenon DEF ReportSurvives
  <1> QED  BY <1>1, ReportsAlways, PTL

(***************************************************************************)
(* No faulty minority moves the median out of the range of what correct    *)
(* oracles observed, for the answer, the timestamp and the price of gas    *)
(* alike, however sort.Slice leaves equal observations (BuildReport).      *)
(***************************************************************************)
THEOREM MedianStaysHonest == ReportsSpec => []MedianIsHonest
  <1>1. ReportsInv => MedianIsHonest
    <2> SUFFICES ASSUME ReportsInv, unpacked # nothing PROVE MedianIsHonest
      BY DEF MedianIsHonest
    <2>1. PICK e \in Epochs, p \in Sorted(observed, "value"),
               o \in Observer, q \in Observer :
            ReadOf(unpacked, observed, e, 3, p, o, q)
      BY ReadIs
    <2>2. /\ unpacked.read.timestamp = Median(observed, "timestamp")
          /\ unpacked.read.median = Median(observed, "value")
          /\ unpacked.read.juels = Median(observed, "juels")
      BY <2>1, Zenon DEF ReadOf
    <2>3. PICK obs : obs = observed  OBVIOUS
    <2>4. \A field \in Fields : Within(obs, Median(obs, field), field)
      BY <2>3, ReadIs, MedianFits
    <2>5. /\ Within(observed, Median(observed, "value"), "value")
          /\ Within(observed, Median(observed, "timestamp"), "timestamp")
          /\ Within(observed, Median(observed, "juels"), "juels")
      BY <2>3, <2>4, Zenon DEF Fields
    <2> QED  BY <2>2, <2>5, Zenon DEF MedianIsHonest, Within
  <1> QED  BY <1>1, ReportsAlways, PTL

-----------------------------------------------------------------------------
(* What holds of 0, and of n + 1 if it holds of n, holds of every natural. *)
LEMMA EveryNatural ==
  ASSUME NEW K \in SUBSET Nat, 0 \in K, \A n \in K : n + 1 \in K
  PROVE  \A n \in Nat : n \in K
  <1> DEFINE C == Nat \ K
  <1> SUFFICES ASSUME C # {} PROVE FALSE  OBVIOUS
  <1>1. PICK m \in C : \A k \in C : m <= k
    <2>1. C \in SUBSET Nat  OBVIOUS
    <2> HIDE DEF C
    <2> QED  BY <2>1, LeastOf
  <1>2. m \in Nat /\ m \notin K /\ m # 0  OBVIOUS
  <1>3. m - 1 \in Nat /\ ~(m <= m - 1) /\ (m - 1) + 1 = m  BY <1>2
  <1>4. m - 1 \in K  BY <1>1, <1>3
  <1> QED  BY <1>2, <1>3, <1>4

(* s is k elements of S and one more. *)
OneMore(S, k, s) == \E t \in Seq(S), e \in S : Len(t) = k /\ s = Append(t, e)

(* A sequence that is not empty ends with an element. *)
LEMMA LastOf ==
  ASSUME NEW S, NEW k \in Nat, NEW s \in Seq(S), Len(s) = k + 1
  PROVE  OneMore(S, k, s)
  <1> DEFINE t == SubSeq(s, 1, k)
             e == s[k+1]
             u == Append(t, e)
  <1>1. k + 1 \in 1..Len(s)  OBVIOUS
  <1>2. e \in S  BY <1>1
  <1>3. t \in Seq(S) /\ Len(t) = k /\ \A i \in 1..k : t[i] = s[i]
    <2>1. \A i \in 1..k : s[i] \in S  OBVIOUS
    <2>2. PICK one \in Int : one = 1  OBVIOUS
    <2>3. /\ SubSeq(s, one, k) \in Seq(S)
          /\ Len(SubSeq(s, one, k)) = IF one <= k THEN k - one + 1 ELSE 0
          /\ \A i \in 1..(k - one + 1) : SubSeq(s, one, k)[i] = s[one + i - 1]
      BY <2>1, <2>2, SubSeqProperties
    <2>4. t = SubSeq(s, one, k)  BY <2>2
    <2> HIDE DEF t
    <2>5. ASSUME NEW i \in 1..k PROVE t[i] = s[i]
      <3>1. i \in 1..(k - one + 1) /\ one + i - 1 = i  BY <2>2
      <3> QED  BY <2>3, <2>4, <3>1
    <2> QED  BY <2>2, <2>3, <2>4, <2>5
  <1> HIDE DEF t, e
  <1>4. u \in Seq(S) /\ Len(u) = k + 1 /\ u[k+1] = e /\ \A i \in 1..k : u[i] = t[i]
    BY <1>2, <1>3
  <1> HIDE DEF u
  <1>5. \A i \in 1..Len(s) : u[i] = s[i]
    <2> SUFFICES ASSUME NEW i \in 1..Len(s) PROVE u[i] = s[i]  OBVIOUS
    <2>1. CASE i = k + 1  BY <1>4, <2>1 DEF e
    <2>2. CASE i # k + 1
      <3>1. i \in 1..k  BY <2>2
      <3> QED  BY <1>3, <1>4, <3>1
    <2> QED  BY <2>1, <2>2
  <1>6. u = s  BY <1>4, <1>5, SeqEqual
  <1> QED  BY <1>2, <1>3, <1>6 DEF u, OneMore

(* What holds of <<>>, and of a longer sequence if it holds of a shorter one,  *)
(* holds of every sequence.                                                    *)
LEMMA EverySequence ==
  ASSUME NEW S, NEW K, <<>> \in K, \A s \in K, e \in S : Append(s, e) \in K
  PROVE  \A s \in Seq(S) : s \in K
  <1> DEFINE N == {n \in Nat : \A s \in Seq(S) : Len(s) = n => s \in K}
  <1>1. 0 \in N
    <2>1. \A s \in Seq(S) : Len(s) = 0 => s = <<>>  OBVIOUS
    <2> QED  BY <2>1
  <1>2. ASSUME NEW n \in N PROVE n + 1 \in N
    <2> SUFFICES ASSUME NEW s \in Seq(S), Len(s) = n + 1 PROVE s \in K
      OBVIOUS
    <2>1. n \in Nat /\ \A t \in Seq(S) : Len(t) = n => t \in K  OBVIOUS
    <2> HIDE DEF N
    <2>2. OneMore(S, n, s)  BY <2>1, LastOf
    <2>3. PICK t \in Seq(S), e \in S : Len(t) = n /\ s = Append(t, e)
      BY <2>2 DEF OneMore
    <2> QED  BY <2>1, <2>3
  <1>3. \A n \in Nat : n \in N
    <2>1. N \in SUBSET Nat  OBVIOUS
    <2> HIDE DEF N
    <2> QED  BY <1>1, <1>2, <2>1, EveryNatural
  <1>4. \A s \in Seq(S) : Len(s) \in Nat  OBVIOUS
  <1> QED  BY <1>3, <1>4

(* What is one element longer. *)
LEMMA AppendIs ==
  ASSUME NEW S, NEW r \in Seq(S), NEW e \in S, NEW s \in Seq(S),
         Len(s) = Len(r) + 1, s[Len(s)] = e, \A i \in 1..Len(r) : s[i] = r[i]
  PROVE  Append(r, e) = s
  <1> DEFINE u == Append(r, e)
  <1>1. /\ u \in Seq(S) /\ Len(u) = Len(r) + 1 /\ u[Len(r) + 1] = e
        /\ \A i \in 1..Len(r) : u[i] = r[i]
    OBVIOUS
  <1> HIDE DEF u
  <1>2. \A i \in 1..Len(s) : u[i] = s[i]  BY <1>1
  <1>3. s = u  BY <1>1, <1>2, SeqEqual
  <1> QED  BY <1>3 DEF u

(* Appending to the second of two sequences. *)
LEMMA AppendLater ==
  ASSUME NEW S, NEW s \in Seq(S), NEW t \in Seq(S), NEW e \in S
  PROVE  s \o Append(t, e) = Append(s \o t, e)
  <1> DEFINE u == s \o Append(t, e)
             v == Append(s \o t, e)
  <1>1. u \in Seq(S) /\ v \in Seq(S) /\ Len(u) = Len(v)  OBVIOUS
  <1>2. \A i \in 1..Len(u) : u[i] = v[i]  OBVIOUS
  <1> HIDE DEF u, v
  <1>3. u = v  BY <1>1, <1>2, SeqEqual
  <1> QED  BY <1>3 DEF u, v

(* f holds the first pieces of ss joined, from the first on. *)
FlatJoins(ss, f) ==
  f = [i \in 1..Len(ss) |-> IF i = 1 THEN ss[i] ELSE f[i-1] \o ss[i]]

(* The recursion of FlattenSeq is that of "flatten", without its start. *)
LEMMA FlattenIs ==
  ASSUME NEW S, NEW ss \in Seq(Seq(S)), ss # <<>>
  PROVE  FlattenSeq(ss) = After("flatten", ss)
  <1> DEFINE n == Len(ss)
             g == CHOOSE h : Takes("flatten", ss, n, h)
             f == CHOOSE h : FlatJoins(ss, h)
             G == [i \in 1..n |-> g[i]]
  <1>1. n \in Nat /\ n # 0 /\ n \in 1..n /\ 1 \in 1..n  OBVIOUS
  <1>2. Takes("flatten", ss, n, g)  BY <1>1, TakesExists
  <1>3. After("flatten", ss) = g[n]  BY DEF After
  <1>4. FlattenSeq(ss) = f[n]
    <2>1. Len(ss) # 0  BY <1>1
    <2>2. f = CHOOSE h : h = [i \in 1..Len(ss) |->
                               IF i = 1 THEN ss[i] ELSE h[i-1] \o ss[i]]
      BY Zenon DEF FlatJoins
    <2> HIDE DEF f
    <2> QED  BY <2>1, <2>2, Zenon DEF FlattenSeq
  <1> HIDE DEF n, g, f
  <1>5. g[0] = <<>> /\ \A i \in 1..n : g[i] = g[i-1] \o ss[i]
    <2>1. g[0] = AtStart("flatten") /\ LineByLine("flatten", ss, n, g)
      BY <1>1, <1>2, TakesAt, Zenon
    <2> QED  BY <2>1, Zenon DEF AtStart, LineByLine, Taken
  <1>6. \A i \in 1..n : ss[i] \in Seq(S)  BY DEF n
  <1>7. FlatJoins(ss, G)
    <2> DEFINE e(i) == IF i = 1 THEN ss[i] ELSE G[i-1] \o ss[i]
    <2>1. ASSUME NEW i \in 1..n PROVE G[i] = e(i)
      <3>1. G[i] = g[i]  OBVIOUS
      <3>2. CASE i = 1
        <4>1. g[1] = g[0] \o ss[1]
          <5>1. g[1] = g[1-1] \o ss[1]  BY <1>1, <1>5
          <5> QED  BY <5>1
        <4>2. <<>> \o ss[1] = ss[1]  BY <1>1, <1>6
        <4> HIDE DEF G
        <4> QED  BY <1>5, <3>1, <3>2, <4>1, <4>2
      <3>3. CASE i # 1
        <4>1. i - 1 \in 1..n  BY <1>1, <3>3
        <4>2. G[i-1] = g[i-1]  BY <4>1
        <4>3. g[i] = g[i-1] \o ss[i]  BY <1>5
        <4> HIDE DEF G
        <4> QED  BY <3>1, <3>3, <4>2, <4>3
      <3> HIDE DEF G, e
      <3> QED  BY <3>2, <3>3
    <2>2. G = [i \in 1..n |-> e(i)]
      <3>1. G = [i \in 1..n |-> G[i]]  BY Zenon
      <3> HIDE DEF e, G
      <3> QED  BY <2>1, <3>1
    <2> HIDE DEF G
    <2> QED  BY <2>2 DEF FlatJoins, n
  <1>8. FlatJoins(ss, f)
    <2> HIDE DEF G
    <2> QED  BY <1>7 DEF f
  <1>9. \A i \in 1..n : f[i] = IF i = 1 THEN ss[i] ELSE f[i-1] \o ss[i]
    <2> DEFINE e(h, i) == IF i = 1 THEN ss[i] ELSE h[i-1] \o ss[i]
               F == [i \in 1..n |-> e(f, i)]
    <2>1. f = F  BY <1>8 DEF FlatJoins, n
    <2>2. ASSUME NEW i \in 1..n PROVE f[i] = e(f, i)
      <3>1. F[i] = e(f, i)  BY Zenon
      <3> QED  BY <2>1, <3>1, Zenon
    <2> QED  BY <2>2, Zenon
  <1>10. \A i \in 1..n : f[i] = g[i]
    <2> DEFINE K == {k \in Nat : k + 1 \in 1..n => f[k+1] = g[k+1]}
    <2>1. 0 \in K
      <3>1. f[1] = ss[1]  BY <1>1, <1>9
      <3>2. g[1] = g[0] \o ss[1]
        <4>1. g[1] = g[1-1] \o ss[1]  BY <1>1, <1>5
        <4> QED  BY <4>1
      <3>3. <<>> \o ss[1] = ss[1]  BY <1>1, <1>6
      <3> QED  BY <1>5, <3>1, <3>2, <3>3
    <2>2. ASSUME NEW k \in K PROVE k + 1 \in K
      <3> SUFFICES ASSUME (k + 1) + 1 \in 1..n PROVE f[(k+1)+1] = g[(k+1)+1]
        OBVIOUS
      <3>1. PICK j \in Nat : j = (k + 1) + 1  OBVIOUS
      <3>2. j \in 1..n /\ j # 1 /\ j - 1 = k + 1 /\ j - 1 \in 1..n
        BY <1>1, <3>1
      <3>3. f[j-1] = g[j-1]  BY <3>2
      <3>4. f[j] = f[j-1] \o ss[j]  BY <1>9, <3>2
      <3>5. g[j] = g[j-1] \o ss[j]  BY <1>5, <3>2
      <3> QED  BY <3>1, <3>3, <3>4, <3>5
    <2>3. \A k \in Nat : k \in K
      <3>1. K \in SUBSET Nat  OBVIOUS
      <3> HIDE DEF K
      <3> QED  BY <2>1, <2>2, <3>1, EveryNatural
    <2>4. ASSUME NEW i \in 1..n PROVE f[i] = g[i]
      <3>1. i - 1 \in Nat /\ (i - 1) + 1 = i  BY <1>1
      <3>2. i - 1 \in K  BY <2>3, <3>1
      <3> QED  BY <3>1, <3>2
    <2> QED  BY <2>4
  <1> QED  BY <1>1, <1>3, <1>4, <1>10

(* Flattening takes one sequence after the other. *)
LEMMA FlattenStep ==
  ASSUME NEW S, NEW ss \in Seq(Seq(S)), NEW s \in Seq(S)
  PROVE  FlattenSeq(Append(ss, s)) = FlattenSeq(ss) \o s
  <1> DEFINE ts == Append(ss, s)
  <1>1. ts \in Seq(Seq(S)) /\ ts # <<>>
    <2>1. Len(ts) = Len(ss) + 1 /\ Len(ss) \in Nat /\ ts \in Seq(Seq(S))  OBVIOUS
    <2>2. Len(ts) # 0  BY <2>1
    <2> HIDE DEF ts
    <2> QED  BY <2>1, <2>2
  <1>2. FlattenSeq(ts) = After("flatten", ts)
    <2> HIDE DEF ts
    <2> QED  BY <1>1, FlattenIs
  <1>3. After("flatten", ts) = Taken("flatten", After("flatten", ss), s)
    BY AfterStep, Zenon
  <1>4. After("flatten", ts) = After("flatten", ss) \o s
    BY <1>3, Zenon DEF Taken
  <1>5. FlattenSeq(ss) = After("flatten", ss)
    <2>1. CASE ss = <<>>
      <3>1. FlattenSeq(<<>>) = <<>>  BY DEF FlattenSeq
      <3>2. After("flatten", <<>>) = <<>>  BY AfterStart, Zenon DEF AtStart
      <3> QED  BY <2>1, <3>1, <3>2
    <2>2. CASE ss # <<>>  BY <2>2, FlattenIs
    <2> QED  BY <2>1, <2>2
  <1> QED  BY <1>2, <1>4, <1>5

(* What is flattened is a sequence of the same things. *)
LEMMA FlattenType ==
  ASSUME NEW S, NEW ss \in Seq(Seq(S))
  PROVE  FlattenSeq(ss) \in Seq(S)
  <1> DEFINE K == {ts \in Seq(Seq(S)) : FlattenSeq(ts) \in Seq(S)}
  <1>1. <<>> \in K
    <2>1. FlattenSeq(<<>>) = <<>>  BY DEF FlattenSeq
    <2>2. <<>> \in Seq(S)  OBVIOUS
    <2>3. <<>> \in Seq(Seq(S))  OBVIOUS
    <2> QED  BY <2>1, <2>2, <2>3, Zenon
  <1>2. ASSUME NEW ts \in K, NEW t \in Seq(S) PROVE Append(ts, t) \in K
    <2>1. ts \in Seq(Seq(S)) /\ FlattenSeq(ts) \in Seq(S)  BY Zenon
    <2>2. FlattenSeq(Append(ts, t)) = FlattenSeq(ts) \o t
      BY <2>1, FlattenStep, Zenon
    <2>3. FlattenSeq(ts) \o t \in Seq(S)
      <3>1. \A u \in Seq(S) : u \o t \in Seq(S)  OBVIOUS
      <3> QED  BY <2>1, <3>1, Zenon
    <2>4. Append(ts, t) \in Seq(Seq(S))
      <3> HIDE DEF K
      <3> QED  BY <2>1
    <2> QED  BY <2>2, <2>3, <2>4, Zenon
  <1>3. PICK T : T = Seq(S)  OBVIOUS
  <1>4. \A ts \in Seq(T) : ts \in K
    <2> HIDE DEF K
    <2> QED  BY <1>1, <1>2, <1>3, EverySequence
  <1> QED  BY <1>3, <1>4, Zenon

\* How FlattenSeq takes us and u, and the two after ss.
Flattens(ss, us, u) ==
  /\ FlattenSeq(Append(us, u)) = FlattenSeq(us) \o u
  /\ FlattenSeq(ss \o Append(us, u)) = FlattenSeq(ss \o us) \o u

(* Sequences are flattened one after the other, after others as well. *)
LEMMA FlattenLater ==
  ASSUME NEW S, NEW ss \in Seq(Seq(S)), NEW us \in Seq(Seq(S)), NEW u \in Seq(S)
  PROVE  Flattens(ss, us, u)
  <1>1. FlattenSeq(Append(us, u)) = FlattenSeq(us) \o u  BY FlattenStep, Zenon
  <1>2. ss \o us \in Seq(Seq(S))  OBVIOUS
  <1>3. FlattenSeq(Append(ss \o us, u)) = FlattenSeq(ss \o us) \o u
    BY <1>2, FlattenStep, Zenon
  <1>4. ss \o Append(us, u) = Append(ss \o us, u)
    <2>1. PICK T : T = Seq(S)  OBVIOUS
    <2>2. ss \in Seq(T) /\ us \in Seq(T) /\ u \in T  BY <2>1, Zenon
    <2> QED  BY <2>2, AppendLater
  <1> QED  BY <1>1, <1>3, <1>4, Zenon DEF Flattens

(* Nothing is flattened to nothing. *)
LEMMA FlattenNone ==
  ASSUME NEW S, NEW ss \in Seq(Seq(S))
  PROVE  FlattenSeq(<<>>) = <<>> /\ ss \o <<>> = ss /\ <<>> \in Seq(Seq(S))
  <1>1. FlattenSeq(<<>>) = <<>>  BY DEF FlattenSeq
  <1>2. ss \o <<>> = ss  OBVIOUS
  <1>3. <<>> \in Seq(Seq(S))  OBVIOUS
  <1> QED  BY <1>1, <1>2, <1>3, Zenon

(* Flattening a concatenation. *)
LEMMA FlattenConcat ==
  ASSUME NEW S, NEW ss \in Seq(Seq(S)), NEW ts \in Seq(Seq(S))
  PROVE  FlattenSeq(ss \o ts) = FlattenSeq(ss) \o FlattenSeq(ts)
  <1>1. \A us \in Seq(Seq(S)) : FlattenSeq(us) \in Seq(S)
    BY FlattenType, Zenon
  <1>2. \A p, q, r \in Seq(S) : (p \o q) \o r = p \o (q \o r)
    BY ConcatAssociative
  <1>3. \A p \in Seq(S) : p \o <<>> = p  OBVIOUS
  <1>4. FlattenSeq(<<>>) = <<>> /\ ss \o <<>> = ss /\ <<>> \in Seq(Seq(S))
    BY FlattenNone, Zenon
  <1>a. \A us \in Seq(Seq(S)), u \in Seq(S) : Flattens(ss, us, u)
    BY FlattenLater, Zenon
  <1> DEFINE K == {us \in Seq(Seq(S)) :
                     FlattenSeq(ss \o us) = FlattenSeq(ss) \o FlattenSeq(us)}
  <1>5. <<>> \in K  BY <1>1, <1>3, <1>4, Zenon
  <1>6. ASSUME NEW us \in K, NEW u \in Seq(S) PROVE Append(us, u) \in K
    <2>1. /\ us \in Seq(Seq(S))
          /\ FlattenSeq(ss \o us) = FlattenSeq(ss) \o FlattenSeq(us)
      BY Zenon
    <2>2. Append(us, u) \in Seq(Seq(S))
      <3> HIDE DEF K
      <3> QED  BY <2>1
    <2>3. /\ FlattenSeq(Append(us, u)) = FlattenSeq(us) \o u
          /\ FlattenSeq(ss \o Append(us, u)) = FlattenSeq(ss \o us) \o u
      <3>1. Flattens(ss, us, u)  BY <1>a, <2>1, Zenon
      <3> QED  BY <3>1, Zenon DEF Flattens
    <2>4. (FlattenSeq(ss) \o FlattenSeq(us)) \o u
             = FlattenSeq(ss) \o (FlattenSeq(us) \o u)
      BY <1>1, <1>2, <2>1, Zenon
    <2> QED  BY <2>1, <2>2, <2>3, <2>4, Zenon
  <1>7. PICK T : T = Seq(S)  OBVIOUS
  <1>8. \A us \in Seq(T) : us \in K
    <2> HIDE DEF K
    <2> QED  BY <1>5, <1>6, <1>7, EverySequence
  <1> QED  BY <1>7, <1>8, Zenon

\* How FlattenSeq takes a few sequences alone, and after those of ss.
FlattensFew(a, b, c, d) ==
  /\ FlattenSeq(<<a>>) = a
  /\ FlattenSeq(<<a, b, c>>) = a \o b \o c
  /\ FlattenSeq(<<a, b, c, d>>) = a \o b \o c \o d

FlattensAfter(ss, a, b, c, d, e, f) ==
  /\ FlattenSeq(ss \o <<a, b, c, d, e>>)
       = FlattenSeq(ss) \o a \o b \o c \o d \o e
  /\ FlattenSeq(ss \o <<a, b, c, d, e, f>>)
       = FlattenSeq(ss) \o a \o b \o c \o d \o e \o f

(* Flattening lists of a few sequences, alone or after others. *)
LEMMA FlattenSome ==
  ASSUME NEW S, NEW ss \in Seq(Seq(S)), NEW a \in Seq(S), NEW b \in Seq(S),
         NEW c \in Seq(S), NEW d \in Seq(S), NEW e \in Seq(S), NEW f \in Seq(S)
  PROVE  FlattensFew(a, b, c, d) /\ FlattensAfter(ss, a, b, c, d, e, f)
  <1> DEFINE l0 == <<>>
             l1 == <<a>>
             l2 == <<a, b>>
             l3 == <<a, b, c>>
             l4 == <<a, b, c, d>>
             l5 == <<a, b, c, d, e>>
             l6 == <<a, b, c, d, e, f>>
  <1>1. /\ l1 \in Seq(Seq(S)) /\ l2 \in Seq(Seq(S)) /\ l3 \in Seq(Seq(S))
        /\ l4 \in Seq(Seq(S)) /\ l5 \in Seq(Seq(S)) /\ l6 \in Seq(Seq(S))
    OBVIOUS
  <1>2. /\ l1 = Append(l0, a) /\ l2 = Append(l1, b) /\ l3 = Append(l2, c)
        /\ l4 = Append(l3, d) /\ l5 = Append(l4, e) /\ l6 = Append(l5, f)
    OBVIOUS
  <1>3. FlattenSeq(l0) = l0 /\ ss \o l0 = ss /\ l0 \in Seq(Seq(S))
    BY FlattenNone, Zenon
  <1>4. l0 \o a = a  OBVIOUS
  <1> HIDE DEF l0, l1, l2, l3, l4, l5, l6
  <1>5. \A us \in Seq(Seq(S)), u \in Seq(S) : Flattens(ss, us, u)
    BY FlattenLater, Zenon
  <1>6. /\ Flattens(ss, l0, a) /\ Flattens(ss, l1, b) /\ Flattens(ss, l2, c)
        /\ Flattens(ss, l3, d) /\ Flattens(ss, l4, e) /\ Flattens(ss, l5, f)
    BY <1>1, <1>3, <1>5, Zenon
  <1>7. FlattenSeq(l1) = a /\ FlattenSeq(ss \o l1) = FlattenSeq(ss) \o a
    BY <1>2, <1>3, <1>4, <1>6, Zenon DEF Flattens
  <1>8. /\ FlattenSeq(l2) = a \o b
        /\ FlattenSeq(ss \o l2) = FlattenSeq(ss) \o a \o b
    BY <1>2, <1>6, <1>7, Zenon DEF Flattens
  <1>9. /\ FlattenSeq(l3) = a \o b \o c
        /\ FlattenSeq(ss \o l3) = FlattenSeq(ss) \o a \o b \o c
    BY <1>2, <1>6, <1>8, Zenon DEF Flattens
  <1>10. /\ FlattenSeq(l4) = a \o b \o c \o d
         /\ FlattenSeq(ss \o l4) = FlattenSeq(ss) \o a \o b \o c \o d
    BY <1>2, <1>6, <1>9, Zenon DEF Flattens
  <1>11. FlattenSeq(ss \o l5) = FlattenSeq(ss) \o a \o b \o c \o d \o e
    BY <1>2, <1>6, <1>10, Zenon DEF Flattens
  <1>12. FlattenSeq(ss \o l6) = FlattenSeq(ss) \o a \o b \o c \o d \o e \o f
    BY <1>2, <1>6, <1>11, Zenon DEF Flattens
  <1> QED
    BY <1>7, <1>9, <1>10, <1>11, <1>12, Zenon
       DEF l1, l3, l4, l5, l6, FlattensFew, FlattensAfter

-----------------------------------------------------------------------------
(* The elements of x, each in a sequence of its own. *)
Singles(x) == [i \in DOMAIN x |-> <<x[i]>>]

(* Taken apart and flattened, a sequence is what it was. *)
LEMMA FlattenSingles ==
  ASSUME NEW S, NEW x \in Seq(S)
  PROVE  Singles(x) \in Seq(Seq(S)) /\ FlattenSeq(Singles(x)) = x
  <1>1. ASSUME NEW y \in Seq(S), NEW e \in S
        PROVE  Singles(Append(y, e)) = Append(Singles(y), <<e>>)
    <2> DEFINE u == Singles(Append(y, e))
    <2>1. /\ Append(y, e) \in Seq(S) /\ Len(Append(y, e)) = Len(y) + 1
          /\ Append(y, e)[Len(y) + 1] = e /\ Len(y) \in Nat
          /\ \A i \in 1..Len(y) : Append(y, e)[i] = y[i]
          /\ DOMAIN Append(y, e) = 1..(Len(y) + 1) /\ DOMAIN y = 1..Len(y)
      OBVIOUS
    <2>2. u = [i \in 1..(Len(y) + 1) |-> <<Append(y, e)[i]>>]
      BY <2>1, Zenon DEF Singles
    <2>3. Singles(y) = [i \in 1..Len(y) |-> <<y[i]>>]  BY <2>1, Zenon DEF Singles
    <2>4. \A i \in 1..Len(y) : y[i] \in S  OBVIOUS
    <2>5. Singles(y) \in Seq(Seq(S)) /\ Len(Singles(y)) = Len(y)
      BY <2>1, <2>3, <2>4
    <2>6. \A i \in 1..(Len(y) + 1) : Append(y, e)[i] \in S
      <3>1. \A i \in 1..(Len(y) + 1) : i # Len(y) + 1 => i \in 1..Len(y)
        BY <2>1
      <3> QED  BY <2>1, <2>4, <3>1
    <2>7. u \in Seq(Seq(S)) /\ Len(u) = Len(y) + 1
      BY <2>1, <2>2, <2>6
    <2> HIDE DEF u
    <2>8. \A i \in 1..Len(y) : u[i] = Singles(y)[i]
      <3>1. \A i \in 1..Len(y) : i \in 1..(Len(y) + 1)  BY <2>1
      <3> QED  BY <2>1, <2>2, <2>3, <3>1, Zenon
    <2>9. u[Len(y) + 1] = <<e>>
      <3>1. Len(y) + 1 \in 1..(Len(y) + 1)  BY <2>1
      <3> QED  BY <2>1, <2>2, <3>1, Zenon
    <2>10. PICK T, w, d : T = Seq(S) /\ w = Singles(y) /\ d = <<e>>  OBVIOUS
    <2>11. Append(w, d) = u
      <3>1. d \in T  BY <2>10
      <3>2. w \in Seq(T) /\ u \in Seq(T) /\ Len(w) = Len(y)
        BY <2>5, <2>7, <2>10, Zenon
      <3>3. /\ Len(u) = Len(w) + 1 /\ u[Len(u)] = d
            /\ \A i \in 1..Len(w) : u[i] = w[i]
        BY <2>7, <2>8, <2>9, <2>10, <3>2, Zenon
      <3> QED  BY <3>1, <3>2, <3>3, AppendIs
    <2> QED  BY <2>10, <2>11, Zenon DEF u
  <1> DEFINE K == {y \in Seq(S) : Singles(y) \in Seq(Seq(S))
                                  /\ FlattenSeq(Singles(y)) = y}
  <1>2. <<>> \in K
    <2>1. Singles(<<>>) = <<>>  BY DEF Singles
    <2>2. <<>> \in Seq(S) /\ <<>> \in Seq(Seq(S))  OBVIOUS
    <2>3. FlattenSeq(<<>>) = <<>>  BY DEF FlattenSeq
    <2> QED  BY <2>1, <2>2, <2>3, Zenon
  <1>3. ASSUME NEW y \in K, NEW e \in S PROVE Append(y, e) \in K
    <2>1. y \in Seq(S) /\ Singles(y) \in Seq(Seq(S)) /\ FlattenSeq(Singles(y)) = y
      BY Zenon
    <2> HIDE DEF K
    <2>2. <<e>> \in Seq(S) /\ Append(y, e) \in Seq(S) /\ y \o <<e>> = Append(y, e)
      BY <2>1
    <2>3. Singles(Append(y, e)) = Append(Singles(y), <<e>>)  BY <1>1, <2>1, Zenon
    <2>4. FlattenSeq(Singles(Append(y, e))) = FlattenSeq(Singles(y)) \o <<e>>
      BY <2>1, <2>2, <2>3, FlattenStep, Zenon
    <2>5. Append(Singles(y), <<e>>) \in Seq(Seq(S))  BY <2>1, <2>2
    <2> QED  BY <2>1, <2>2, <2>3, <2>4, <2>5, Zenon DEF K
  <1>4. \A y \in Seq(S) : y \in K
    <2> HIDE DEF K
    <2> QED  BY <1>2, <1>3, EverySequence
  <1> QED  BY <1>4, Zenon

-----------------------------------------------------------------------------
(* An oracle in an account. *)
OracleEntry == [signer : Int, transmitter : Int, payee : Int]

(* The bytes of the oracles, one row an oracle, and one cell a key. *)
Row(o) == <<o.signer, o.transmitter, o.payee>>
Cell(o) == <<<<o.signer>>, <<o.transmitter>>, <<o.payee>>>>
Rows(os) == [i \in DOMAIN os |-> Row(os[i])]
Cells(os) == [i \in DOMAIN os |-> Cell(os[i])]

(* One more oracle, one more row and one more group of cells. *)
LEMMA OneMoreOracle ==
  ASSUME NEW os \in Seq(OracleEntry), NEW o \in OracleEntry
  PROVE  /\ Rows(Append(os, o)) = Append(Rows(os), Row(o))
         /\ Cells(Append(os, o)) = Append(Cells(os), Cell(o))
  <1> DEFINE n == Len(os)
             ps == Append(os, o)
  <1>1. /\ n \in Nat /\ DOMAIN os = 1..n /\ DOMAIN ps = 1..(n + 1)
        /\ ps[n+1] = o /\ \A i \in 1..n : ps[i] = os[i]
    OBVIOUS
  <1> HIDE DEF n, ps
  <1>2. \A i \in 1..(n + 1) : i # n + 1 => i \in 1..n  BY <1>1
  <1>3. n + 1 \in 1..(n + 1)  BY <1>1
  <1>5. Rows(ps) = Append(Rows(os), Row(o))
    <2>1. PICK T : T = {Row(p) : p \in OracleEntry}  OBVIOUS
    <2>2. \A p \in OracleEntry : Row(p) \in T  BY <2>1, Zenon
    <2>3. \A i \in 1..n : os[i] \in OracleEntry  BY <1>1
    <2>4. \A i \in 1..(n + 1) : ps[i] \in OracleEntry  BY <1>1, <1>2, <2>3
    <2>5. Rows(os) = [i \in 1..n |-> Row(os[i])]  BY <1>1, Zenon DEF Rows
    <2>6. Rows(ps) = [i \in 1..(n + 1) |-> Row(ps[i])]  BY <1>1, Zenon DEF Rows
    <2>7. \A i \in 1..n : Rows(ps)[i] = Rows(os)[i]
      <3>1. \A i \in 1..n : i \in 1..(n + 1)  BY <1>1
      <3> QED  BY <1>1, <2>5, <2>6, <3>1, Zenon
    <2>8. Rows(ps)[n+1] = Row(o)  BY <1>1, <1>3, <2>6, Zenon
    <2>9. Rows(os) \in Seq(T) /\ Len(Rows(os)) = n
      <3> HIDE DEF Row
      <3> QED  BY <1>1, <2>2, <2>3, <2>5
    <2>10. Rows(ps) \in Seq(T) /\ Len(Rows(ps)) = n + 1
      BY <1>1, <2>2, <2>4, <2>6
    <2>11. PICK r, s, e : r = Rows(os) /\ s = Rows(ps) /\ e = Row(o)  OBVIOUS
    <2>12. s = Append(r, e)  BY <1>1, <2>2, <2>7, <2>8, <2>9, <2>10, <2>11, AppendIs
    <2> QED  BY <2>11, <2>12
  <1>6. Cells(ps) = Append(Cells(os), Cell(o))
    <2>1. PICK T : T = {Cell(p) : p \in OracleEntry}  OBVIOUS
    <2>2. \A p \in OracleEntry : Cell(p) \in T  BY <2>1, Zenon
    <2>3. \A i \in 1..n : os[i] \in OracleEntry  BY <1>1
    <2>4. \A i \in 1..(n + 1) : ps[i] \in OracleEntry  BY <1>1, <1>2, <2>3
    <2>5. Cells(os) = [i \in 1..n |-> Cell(os[i])]  BY <1>1, Zenon DEF Cells
    <2>6. Cells(ps) = [i \in 1..(n + 1) |-> Cell(ps[i])]  BY <1>1, Zenon DEF Cells
    <2>7. \A i \in 1..n : Cells(ps)[i] = Cells(os)[i]
      <3>1. \A i \in 1..n : i \in 1..(n + 1)  BY <1>1
      <3> QED  BY <1>1, <2>5, <2>6, <3>1, Zenon
    <2>8. Cells(ps)[n+1] = Cell(o)  BY <1>1, <1>3, <2>6, Zenon
    <2>9. Cells(os) \in Seq(T) /\ Len(Cells(os)) = n
      BY <1>1, <2>2, <2>3, <2>5
    <2>10. Cells(ps) \in Seq(T) /\ Len(Cells(ps)) = n + 1
      BY <1>1, <2>2, <2>4, <2>6
    <2>11. PICK r, s, e : r = Cells(os) /\ s = Cells(ps) /\ e = Cell(o)  OBVIOUS
    <2>12. s = Append(r, e)  BY <1>1, <2>2, <2>7, <2>8, <2>9, <2>10, <2>11, AppendIs
    <2> QED  BY <2>11, <2>12
  <1> QED  BY <1>5, <1>6 DEF ps

-----------------------------------------------------------------------------
(* Pairs and triples are built element by element. *)
LEMMA Appended ==
  ASSUME NEW S, NEW a \in S, NEW b \in S, NEW c \in S
  PROVE  Append(<<a>>, b) = <<a, b>> /\ Append(<<a, b>>, c) = <<a, b, c>>
  <1>1. PICK k, l, m : k = <<a>> /\ l = <<a, b>> /\ m = <<a, b, c>>
    OBVIOUS
  <1>2. /\ k \in Seq(S) /\ Len(k) = 1 /\ k[1] = a
        /\ l \in Seq(S) /\ Len(l) = 2 /\ l[1] = a /\ l[2] = b
        /\ m \in Seq(S) /\ Len(m) = 3 /\ m[1] = a /\ m[2] = b /\ m[3] = c
    BY <1>1
  <1>3. Append(k, b) = l
    <2>1. \A i \in 1..Len(k) : l[i] = k[i]  BY <1>2
    <2>2. Len(l) = Len(k) + 1 /\ l[Len(l)] = b  BY <1>2
    <2> QED  BY <1>2, <2>1, <2>2, AppendIs
  <1>4. Append(l, c) = m
    <2>1. \A i \in 1..Len(l) : m[i] = l[i]  BY <1>2
    <2>2. Len(m) = Len(l) + 1 /\ m[Len(m)] = c  BY <1>2
    <2> QED  BY <1>2, <2>1, <2>2, AppendIs
  <1> QED  BY <1>1, <1>3, <1>4

(* Joining sequences of numbers. *)
LEMMA Joined ==
  ASSUME NEW s \in Seq(Int), NEW t \in Seq(Int), NEW u \in Seq(Int)
  PROVE  /\ s \o t \in Seq(Int)
         /\ (s \o t) \o u = s \o (t \o u)
         /\ Len(s \o t) = Len(s) + Len(t)
         /\ \A i \in 1..(Len(s) + Len(t)) :
              (s \o t)[i] = IF i <= Len(s) THEN s[i] ELSE t[i - Len(s)]
  <1>1. \A T : \A a, b, c \in Seq(T) : (a \o b) \o c = a \o (b \o c)
    BY ConcatAssociative, Zenon
  <1>2. \A T : \A a, b \in Seq(T) :
          /\ a \o b \in Seq(T)
          /\ Len(a \o b) = Len(a) + Len(b)
          /\ \A i \in 1..(Len(a) + Len(b)) :
               (a \o b)[i] = IF i <= Len(a) THEN a[i] ELSE b[i - Len(a)]
    BY ConcatProperties, Zenon
  <1>3. (s \o t) \o u = s \o (t \o u)  BY <1>1
  <1>4. /\ s \o t \in Seq(Int)
        /\ Len(s \o t) = Len(s) + Len(t)
        /\ \A i \in 1..(Len(s) + Len(t)) :
              (s \o t)[i] = IF i <= Len(s) THEN s[i] ELSE t[i - Len(s)]
    BY <1>2, Zenon
  <1> QED  BY <1>3, <1>4, Zenon

(* Three numbers in a row. *)
LEMMA ThreeInARow ==
  ASSUME NEW s \in Int, NEW t \in Int, NEW p \in Int
  PROVE  /\ <<s>> \in Seq(Int) /\ <<t>> \in Seq(Int) /\ <<p>> \in Seq(Int)
         /\ <<s>> \o <<t>> \o <<p>> = <<s, t, p>>
         /\ <<s>> \o <<t>> = <<s, t>>
  <1>1. /\ <<s>> \in Seq(Int) /\ <<t>> \in Seq(Int) /\ <<p>> \in Seq(Int)
        /\ <<s, t>> \in Seq(Int)
    OBVIOUS
  <1>2. <<s>> \o <<t>> = <<s, t>>
    <2>1. Append(<<s>>, t) = <<s, t>>  BY Appended, Zenon
    <2>2. Append(<<s>>, t) = <<s>> \o <<t>>  BY <1>1, AppendIsConcat
    <2> QED  BY <2>1, <2>2, Zenon
  <1>3. <<s, t>> \o <<p>> = <<s, t, p>>
    <2>1. Append(<<s, t>>, p) = <<s, t, p>>  BY Appended, Zenon
    <2>2. Append(<<s, t>>, p) = <<s, t>> \o <<p>>  BY <1>1, AppendIsConcat
    <2> QED  BY <2>1, <2>2, Zenon
  <1> QED  BY <1>1, <1>2, <1>3, Zenon

(* The cells, flattened twice, are the rows, flattened. *)
LEMMA CellsAreRows ==
  ASSUME NEW os \in Seq(OracleEntry)
  PROVE  /\ Rows(os) \in Seq(Seq(Int)) /\ Cells(os) \in Seq(Seq(Seq(Int)))
         /\ FlattenSeq(FlattenSeq(Cells(os))) = FlattenSeq(Rows(os))
  <1> DEFINE K == {ps \in Seq(OracleEntry) :
                     /\ Rows(ps) \in Seq(Seq(Int))
                     /\ Cells(ps) \in Seq(Seq(Seq(Int)))
                     /\ FlattenSeq(FlattenSeq(Cells(ps))) = FlattenSeq(Rows(ps))}
  <1>1. <<>> \in K
    <2>1. Rows(<<>>) = <<>> /\ Cells(<<>>) = <<>>  BY DEF Rows, Cells
    <2>2. /\ <<>> \in Seq(OracleEntry) /\ <<>> \in Seq(Seq(Int))
          /\ <<>> \in Seq(Seq(Seq(Int)))
      OBVIOUS
    <2>3. FlattenSeq(<<>>) = <<>>  BY DEF FlattenSeq
    <2> QED  BY <2>1, <2>2, <2>3, Zenon
  <1>2. ASSUME NEW ps \in K, NEW o \in OracleEntry PROVE Append(ps, o) \in K
    <2>1. /\ ps \in Seq(OracleEntry)
          /\ Rows(ps) \in Seq(Seq(Int)) /\ Cells(ps) \in Seq(Seq(Seq(Int)))
          /\ FlattenSeq(FlattenSeq(Cells(ps))) = FlattenSeq(Rows(ps))
      BY Zenon
    <2> HIDE DEF K
    <2>2. Append(ps, o) \in Seq(OracleEntry)  BY <2>1
    <2>3. /\ Rows(Append(ps, o)) = Append(Rows(ps), Row(o))
          /\ Cells(Append(ps, o)) = Append(Cells(ps), Cell(o))
      BY <2>1, OneMoreOracle, Zenon
    <2>4. PICK s \in Int, t \in Int, p \in Int :
            s = o.signer /\ t = o.transmitter /\ p = o.payee
      BY DEF OracleEntry
    <2>5. Row(o) = <<s, t, p>> /\ Cell(o) = <<<<s>>, <<t>>, <<p>>>>
      BY <2>4, Zenon DEF Row, Cell
    <2>6. Row(o) \in Seq(Int) /\ Cell(o) \in Seq(Seq(Int))
      <3>1. <<s, t, p>> \in Seq(Int)  OBVIOUS
      <3>2. <<<<s>>, <<t>>, <<p>>>> \in Seq(Seq(Int))  OBVIOUS
      <3> QED  BY <2>5, <3>1, <3>2, Zenon
    <2>7. FlattenSeq(Cell(o)) = Row(o)
      <3>1. <<s>> \in Seq(Int) /\ <<t>> \in Seq(Int) /\ <<p>> \in Seq(Int)
            /\ <<s>> \o <<t>> \o <<p>> = <<s, t, p>>
        BY ThreeInARow, Zenon
      <3>2. PICK a \in Seq(Int), b \in Seq(Int), c \in Seq(Int) :
              a = <<s>> /\ b = <<t>> /\ c = <<p>>
        BY <3>1, Zenon
      <3>3. <<>> \in Seq(Seq(Int))  OBVIOUS
      <3>4. FlattenSeq(<<a, b, c>>) = a \o b \o c
        <4>1. FlattensFew(a, b, c, a)  BY <3>3, FlattenSome, Zenon
        <4> QED  BY <4>1, Zenon DEF FlattensFew
      <3> QED  BY <2>5, <3>1, <3>2, <3>4, Zenon
    <2>8. /\ Append(Rows(ps), Row(o)) \in Seq(Seq(Int))
          /\ Append(Cells(ps), Cell(o)) \in Seq(Seq(Seq(Int)))
      <3>1. PICK T, U : T = Seq(Int) /\ U = Seq(Seq(Int))  OBVIOUS
      <3>2. /\ Rows(ps) \in Seq(T) /\ Row(o) \in T
            /\ Cells(ps) \in Seq(U) /\ Cell(o) \in U
        BY <2>1, <2>6, <3>1, Zenon
      <3>3. Append(Rows(ps), Row(o)) \in Seq(T) /\ Append(Cells(ps), Cell(o)) \in Seq(U)
        BY <3>2
      <3> QED  BY <3>1, <3>3, Zenon
    <2>9. FlattenSeq(Append(Cells(ps), Cell(o))) = FlattenSeq(Cells(ps)) \o Cell(o)
      <3>1. PICK T : T = Seq(Int)  OBVIOUS
      <3>2. Cells(ps) \in Seq(Seq(T)) /\ Cell(o) \in Seq(T)
        BY <2>1, <2>6, <3>1, Zenon
      <3> QED  BY <3>2, FlattenStep, Zenon
    <2>10. FlattenSeq(Cells(ps)) \in Seq(Seq(Int))
      <3>1. PICK T : T = Seq(Int)  OBVIOUS
      <3>2. Cells(ps) \in Seq(Seq(T))  BY <2>1, <3>1, Zenon
      <3>3. FlattenSeq(Cells(ps)) \in Seq(T)  BY <3>2, FlattenType, Zenon
      <3> QED  BY <3>1, <3>3, Zenon
    <2>11. FlattenSeq(FlattenSeq(Cells(ps)) \o Cell(o))
             = FlattenSeq(FlattenSeq(Cells(ps))) \o FlattenSeq(Cell(o))
      BY <2>6, <2>10, FlattenConcat, Zenon
    <2>12. FlattenSeq(Append(Rows(ps), Row(o))) = FlattenSeq(Rows(ps)) \o Row(o)
      BY <2>1, <2>6, FlattenStep, Zenon
    <2> QED
      BY <2>1, <2>2, <2>3, <2>7, <2>8, <2>9, <2>11, <2>12, Zenon DEF K
  <1>3. \A ps \in Seq(OracleEntry) : ps \in K
    <2> HIDE DEF K
    <2> QED  BY <1>1, <1>2, EverySequence
  <1> QED  BY <1>3, Zenon

-----------------------------------------------------------------------------
(* A number in bytes is a sequence of bytes. *)
LEMMA BigEndianType ==
  ASSUME NEW width \in Nat, width >= 2, NEW x \in Int
  PROVE  BigEndian(width, x) \in Seq(Int)
  <1>1. width - 2 \in Nat  OBVIOUS
  <1>2. PICK c \in Int : c = IF x < 0 THEN 255 ELSE 0  OBVIOUS
  <1>3. [i \in 1..(width - 2) |-> c] \in Seq(Int)  BY <1>1
  <1>4. <<(x \div 256) % 256, x % 256>> \in Seq(Int)  OBVIOUS
  <1>5. BigEndian(width, x)
          = [i \in 1..(width - 2) |-> c] \o <<(x \div 256) % 256, x % 256>>
    BY <1>2, Zenon DEF BigEndian
  <1> QED  BY <1>3, <1>4, <1>5

(* Two runs of one byte are a longer run. *)
LEMMA TwoRuns ==
  ASSUME NEW c \in Int, NEW k \in Nat, NEW m \in Nat
  PROVE  /\ [i \in 1..k |-> c] \in Seq(Int)
         /\ [i \in 1..k |-> c] \o [i \in 1..m |-> c] = [i \in 1..(k + m) |-> c]
  <1> DEFINE u == [i \in 1..k |-> c]
             v == [i \in 1..m |-> c]
             w == [i \in 1..(k + m) |-> c]
             t == u \o v
  <1>1. /\ u \in Seq(Int) /\ Len(u) = k /\ \A i \in 1..k : u[i] = c
        /\ v \in Seq(Int) /\ Len(v) = m /\ \A i \in 1..m : v[i] = c
        /\ w \in Seq(Int) /\ Len(w) = k + m /\ \A i \in 1..(k + m) : w[i] = c
    OBVIOUS
  <1> HIDE DEF u, v, w
  <1>2. t \in Seq(Int) /\ Len(t) = k + m
        /\ \A i \in 1..(k + m) : t[i] = IF i <= k THEN u[i] ELSE v[i - k]
    BY <1>1, Joined, Zenon
  <1> HIDE DEF t
  <1>3. \A i \in 1..(k + m) : t[i] = w[i]  BY <1>1, <1>2
  <1>4. t = w  BY <1>1, <1>2, <1>3, SeqEqual
  <1> QED  BY <1>1, <1>4 DEF u, v, w, t

(* The last two bytes. *)
LEMMA LastBytes ==
  ASSUME NEW x \in Int
  PROVE  <<(x \div 256) % 256, x % 256>> \in Seq(Int)
  <1>1. PICK p \in Int, q \in Int : p = (x \div 256) % 256 /\ q = x % 256
    OBVIOUS
  <1>2. <<p, q>> \in Seq(Int)  OBVIOUS
  <1> QED  BY <1>1, <1>2, Zenon

(* Rust extends the sign as libocr does. *)
LEMMA SignExtendIs ==
  ASSUME NEW x \in Int PROVE SignExtend(x) = BigEndian(24, x)
  <1>1. PICK c \in Int : c = IF x < 0 THEN 255 ELSE 0  OBVIOUS
  <1>2. PICK b \in Seq(Int) : b = <<(x \div 256) % 256, x % 256>>
    BY LastBytes, Zenon
  <1>3. 24 - 2 = 22 /\ 16 - 2 = 14 /\ 8 + 14 = 22  OBVIOUS
  <1> DEFINE u == [i \in 1..8 |-> c]
             v == [i \in 1..14 |-> c]
             w == [i \in 1..22 |-> c]
  <1>4. BigEndian(24, x) = w \o b  BY <1>1, <1>2, <1>3, Zenon DEF BigEndian
  <1>5. BigEndian(16, x) = v \o b  BY <1>1, <1>2, <1>3, Zenon DEF BigEndian
  <1>6. SignExtend(x) = u \o (v \o b)  BY <1>1, <1>5, Zenon DEF SignExtend
  <1>7. u \in Seq(Int) /\ v \in Seq(Int) /\ u \o v = w
    <2>1. PICK k \in Nat, m \in Nat : k = 8 /\ m = 14  OBVIOUS
    <2>2. /\ [i \in 1..k |-> c] \in Seq(Int) /\ [i \in 1..m |-> c] \in Seq(Int)
          /\ [i \in 1..k |-> c] \o [i \in 1..m |-> c] = [i \in 1..(k + m) |-> c]
      BY TwoRuns, Zenon
    <2> QED  BY <1>3, <2>1, <2>2, Zenon
  <1> HIDE DEF u, v, w
  <1>8. (u \o v) \o b = u \o (v \o b)  BY <1>7, Joined, ZenonT(40)
  <1> QED  BY <1>4, <1>6, <1>7, <1>8, Zenon

-----------------------------------------------------------------------------
(* The accounts of a proposal and of an aggregator, with or without a digest. *)
ProposalAccount ==
  [oracles : Seq(OracleEntry), f : Int, token_mint : Int, version : Int,
   offchain : Seq(Int), finalized : BOOLEAN]

StateAccount ==
  [min_answer : Int, max_answer : Int, f : Int, config_count : Int,
   oracles : Seq(OracleEntry), version : Int, offchain : Seq(Int),
   latest_config_digest : {absent} \cup [prefix : {3}, of : Seq(Int)]]

(* Pieces of a digest: bytes of numbers, and numbers alone. *)
LEMMA Pieces ==
  /\ \A x \in Int : <<x>> \in Seq(Int)
  /\ \A x \in Int : BigEndian(4, x) \in Seq(Int)
  /\ \A x \in Int : BigEndian(8, x) \in Seq(Int)
  /\ \A x \in Int : BigEndian(24, x) \in Seq(Int)
  <1>1. \A x \in Int : <<x>> \in Seq(Int)  OBVIOUS
  <1>2. \A w \in Nat, x \in Int : w >= 2 => BigEndian(w, x) \in Seq(Int)
    BY BigEndianType
  <1>3. PICK a \in Nat, b \in Nat, c \in Nat : a = 4 /\ b = 8 /\ c = 24  OBVIOUS
  <1>4. a >= 2 /\ b >= 2 /\ c >= 2  BY <1>3
  <1>5. /\ \A x \in Int : BigEndian(a, x) \in Seq(Int)
        /\ \A x \in Int : BigEndian(b, x) \in Seq(Int)
        /\ \A x \in Int : BigEndian(c, x) \in Seq(Int)
    BY <1>2, <1>4, Zenon
  <1> QED  BY <1>1, <1>3, <1>5, Zenon

(***************************************************************************)
(* What Go hashes of a proposal, oracle by oracle, is what Rust hashes,    *)
(* slice by slice.                                                         *)
(***************************************************************************)
LEMMA SameProposalDigest ==
  ASSUME NEW p \in ProposalAccount
  PROVE  makeDigest(p) = ProposalDigest(p)
  <1>1. /\ p.oracles \in Seq(OracleEntry) /\ p.f \in Int /\ p.token_mint \in Int
        /\ p.version \in Int /\ p.offchain \in Seq(Int)
    BY DEF ProposalAccount
  <1>2. Len(p.oracles) \in Int /\ Len(p.offchain) \in Int  BY <1>1
  <1>3. PICK os \in Seq(OracleEntry) : os = p.oracles  BY <1>1
  <1>4. PICK n \in Seq(Int), f \in Seq(Int), m \in Seq(Int), v \in Seq(Int),
             l \in Seq(Int), o \in Seq(Int) :
          /\ n = <<Len(p.oracles)>> /\ f = <<p.f>> /\ m = <<p.token_mint>>
          /\ v = BigEndian(8, p.version) /\ l = BigEndian(4, Len(p.offchain))
          /\ o = p.offchain
    BY <1>1, <1>2, Pieces, Zenon
  <1>5. PICK R : R = Rows(os)  OBVIOUS
  <1>6. PICK C : C = FlattenSeq(Cells(os))  OBVIOUS
  <1>7. makeDigest(p) = n \o FlattenSeq(R) \o f \o m \o v \o l \o o
    <2>1. [i \in DOMAIN p.oracles |->
             <<p.oracles[i].signer, p.oracles[i].transmitter, p.oracles[i].payee>>]
            = R
      BY <1>3, <1>5, Zenon DEF Rows, Row
    <2> QED  BY <1>4, <2>1, Zenon DEF makeDigest
  <1>8. ProposalDigest(p) = FlattenSeq(<<n>> \o C \o <<f, m, v, l, o>>)
    <2> DEFINE oracle(q) == <<<<q.signer>>, <<q.transmitter>>, <<q.payee>>>>
    <2>1. [i \in DOMAIN p.oracles |-> oracle(p.oracles[i])] = Cells(os)
      BY <1>3, Zenon DEF Cells, Cell
    <2>2. ProposalDigest(p)
            = FlattenSeq(<<<<Len(p.oracles)>>>>
                 \o FlattenSeq([i \in DOMAIN p.oracles |-> oracle(p.oracles[i])])
                 \o <<<<p.f>>, <<p.token_mint>>, BigEndian(8, p.version),
                      BigEndian(4, Len(p.offchain)), p.offchain>>)
      BY Zenon DEF ProposalDigest
    <2> HIDE DEF oracle
    <2> QED  BY <1>4, <1>6, <2>1, <2>2, Zenon
  <1>9. /\ R \in Seq(Seq(Int)) /\ FlattenSeq(C) = FlattenSeq(R)
        /\ C \in Seq(Seq(Int)) /\ <<n>> \in Seq(Seq(Int))
    <2>1. /\ R \in Seq(Seq(Int)) /\ FlattenSeq(C) = FlattenSeq(R)
          /\ Cells(os) \in Seq(Seq(Seq(Int)))
      BY <1>5, <1>6, CellsAreRows, Zenon
    <2>2. PICK T : T = Seq(Int)  OBVIOUS
    <2>3. FlattenSeq(Cells(os)) \in Seq(T)
      <3>1. Cells(os) \in Seq(Seq(T))  BY <2>1, <2>2, Zenon
      <3> QED  BY <3>1, FlattenType, Zenon
    <2>4. <<n>> \in Seq(T)
      <3>1. n \in T  BY <2>2
      <3> QED  BY <3>1
    <2> QED  BY <1>6, <2>1, <2>2, <2>3, <2>4, Zenon
  <1>10. PICK D : D = <<n>> \o C  OBVIOUS
  <1>11. D \in Seq(Seq(Int))
    <2>1. \A T : \A a, b \in Seq(T) : a \o b \in Seq(T)  OBVIOUS
    <2> QED  BY <1>9, <1>10, <2>1, Zenon
  <1>12. FlattenSeq(D) = n \o FlattenSeq(R)
    <2>1. FlattenSeq(D) = FlattenSeq(<<n>>) \o FlattenSeq(C)
      BY <1>9, <1>10, FlattenConcat, Zenon
    <2>2. FlattensFew(n, n, n, n)  BY <1>9, FlattenSome, Zenon
    <2> QED  BY <1>9, <2>1, <2>2, Zenon DEF FlattensFew
  <1>13. FlattenSeq(D \o <<f, m, v, l, o>>) = FlattenSeq(D) \o f \o m \o v \o l \o o
    <2>1. FlattensAfter(D, f, m, v, l, o, o)  BY <1>11, FlattenSome, Zenon
    <2> QED  BY <2>1, Zenon DEF FlattensAfter
  <1> QED  BY <1>7, <1>8, <1>10, <1>12, <1>13

(***************************************************************************)
(* The digest that the oracles compute of the state is the program's.      *)
(***************************************************************************)
LEMMA SameConfigDigest ==
  ASSUME NEW s \in StateAccount
  PROVE  /\ ConfigDigest(ConfigFromState(s)) = config_digest_from_data(s)
         /\ config_digest_from_data(s) \in [prefix : {3}, of : Seq(Int)]
  <1>1. /\ s.oracles \in Seq(OracleEntry) /\ s.f \in Int /\ s.config_count \in Int
        /\ s.version \in Int /\ s.offchain \in Seq(Int)
        /\ s.min_answer \in Int /\ s.max_answer \in Int
    BY DEF StateAccount
  <1>2. PICK os \in Seq(OracleEntry) : os = s.oracles  BY <1>1
  <1>3. PICK sig, tr :
          /\ sig = [i \in DOMAIN s.oracles |-> s.oracles[i].signer]
          /\ tr = [i \in DOMAIN s.oracles |-> s.oracles[i].transmitter]
    OBVIOUS
  <1>4. sig \in Seq(Int) /\ tr \in Seq(Int) /\ Len(sig) = Len(s.oracles)
    <2>1. /\ Len(os) \in Nat /\ DOMAIN os = 1..Len(os)
          /\ \A i \in 1..Len(os) : os[i] \in OracleEntry
      OBVIOUS
    <2>2. \A i \in 1..Len(os) : os[i].signer \in Int /\ os[i].transmitter \in Int
      BY <2>1 DEF OracleEntry
    <2>3. /\ sig = [i \in 1..Len(os) |-> os[i].signer]
          /\ tr = [i \in 1..Len(os) |-> os[i].transmitter]
      BY <1>2, <1>3, <2>1, Zenon
    <2>4. sig \in Seq(Int) /\ tr \in Seq(Int) /\ Len(sig) = Len(os)
      BY <2>1, <2>2, <2>3
    <2> QED  BY <1>2, <2>4, Zenon
  <1>5. PICK oc : oc = <<1>> \o BigEndian(24, s.min_answer) \o BigEndian(24, s.max_answer)
    OBVIOUS
  <1>6. /\ OnchainConfigEncode(s.min_answer, s.max_answer) = oc
        /\ <<1>> \o SignExtend(s.min_answer) \o SignExtend(s.max_answer) = oc
        /\ oc \in Seq(Int)
    <2>1. \A x \in Int : SignExtend(x) = BigEndian(24, x)  BY SignExtendIs, Zenon
    <2>2. /\ <<1>> \in Seq(Int) /\ BigEndian(24, s.min_answer) \in Seq(Int)
          /\ BigEndian(24, s.max_answer) \in Seq(Int)
      <3>1. <<1>> \in Seq(Int)  OBVIOUS
      <3> QED  BY <1>1, <3>1, Pieces, Zenon
    <2>3. \A a, b \in Seq(Int) : a \o b \in Seq(Int)  BY Joined, Zenon
    <2> QED  BY <1>1, <1>5, <2>1, <2>2, <2>3, Zenon DEF OnchainConfigEncode
  <1>7. /\ Len(oc) \in Int /\ Len(s.offchain) \in Int /\ Len(s.oracles) \in Int
        /\ PROGRAM_ID \in Int /\ STATE_ID \in Int
    BY <1>1, <1>6 DEF PROGRAM_ID, STATE_ID
  <1>8. PICK P \in Seq(Int), Q \in Seq(Int), c \in Seq(Int), n \in Seq(Int) :
          /\ P = <<PROGRAM_ID>> /\ Q = <<STATE_ID>>
          /\ c = BigEndian(4, s.config_count) /\ n = <<Len(s.oracles)>>
    BY <1>1, <1>7, Pieces, Zenon
  <1>9. PICK f \in Seq(Int), k \in Seq(Int), v \in Seq(Int), l \in Seq(Int),
             o \in Seq(Int) :
          /\ f = <<s.f>> /\ k = BigEndian(4, Len(oc))
          /\ v = BigEndian(8, s.version) /\ l = BigEndian(4, Len(s.offchain))
          /\ o = s.offchain
    BY <1>1, <1>7, Pieces, Zenon
  <1>10. <<PROGRAM_ID, STATE_ID>> = P \o Q  BY <1>7, <1>8, ThreeInARow, Zenon
  <1>11. ConfigDigest(ConfigFromState(s))
           = [prefix |-> 3,
              of |-> P \o Q \o c \o n \o sig \o tr \o f \o k \o oc \o v \o l \o o]
    <2>1. PICK g : g = ConfigFromState(s)  OBVIOUS
    <2>2. /\ g.ConfigCount = s.config_count /\ g.Signers = sig
          /\ g.Transmitters = tr /\ g.F = s.f /\ g.OnchainConfig = oc
          /\ g.OffchainConfigVersion = s.version /\ g.OffchainConfig = s.offchain
      BY <1>3, <1>6, <2>1 DEF ConfigFromState
    <2> QED  BY <1>4, <1>8, <1>9, <1>10, <2>1, <2>2, Zenon DEF ConfigDigest
  <1>12. PICK H : H = <<P, Q, c, n>>  OBVIOUS
  <1>13. PICK A, B : A = Singles(sig) /\ B = Singles(tr)  OBVIOUS
  <1>14. config_digest_from_data(s)
           = [prefix |-> 3,
              of |-> FlattenSeq(H \o A \o B \o <<f, k, oc, v, l, o>>)]
    <2> DEFINE signer(i) == <<s.oracles[i].signer>>
               transmitter(i) == <<s.oracles[i].transmitter>>
    <2>1. [i \in DOMAIN s.oracles |-> signer(i)] = A
      <3>1. DOMAIN sig = DOMAIN s.oracles  BY <1>3, Zenon
      <3>2. \A i \in DOMAIN s.oracles : sig[i] = s.oracles[i].signer
        BY <1>3, Zenon
      <3> QED  BY <1>13, <3>1, <3>2 DEF Singles
    <2>2. [i \in DOMAIN s.oracles |-> transmitter(i)] = B
      <3>1. DOMAIN tr = DOMAIN s.oracles  BY <1>3, Zenon
      <3>2. \A i \in DOMAIN s.oracles : tr[i] = s.oracles[i].transmitter
        BY <1>3, Zenon
      <3> QED  BY <1>13, <3>1, <3>2 DEF Singles
    <2>3. config_digest_from_data(s)
            = [prefix |-> 3,
               of |-> FlattenSeq(
                 <<<<PROGRAM_ID>>, <<STATE_ID>>, BigEndian(4, s.config_count),
                   <<Len(s.oracles)>>>>
                 \o [i \in DOMAIN s.oracles |-> signer(i)]
                 \o [i \in DOMAIN s.oracles |-> transmitter(i)]
                 \o <<<<s.f>>, BigEndian(4, Len(oc)), oc,
                      BigEndian(8, s.version), BigEndian(4, Len(s.offchain)),
                      s.offchain>>)]
      BY <1>6, Zenon DEF config_digest_from_data
    <2> HIDE DEF signer, transmitter
    <2> QED  BY <1>8, <1>9, <1>12, <2>1, <2>2, <2>3, Zenon
  <1>15. /\ H \in Seq(Seq(Int)) /\ A \in Seq(Seq(Int)) /\ B \in Seq(Seq(Int))
         /\ FlattenSeq(A) = sig /\ FlattenSeq(B) = tr
    <2>1. H \in Seq(Seq(Int))
      <3>1. PICK T : T = Seq(Int)  OBVIOUS
      <3>2. P \in T /\ Q \in T /\ c \in T /\ n \in T  BY <3>1
      <3>3. <<P, Q, c, n>> \in Seq(T)  BY <3>2
      <3> QED  BY <1>12, <3>1, <3>3, Zenon
    <2> QED  BY <1>4, <1>13, <2>1, FlattenSingles, Zenon
  <1>16. PICK D, E : D = H \o A /\ E = D \o B  OBVIOUS
  <1>17. D \in Seq(Seq(Int)) /\ E \in Seq(Seq(Int))
    <2>1. \A T : \A a, b \in Seq(T) : a \o b \in Seq(T)  OBVIOUS
    <2> QED  BY <1>15, <1>16, <2>1, Zenon
  <1>18. FlattenSeq(E) = P \o Q \o c \o n \o sig \o tr
    <2>1. FlattenSeq(H) = P \o Q \o c \o n
      <3>1. FlattensFew(P, Q, c, n)  BY <1>15, FlattenSome, Zenon
      <3> QED  BY <1>12, <3>1, Zenon DEF FlattensFew
    <2>2. FlattenSeq(D) = FlattenSeq(H) \o FlattenSeq(A)
      BY <1>15, <1>16, FlattenConcat, Zenon
    <2>3. FlattenSeq(E) = FlattenSeq(D) \o FlattenSeq(B)
      BY <1>15, <1>16, <1>17, FlattenConcat, Zenon
    <2> QED  BY <1>15, <2>1, <2>2, <2>3
  <1>19. FlattenSeq(E \o <<f, k, oc, v, l, o>>)
           = FlattenSeq(E) \o f \o k \o oc \o v \o l \o o
    <2>1. FlattensAfter(E, f, k, oc, v, l, o)
      BY <1>6, <1>17, FlattenSome, Zenon
    <2> QED  BY <2>1, Zenon DEF FlattensAfter
  <1>20. config_digest_from_data(s)
           = [prefix |-> 3,
              of |-> P \o Q \o c \o n \o sig \o tr \o f \o k \o oc \o v \o l \o o]
    BY <1>14, <1>16, <1>18, <1>19
  <1>21. FlattenSeq(E \o <<f, k, oc, v, l, o>>) \in Seq(Int)
    <2>1. \A a, b \in Seq(Int) : a \o b \in Seq(Int)  BY Joined, Zenon
    <2>2. FlattenSeq(E) \in Seq(Int)  BY <1>17, FlattenType, Zenon
    <2>3. FlattenSeq(E) \o f \o k \o oc \o v \o l \o o \in Seq(Int)
      BY <1>6, <2>1, <2>2, Zenon
    <2> QED  BY <1>19, <2>3, Zenon
  <1>22. config_digest_from_data(s) \in [prefix : {3}, of : Seq(Int)]
    <2>1. config_digest_from_data(s)
            = [prefix |-> 3, of |-> FlattenSeq(E \o <<f, k, oc, v, l, o>>)]
      BY <1>14, <1>16, Zenon
    <2>2. PICK b \in Seq(Int) : b = FlattenSeq(E \o <<f, k, oc, v, l, o>>)
      BY <1>21, Zenon
    <2>3. [prefix |-> 3, of |-> b] \in [prefix : {3}, of : Seq(Int)]  OBVIOUS
    <2> QED  BY <2>1, <2>2, <2>3, Zenon
  <1> QED  BY <1>11, <1>20, <1>22

-----------------------------------------------------------------------------
(* A piece less holds less. *)
LEMMA FewerPieces ==
  ASSUME NEW a \in Nat, NEW c \in Nat \ {0}, NEW n \in Nat, n * c < a + c,
         NEW k \in Nat, k < n
  PROVE  k * c \in Nat /\ k * c < a
  <1>1. PICK d \in Nat : d = n - k - 1  OBVIOUS
  <1>2. n = k + d + 1  BY <1>1
  <1>3. PICK x \in Nat, y \in Nat : x = k * c /\ y = d * c  OBVIOUS
  <1>4. n * c = x + y + c  BY <1>2, <1>3
  <1> QED  BY <1>3, <1>4

(* Rounding up: n pieces of c hold a, and n - 1 do not. *)
LEMMA RoundedUp ==
  ASSUME NEW a \in Nat, NEW c \in Nat \ {0}, NEW n, n = (a + c - 1) \div c
  PROVE  /\ n \in Nat /\ a <= n * c
         /\ \A k \in Nat : k < n => k * c \in Nat /\ k * c < a
  <1>1. PICK b \in Nat : b = a + c - 1  OBVIOUS
  <1>2. n = b \div c  BY <1>1
  <1>3. n \in Int /\ c * n <= b /\ b < c * n + c  BY <1>2
  <1>4. n \in Nat
    <2> SUFFICES ASSUME n < 0 PROVE FALSE  BY <1>3
    <2>1. n + 1 <= 0  BY <1>3
    <2>2. c * (n + 1) <= 0  BY <1>3, <2>1
    <2>3. c * (n + 1) = c * n + c  BY <1>3
    <2> QED  BY <1>1, <1>3, <2>2, <2>3
  <1>5. n * c = c * n  BY <1>4
  <1>6. PICK m \in Int : m = n * c  BY <1>4
  <1>7. a <= n * c /\ n * c < a + c  BY <1>1, <1>3, <1>5, <1>6
  <1>8. ASSUME NEW k \in Nat, k < n PROVE k * c \in Nat /\ k * c < a
    BY <1>4, <1>7, <1>8, FewerPieces, Zenon
  <1> QED  BY <1>4, <1>7, <1>8

(* What is cut into chunks is what the chunks hold, in order. *)
LEMMA ChunksJoin ==
  ASSUME NEW S, NEW items \in Seq(S), NEW c \in Nat \ {0}
  PROVE  /\ ChunkSlice(items, c) \in Seq(Seq(S))
         /\ FlattenSeq(ChunkSlice(items, c)) = items
  <1>1. PICK n : n = (Len(items) + c - 1) \div c  OBVIOUS
  <1>2. PICK L \in Nat : L = Len(items)  OBVIOUS
  <1>3. /\ n \in Nat /\ L <= n * c
        /\ \A k \in Nat : k < n => k * c \in Nat /\ k * c < L
    BY <1>1, <1>2, RoundedUp
  <1> DEFINE end(i) == IF i * c < Len(items) THEN i * c ELSE Len(items)
             chunk(i) == SubSeq(items, (i - 1) * c + 1, end(i))
             First(k) == [i \in 1..k |-> chunk(i)]
  <1>4. ChunkSlice(items, c) = IF n = 0 THEN <<items>> ELSE First(n)
    BY <1>1, Zenon DEF ChunkSlice
  <1>5. /\ \A k \in Nat : k < n => end(k) = k * c
        /\ end(n) = L
        /\ \A k \in Nat : k <= n => end(k) \in 0..L
    <2>1. ASSUME NEW k \in Nat, k < n PROVE end(k) = k * c
      BY <1>2, <1>3, <2>1
    <2>2. end(n) = L
      <3>1. PICK m \in Int : m = n * c  BY <1>3
      <3> QED  BY <1>2, <1>3, <3>1
    <2>3. ASSUME NEW k \in Nat, k <= n PROVE end(k) \in 0..L
      <3>1. CASE k < n
        <4>1. k * c \in Nat /\ k * c < L  BY <1>3, <3>1
        <4> QED  BY <2>1, <3>1, <4>1
      <3>2. CASE k = n  BY <1>2, <2>2, <3>2
      <3> QED  BY <1>3, <2>3, <3>1, <3>2
    <2> QED  BY <2>1, <2>2, <2>3
  <1> HIDE DEF end
  <1>6. ASSUME NEW k \in Nat, k < n
        PROVE  /\ chunk(k + 1) \in Seq(S)
               /\ SubSeq(items, 1, end(k)) \o chunk(k + 1)
                    = SubSeq(items, 1, end(k + 1))
    <2>1. PICK a \in Nat : a = k * c /\ a = end(k) /\ a < L  BY <1>3, <1>5, <1>6
    <2>2. PICK b \in 0..L : b = end(k + 1)
      <3>1. k + 1 \in Nat /\ k + 1 <= n  BY <1>3, <1>6
      <3> QED  BY <1>5, <3>1
    <2>3. chunk(k + 1) = SubSeq(items, a + 1, b)
      <3>1. (k + 1) - 1 = k  OBVIOUS
      <3> QED  BY <2>1, <2>2, <3>1
    <2>4. a <= b
      <3>1. PICK d \in Nat : d = (k + 1) * c /\ d = a + c  BY <2>1
      <3>2. b = d \/ b = L  BY <1>2, <2>2, <3>1 DEF end
      <3> QED  BY <2>1, <3>1, <3>2
    <2>5. SubSeq(items, a + 1, b) \in Seq(S)
      <3>1. \A i \in (a + 1)..b : items[i] \in S  BY <1>2
      <3> QED  BY <2>1, <2>2, <3>1, SubSeqProperties
    <2>6. PICK one \in Int : one = 1  OBVIOUS
    <2>7. /\ one \in 1..(Len(items) + 1) /\ a \in (one - 1)..Len(items)
          /\ b \in a..Len(items)
      BY <1>2, <2>1, <2>2, <2>4, <2>6
    <2>8. SubSeq(items, one, a) \o SubSeq(items, a + 1, b) = SubSeq(items, one, b)
      BY <2>7, ConcatAdjacentSubSeq
    <2> QED  BY <2>1, <2>2, <2>3, <2>5, <2>6, <2>8, Zenon
  <1> HIDE DEF chunk
  <1>7. PICK T : T = Seq(S)  OBVIOUS
  <1>8. ASSUME NEW k \in Nat, k < n, First(k) \in Seq(T)
        PROVE  First(k + 1) \in Seq(T) /\ First(k + 1) = Append(First(k), chunk(k + 1))
    <2>1. \A i \in 1..(k + 1) : chunk(i) \in T
      <3> SUFFICES ASSUME NEW i \in 1..(k + 1) PROVE chunk(i) \in T  OBVIOUS
      <3>1. i - 1 \in Nat /\ i - 1 < n /\ (i - 1) + 1 = i  BY <1>3, <1>8
      <3>2. chunk((i - 1) + 1) \in Seq(S)  BY <1>6, <3>1
      <3> QED  BY <1>7, <3>1, <3>2
    <2>2. First(k + 1) \in Seq(T) /\ Len(First(k + 1)) = k + 1 /\ Len(First(k)) = k
      BY <2>1
    <2>3. First(k + 1)[k + 1] = chunk(k + 1) /\ chunk(k + 1) \in T
      <3>1. k + 1 \in 1..(k + 1)  OBVIOUS
      <3> QED  BY <2>1, <3>1
    <2>4. \A i \in 1..k : First(k + 1)[i] = First(k)[i]
      <3>1. \A i \in 1..k : i \in 1..(k + 1)  OBVIOUS
      <3> QED  BY <3>1, Zenon
    <2>5. PICK r, s, e : r = First(k) /\ s = First(k + 1) /\ e = chunk(k + 1)
      OBVIOUS
    <2> HIDE DEF First
    <2>6. s = Append(r, e)
      <3>1. /\ r \in Seq(T) /\ e \in T /\ s \in Seq(T) /\ Len(r) = k /\ Len(s) = k + 1
            /\ s[k + 1] = e /\ \A i \in 1..k : s[i] = r[i]
        BY <1>8, <2>2, <2>3, <2>4, <2>5, Zenon
      <3> QED  BY <3>1, AppendIs
    <2> QED  BY <2>2, <2>5, <2>6, Zenon
  <1> DEFINE K == {k \in Nat : k <= n =>
                     /\ First(k) \in Seq(T)
                     /\ FlattenSeq(First(k)) = SubSeq(items, 1, end(k))}
  <1>9. 0 \in K
    <2>1. First(0) = <<>>  OBVIOUS
    <2>2. end(0) = 0
      <3>1. 0 * c = 0  OBVIOUS
      <3> QED  BY <1>2, <3>1 DEF end
    <2>3. SubSeq(items, 1, 0) = <<>>
      <3>1. PICK i \in Int, j \in Int : i = 1 /\ j = 0 /\ j < i  OBVIOUS
      <3> QED  BY <3>1, SubSeqEmpty
    <2>4. FlattenSeq(<<>>) = <<>>  BY DEF FlattenSeq
    <2>5. <<>> \in Seq(T)  OBVIOUS
    <2> HIDE DEF First
    <2> QED  BY <2>1, <2>2, <2>3, <2>4, <2>5, Zenon
  <1>10. ASSUME NEW k \in K PROVE k + 1 \in K
    <2>1. k \in Nat /\ k + 1 \in Nat  OBVIOUS
    <2> SUFFICES ASSUME k + 1 <= n
                 PROVE  /\ First(k + 1) \in Seq(T)
                        /\ FlattenSeq(First(k + 1)) = SubSeq(items, 1, end(k + 1))
      BY <2>1, Zenon
    <2>2. k <= n /\ k < n  BY <1>3, <2>1
    <2>3. First(k) \in Seq(T) /\ FlattenSeq(First(k)) = SubSeq(items, 1, end(k))
      BY <2>2, Zenon
    <2> HIDE DEF K, First
    <2>4. First(k + 1) \in Seq(T) /\ First(k + 1) = Append(First(k), chunk(k + 1))
      BY <1>8, <2>1, <2>2, <2>3, Zenon
    <2>5. /\ chunk(k + 1) \in Seq(S)
          /\ SubSeq(items, 1, end(k)) \o chunk(k + 1) = SubSeq(items, 1, end(k + 1))
      BY <1>6, <2>1, <2>2, Zenon
    <2>6. FlattenSeq(Append(First(k), chunk(k + 1)))
            = FlattenSeq(First(k)) \o chunk(k + 1)
      BY <1>7, <2>3, <2>5, FlattenStep, Zenon
    <2> QED  BY <2>3, <2>4, <2>5, <2>6, Zenon
  <1>11. \A k \in Nat : k \in K
    <2>1. K \in SUBSET Nat  BY Zenon
    <2> HIDE DEF K
    <2> QED  BY <1>9, <1>10, <2>1, EveryNatural
  <1>12. First(n) \in Seq(T) /\ FlattenSeq(First(n)) = SubSeq(items, 1, end(n))
    <2>1. n <= n  BY <1>3
    <2> HIDE DEF First
    <2> QED  BY <1>3, <1>11, <2>1, Zenon
  <1>13. SubSeq(items, 1, end(n)) = items
    <2>1. SubSeq(items, 1, Len(items)) = items  BY SubSeqFull, Zenon
    <2> QED  BY <1>2, <1>5, <2>1, Zenon
  <1>14. <<items>> \in Seq(T) /\ FlattenSeq(<<items>>) = items
    <2>1. items \in T  BY <1>7
    <2>2. <<items>> \in Seq(T)  BY <2>1
    <2>3. FlattensFew(items, items, items, items)
      BY <1>7, <2>2, FlattenSome, Zenon
    <2> QED  BY <2>2, <2>3, Zenon DEF FlattensFew
  <1> HIDE DEF First
  <1> QED  BY <1>4, <1>7, <1>12, <1>13, <1>14, Zenon

-----------------------------------------------------------------------------
\* The keys that a list of oracles has.
KeysOf(oracles) == {<<o.signer, o.transmitter>> : o \in ToSet(oracles)}

\* The state account holds the digest of the configuration in it.
StateInv ==
  /\ state \in StateAccount
  /\ state.config_count > 0 =>
       ConfigDigest(ConfigFromState(state)) = state.latest_config_digest

\* The oracles, f and version in r are those that were given.
AsGiven(r) ==
  /\ r.version = given.version /\ r.f = given.f
  /\ KeysOf(r.oracles) = KeysOf(given.oracles)

\* Some of the off-chain config is in the proposal, the rest is in the chunks.
ChunksInv ==
  /\ pc \in {"create", "config", "payees", "write"} => chunks \in Seq(Seq(Int))
  /\ pc = "create" => FlattenSeq(chunks) = given.bytes
  /\ (pc \in {"config", "payees", "write"} /\ proposal # absent /\ ~ignored) =>
       proposal.offchain \o FlattenSeq(chunks) = given.bytes

\* The proposal is of what was given, as far as it was proposed.
StagedInv ==
  /\ proposal \in ProposalAccount /\ proposal.version = given.version
  /\ proposal.oracles # <<>> => AsGiven(proposal)
  /\ proposal.finalized => proposal.oracles # <<>>

ProposalInv ==
  /\ pc \in {"config", "payees", "write", "digest"} => proposal = absent \/ StagedInv
  /\ (pc \in {"digest", "accept"} /\ proposal # absent /\ ~ignored) =>
       proposal.offchain = given.bytes
  /\ pc = "accept" => StagedInv /\ digest = makeDigest(proposal)

\* What was done is in force.
DoneInv ==
  pc = "done" =>
    /\ state.oracles # <<>> => AsGiven(state)
    /\ ~ignored => state.offchain = given.bytes /\ AsGiven(state)

(***************************************************************************)
(* Inductive: at every step of Configure the proposal holds what was given *)
(* of what the steps so far have staged, and, unless a transaction failed  *)
(* on chain, the chunks still to write follow the off-chain config in it.  *)
(***************************************************************************)
DigestsInv ==
  /\ pc \in {"create", "config", "payees", "write", "digest", "accept"} =>
       given \in Given
  /\ StateInv /\ ChunksInv /\ ProposalInv /\ DoneInv

(* Where each step of Configure may be. *)
LEMMA GivenType ==
  ASSUME NEW g \in Given
  PROVE  /\ g.oracles \in Seq([signer : Nat, transmitter : Nat])
         /\ g.f \in Nat /\ g.version \in Nat
         /\ g.bytes \in Seq(Int)
  <1>1. g \in [oracles : Seq([signer : Nat, transmitter : Nat]),
               f : Nat, version : Nat, bytes : Seq(Nat)]
    BY DigestsAssumption DEF DigestsAssumption
  <1>2. /\ g.oracles \in Seq([signer : Nat, transmitter : Nat])
        /\ g.f \in Nat /\ g.version \in Nat /\ g.bytes \in Seq(Nat)
    BY <1>1
  <1>3. PICK b \in Seq(Nat) : b = g.bytes  BY <1>2
  <1>4. b \in Seq(Int)  OBVIOUS
  <1> QED  BY <1>2, <1>3, <1>4

(* A step that fails stops Configure. *)
LEMMA FailedInv ==
  ASSUME pc' \in {"failed", "idle"}, StateInv'
  PROVE  DigestsInv'
  BY DEF DigestsInv, ChunksInv, ProposalInv, DoneInv

\* Configure goes on after a transaction that failed on chain.
IgnoredStep ==
  /\ ignored' = TRUE
  /\ given' = given /\ proposal' = proposal /\ state' = state
  /\ \/ pc = "create" /\ pc' = "config" /\ proposal = absent
     \/ pc = "config" /\ pc' = "payees"
     \/ pc = "payees" /\ pc' = "write"
     \/ pc = "write" /\ pc' \in {"write", "digest"}
  /\ chunks' = chunks \/ (chunks' = Tail(chunks) /\ chunks # <<>>)

(* It leaves the accounts as they were. *)
LEMMA IgnoredInv == ASSUME DigestsInv, IgnoredStep PROVE DigestsInv'
  <1>0. /\ ignored' = TRUE
        /\ given' = given /\ proposal' = proposal /\ state' = state
        /\ \/ pc = "create" /\ pc' = "config" /\ proposal = absent
           \/ pc = "config" /\ pc' = "payees"
           \/ pc = "payees" /\ pc' = "write"
           \/ pc = "write" /\ pc' \in {"write", "digest"}
        /\ chunks' = chunks \/ (chunks' = Tail(chunks) /\ chunks # <<>>)
    BY DEF IgnoredStep
  <1>1. StateInv'  BY <1>0 DEF DigestsInv, StateInv
  <1>2. chunks \in Seq(Seq(Int))  BY <1>0 DEF DigestsInv, ChunksInv
  <1>3. chunks' \in Seq(Seq(Int))
    <2>1. PICK T : T = Seq(Int)  OBVIOUS
    <2>2. PICK cs \in Seq(T) : cs = chunks  BY <1>2, <2>1, Zenon
    <2>3. cs # <<>> => Tail(cs) \in Seq(T)  BY <2>2, HeadTailProperties
    <2> QED  BY <1>0, <2>1, <2>2, <2>3, Zenon
  <1>4. ChunksInv'  BY <1>0, <1>3 DEF ChunksInv
  <1>5. ProposalInv'
    <2>1. proposal = absent \/ StagedInv  BY <1>0 DEF DigestsInv, ProposalInv
    <2>2. StagedInv => StagedInv'
      BY <1>0, Zenon DEF StagedInv, AsGiven, KeysOf
    <2> QED  BY <1>0, <2>1, <2>2 DEF ProposalInv
  <1>6. pc' # "done" /\ given' \in Given  BY <1>0 DEF DigestsInv
  <1> QED  BY <1>1, <1>4, <1>5, <1>6 DEF DigestsInv, DoneInv

(* The state stays what it was. *)
LEMMA SameStateInv ==
  ASSUME StateInv, state' = state
  PROVE  StateInv'
  BY DEF StateInv

(* A new account has no configuration. *)
LEMMA NewStateInv ==
  ASSUME NEW min \in Int, NEW max \in Int, state' = NewState(min, max)
  PROVE  StateInv'
  <1>1. NewState(min, max) \in StateAccount  BY DEF NewState, StateAccount
  <1>2. NewState(min, max).config_count = 0  BY DEF NewState
  <1> QED  BY <1>1, <1>2 DEF StateInv

(* Nothing is configured at first. *)
LEMMA DigestsStart == DigestsInit => DigestsInv
  <1> SUFFICES ASSUME DigestsInit PROVE DigestsInv  OBVIOUS
  <1>1. pc = "undeployed" /\ state = NewState(0, 0)  BY DEF DigestsInit
  <1>2. NewState(0, 0) \in StateAccount  BY DEF NewState, StateAccount
  <1>3. NewState(0, 0).config_count = 0  BY DEF NewState
  <1>4. StateInv  BY <1>1, <1>2, <1>3 DEF StateInv
  <1> QED
    BY <1>1, <1>4 DEF DigestsInv, ChunksInv, ProposalInv, DoneInv

(* Configure cuts the off-chain config into chunks. *)
LEMMA ConfigureInv ==
  ASSUME DigestsInv, NEW g \in Given, Configure(g) PROVE DigestsInv'
  <1>1. /\ pc' = "create" /\ given' = g
        /\ chunks' = ChunkSlice(g.bytes, ChunkSize) /\ state' = state
    BY DEF Configure
  <1>2. StateInv'  BY <1>1, SameStateInv DEF DigestsInv
  <1>3. /\ ChunkSlice(g.bytes, ChunkSize) \in Seq(Seq(Int))
        /\ FlattenSeq(ChunkSlice(g.bytes, ChunkSize)) = g.bytes
    <2>1. g.bytes \in Seq(Int)  BY GivenType
    <2>2. ChunkSize \in Nat \ {0}  BY DigestsAssumption DEF DigestsAssumption
    <2> QED  BY <2>1, <2>2, ChunksJoin, Zenon
  <1>4. ChunksInv'
    <2>1. chunks' \in Seq(Seq(Int)) /\ FlattenSeq(chunks') = given'.bytes
      BY <1>1, <1>3, Zenon
    <2> QED  BY <1>1, <2>1 DEF ChunksInv
  <1> QED
    BY <1>1, <1>2, <1>4 DEF DigestsInv, ProposalInv, DoneInv

(* The proposal has no oracles and no off-chain config yet. *)
LEMMA CreateInv == ASSUME DigestsInv, createProposal PROVE DigestsInv'
  <1>1. /\ pc = "create" /\ state' = state /\ given' = given /\ chunks' = chunks
        /\ \/ pc' = "failed"
           \/ /\ pc' = "config" /\ proposal = absent
              /\ ignored' = TRUE /\ proposal' = proposal
           \/ /\ pc' = "config" /\ ignored' = ignored
              /\ proposal' = [oracles |-> <<>>, f |-> 0, token_mint |-> 0,
                              version |-> given.version, offchain |-> <<>>,
                              finalized |-> FALSE]
    BY DEF createProposal, Outcomes
  <1>2. StateInv'  BY <1>1, SameStateInv DEF DigestsInv
  <1>3. CASE pc' = "failed"  BY <1>2, <1>3, FailedInv
  <1>5. CASE pc' = "config" /\ proposal = absent /\ ignored' = TRUE
             /\ proposal' = proposal
    <2>1. IgnoredStep  BY <1>1, <1>5, Zenon DEF IgnoredStep
    <2> QED  BY <2>1, IgnoredInv
  <1>4. CASE /\ pc' = "config" /\ ignored' = ignored
             /\ proposal' = [oracles |-> <<>>, f |-> 0, token_mint |-> 0,
                             version |-> given.version, offchain |-> <<>>,
                             finalized |-> FALSE]
    <2>1. /\ given \in Given /\ chunks \in Seq(Seq(Int))
          /\ FlattenSeq(chunks) = given.bytes
      BY <1>1 DEF DigestsInv, ChunksInv
    <2>2. given.version \in Int /\ given.bytes \in Seq(Int)  BY <2>1, GivenType
    <2>3. /\ proposal' \in ProposalAccount /\ proposal'.version = given.version
          /\ proposal'.offchain = <<>> /\ proposal'.oracles = <<>>
          /\ proposal'.finalized = FALSE
      <3>1. PICK o \in Seq(OracleEntry), b \in Seq(Int), v \in Int :
              o = <<>> /\ b = <<>> /\ v = given.version
        <4>1. <<>> \in Seq(OracleEntry) /\ <<>> \in Seq(Int)  OBVIOUS
        <4> QED  BY <2>2, <4>1, Zenon
      <3>2. PICK p : p = [oracles |-> o, f |-> 0, token_mint |-> 0, version |-> v,
                          offchain |-> b, finalized |-> FALSE]
        OBVIOUS
      <3>3. /\ p \in ProposalAccount /\ p.version = v /\ p.offchain = b
            /\ p.oracles = o /\ p.finalized = FALSE
        BY <3>2 DEF ProposalAccount
      <3>4. proposal' = p  BY <1>1, <1>4, <3>1, <3>2, Zenon
      <3> QED  BY <3>1, <3>3, <3>4, Zenon
    <2>4. <<>> \o given.bytes = given.bytes  BY <2>2
    <2>5. ProposalInv' /\ ChunksInv'
      BY <1>1, <1>4, <2>1, <2>3, <2>4 DEF ProposalInv, StagedInv, ChunksInv
    <2> QED  BY <1>1, <1>2, <1>4, <2>1, <2>5 DEF DigestsInv, DoneInv
  <1> QED  BY <1>1, <1>3, <1>4, <1>5

(* The keys of a list, by their places in it. *)
LEMMA KeysAt ==
  ASSUME NEW l
  PROVE  KeysOf(l) = {<<l[i].signer, l[i].transmitter>> : i \in DOMAIN l}
  BY DEF KeysOf, ToSet

(* q is the proposal p with these oracles. *)
WithOracles(p, f, list, q) == q = [p EXCEPT !.f = f, !.oracles = list]

(* Oracles in a proposal. *)
LEMMA OraclesProposed ==
  ASSUME NEW p \in ProposalAccount, NEW list \in Seq(OracleEntry), NEW f \in Nat,
         NEW q, WithOracles(p, f, list, q)
  PROVE  /\ q \in ProposalAccount /\ q.version = p.version
         /\ q.offchain = p.offchain /\ q.f = f /\ q.oracles = list
         /\ q.finalized = p.finalized
  <1>1. PICK r : r = [p EXCEPT !.f = f]  OBVIOUS
  <1>2. r \in ProposalAccount /\ r.version = p.version /\ r.offchain = p.offchain
        /\ r.f = f /\ r.finalized = p.finalized
    <2>1. f \in Int  OBVIOUS
    <2> QED  BY <1>1, <2>1 DEF ProposalAccount
  <1>3. q = [r EXCEPT !.oracles = list]
    BY <1>1, <1>2 DEF ProposalAccount, WithOracles
  <1>4. q \in ProposalAccount /\ q.version = r.version /\ q.offchain = r.offchain
        /\ q.f = r.f /\ q.oracles = list /\ q.finalized = r.finalized
    BY <1>2, <1>3 DEF ProposalAccount
  <1> QED  BY <1>2, <1>4, Zenon

(* The program sorts the oracles and keeps their keys. *)
LEMMA ProposeConfigInv == ASSUME DigestsInv, proposeConfig PROVE DigestsInv'
  <1>1. /\ pc = "config" /\ state' = state /\ given' = given /\ chunks' = chunks
        /\ \/ pc' = "failed"
           \/ IgnoredStep
           \/ /\ pc' = "payees" /\ ignored' = ignored
              /\ proposal # absent /\ ~proposal.finalized
              /\ \E sorted \in SortedBySigner(given.oracles) :
                   proposal' = [proposal EXCEPT
                     !.f = given.f,
                     !.oracles = [i \in DOMAIN sorted |->
                         [signer |-> sorted[i].signer,
                          transmitter |-> sorted[i].transmitter,
                          payee |-> 0]]]
    BY DEF proposeConfig, Outcomes, Writable, IgnoredStep
  <1>2. StateInv'  BY <1>1, SameStateInv DEF DigestsInv
  <1>3. CASE pc' = "failed"  BY <1>2, <1>3, FailedInv
  <1>5. CASE IgnoredStep  BY <1>5, IgnoredInv
  <1>4. CASE /\ pc' = "payees" /\ ignored' = ignored
             /\ proposal # absent /\ ~proposal.finalized
             /\ \E sorted \in SortedBySigner(given.oracles) :
                  proposal' = [proposal EXCEPT
                    !.f = given.f,
                    !.oracles = [i \in DOMAIN sorted |->
                        [signer |-> sorted[i].signer,
                         transmitter |-> sorted[i].transmitter,
                         payee |-> 0]]]
    <2>1. /\ given \in Given /\ chunks \in Seq(Seq(Int))
          /\ ~ignored => proposal.offchain \o FlattenSeq(chunks) = given.bytes
          /\ proposal \in ProposalAccount /\ proposal.version = given.version
      BY <1>1, <1>4 DEF DigestsInv, ChunksInv, ProposalInv, StagedInv
    <2>2. PICK os \in Seq([signer : Nat, transmitter : Nat]), f \in Nat :
            os = given.oracles /\ f = given.f
      BY <2>1, GivenType
    <2>3. PICK sorted \in SortedBySigner(os) :
            proposal' = [proposal EXCEPT
              !.f = f,
              !.oracles = [i \in DOMAIN sorted |->
                  [signer |-> sorted[i].signer,
                   transmitter |-> sorted[i].transmitter, payee |-> 0]]]
      BY <1>1, <1>4, <2>2
    <2>4. PICK list : list = [i \in DOMAIN sorted |->
                  [signer |-> sorted[i].signer,
                   transmitter |-> sorted[i].transmitter, payee |-> 0]]
      OBVIOUS
    <2>5. /\ DOMAIN sorted = 1..Len(os) /\ Len(os) \in Nat
          /\ ToSet(sorted) = ToSet(os)
          /\ \A i \in 1..Len(os) : sorted[i].signer \in Int
                                   /\ sorted[i].transmitter \in Int
      <3>1. sorted \in [DOMAIN os -> ToSet(os)] /\ ToSet(sorted) = ToSet(os)
        BY Zenon DEF SortedBySigner
      <3>2. DOMAIN os = 1..Len(os) /\ Len(os) \in Nat  OBVIOUS
      <3>3. \A o \in ToSet(os) : o \in [signer : Nat, transmitter : Nat]
        <4> SUFFICES ASSUME NEW o \in ToSet(os)
                     PROVE  o \in [signer : Nat, transmitter : Nat]
          OBVIOUS
        <4>1. PICK i \in DOMAIN os : o = os[i]  BY Zenon DEF ToSet
        <4>2. PICK S : S = [signer : Nat, transmitter : Nat]  OBVIOUS
        <4>3. os \in Seq(S)  BY <4>2, Zenon
        <4>4. os[i] \in S  BY <4>3
        <4> QED  BY <4>1, <4>2, <4>4, Zenon
      <3>4. \A o \in ToSet(os) : o.signer \in Int /\ o.transmitter \in Int
        BY <3>3
      <3> QED  BY <3>1, <3>2, <3>4
    <2>6. list \in Seq(OracleEntry)
      <3>1. list = [i \in 1..Len(os) |->
                     [signer |-> sorted[i].signer,
                      transmitter |-> sorted[i].transmitter, payee |-> 0]]
        BY <2>4, <2>5, Zenon
      <3>2. \A i \in 1..Len(os) : [signer |-> sorted[i].signer,
                     transmitter |-> sorted[i].transmitter, payee |-> 0] \in OracleEntry
        BY <2>5 DEF OracleEntry
      <3> QED  BY <2>5, <3>1, <3>2
    <2>7. KeysOf(list) = KeysOf(os)
      <3>1. DOMAIN list = DOMAIN sorted  BY <2>4, Zenon
      <3>2. \A i \in DOMAIN sorted : list[i].signer = sorted[i].signer
              /\ list[i].transmitter = sorted[i].transmitter
        BY <2>4
      <3>3. KeysOf(list) = KeysOf(sorted)
        BY <3>1, <3>2, KeysAt
      <3> QED  BY <2>5, <3>3, Zenon DEF KeysOf
    <2>8. proposal' = [proposal EXCEPT !.f = f, !.oracles = list]
      BY <2>3, <2>4, Zenon
    <2>9. /\ proposal' \in ProposalAccount /\ proposal'.version = proposal.version
          /\ proposal'.offchain = proposal.offchain
          /\ proposal'.f = f /\ proposal'.oracles = list
          /\ proposal'.finalized = proposal.finalized
      <3>1. PICK p \in ProposalAccount, q \in {proposal'} :
             p = proposal /\ q = proposal'
        BY <2>1
      <3>2. WithOracles(p, f, list, q)  BY <2>8, <3>1, Zenon DEF WithOracles
      <3>3. /\ q \in ProposalAccount /\ q.version = p.version
            /\ q.offchain = p.offchain /\ q.f = f /\ q.oracles = list
            /\ q.finalized = p.finalized
        <4>1. PICK S, N : S = Seq(OracleEntry) /\ N = Nat  OBVIOUS
        <4>2. \A u \in ProposalAccount : \A l \in S : \A n \in N : \A v :
                WithOracles(u, n, l, v) =>
                  /\ v \in ProposalAccount /\ v.version = u.version
                  /\ v.offchain = u.offchain /\ v.f = n /\ v.oracles = l
                  /\ v.finalized = u.finalized
          BY <4>1, OraclesProposed, ZenonT(40)
        <4>3. list \in S /\ f \in N  BY <2>6, <4>1, Zenon
        <4>4. p \in ProposalAccount  BY <3>1
        <4>5. WithOracles(p, f, list, q) =>
                  /\ q \in ProposalAccount /\ q.version = p.version
                  /\ q.offchain = p.offchain /\ q.f = f /\ q.oracles = list
                  /\ q.finalized = p.finalized
          BY <4>2, <4>3, <4>4
        <4> QED  BY <3>2, <4>5
      <3> QED  BY <3>1, <3>3
    <2>10. ProposalInv'
      <3>1. KeysOf(proposal'.oracles) = KeysOf(given.oracles)
        BY <2>2, <2>7, <2>9, Zenon
      <3>2. proposal'.f = given'.f /\ proposal'.version = given'.version
            /\ KeysOf(proposal'.oracles) = KeysOf(given'.oracles)
        BY <1>1, <2>1, <2>2, <2>9, <3>1, Zenon
      <3>3. ~proposal'.finalized  BY <1>4, <2>9, Zenon
      <3> HIDE DEF KeysOf
      <3>4. StagedInv'  BY <2>9, <3>2, <3>3 DEF StagedInv, AsGiven
      <3> QED  BY <1>4, <3>4 DEF ProposalInv
    <2>11. ChunksInv'
      BY <1>1, <1>4, <2>1, <2>9 DEF ChunksInv
    <2> QED  BY <1>1, <1>2, <1>4, <2>1, <2>10, <2>11 DEF DigestsInv, DoneInv
  <1> QED  BY <1>1, <1>3, <1>4, <1>5, Zenon

(* The payees of all the oracles are one account. *)
LEMMA ProposePayeesInv == ASSUME DigestsInv, proposePayees PROVE DigestsInv'
  <1>1. /\ pc = "payees" /\ state' = state /\ given' = given /\ chunks' = chunks
        /\ \/ pc' = "failed"
           \/ IgnoredStep
           \/ /\ pc' = "write" /\ ignored' = ignored
              /\ proposal # absent /\ ~proposal.finalized
              /\ proposal' = [proposal EXCEPT
                   !.oracles = [i \in DOMAIN @ |-> [@[i] EXCEPT !.payee = PAYEE]],
                   !.token_mint = MINT]
    BY DEF proposePayees, Outcomes, Writable, IgnoredStep
  <1>2. StateInv'  BY <1>1, SameStateInv DEF DigestsInv
  <1>3. CASE pc' = "failed"  BY <1>2, <1>3, FailedInv
  <1>5. CASE IgnoredStep  BY <1>5, IgnoredInv
  <1>4. CASE /\ pc' = "write" /\ ignored' = ignored
             /\ proposal # absent /\ ~proposal.finalized
             /\ proposal' = [proposal EXCEPT
                  !.oracles = [i \in DOMAIN @ |-> [@[i] EXCEPT !.payee = PAYEE]],
                  !.token_mint = MINT]
    <2>1. /\ given \in Given /\ chunks \in Seq(Seq(Int))
          /\ ~ignored => proposal.offchain \o FlattenSeq(chunks) = given.bytes
          /\ proposal \in ProposalAccount /\ proposal.version = given.version
          /\ proposal.oracles # <<>> => AsGiven(proposal)
      BY <1>1, <1>4 DEF DigestsInv, ChunksInv, ProposalInv, StagedInv
    <2>2. PICK os \in Seq(OracleEntry) : os = proposal.oracles
      BY <2>1 DEF ProposalAccount
    <2>3. PICK list : list = [i \in DOMAIN os |-> [os[i] EXCEPT !.payee = PAYEE]]
      OBVIOUS
    <2>4. proposal' = [proposal EXCEPT !.oracles = list, !.token_mint = MINT]
      BY <1>1, <1>4, <2>1, <2>2, <2>3 DEF ProposalAccount
    <2>5. /\ DOMAIN os = 1..Len(os) /\ Len(os) \in Nat
          /\ \A i \in 1..Len(os) : os[i] \in OracleEntry
      OBVIOUS
    <2>6. PAYEE \in Int /\ MINT \in Int  BY DEF PAYEE, MINT
    <2>7. \A i \in 1..Len(os) :
            /\ [os[i] EXCEPT !.payee = PAYEE] \in OracleEntry
            /\ [os[i] EXCEPT !.payee = PAYEE].signer = os[i].signer
            /\ [os[i] EXCEPT !.payee = PAYEE].transmitter = os[i].transmitter
      BY <2>5, <2>6 DEF OracleEntry
    <2>8. list \in Seq(OracleEntry)
      <3>1. list = [i \in 1..Len(os) |-> [os[i] EXCEPT !.payee = PAYEE]]
        BY <2>3, <2>5, Zenon
      <3> QED  BY <2>5, <2>7, <3>1
    <2>9. KeysOf(list) = KeysOf(os)
      <3>1. DOMAIN list = DOMAIN os  BY <2>3, Zenon
      <3>2. \A i \in DOMAIN os : list[i].signer = os[i].signer
              /\ list[i].transmitter = os[i].transmitter
        BY <2>3, <2>5, <2>7, Zenon
      <3> QED  BY <3>1, <3>2, KeysAt
    <2>10. /\ proposal' \in ProposalAccount /\ proposal'.version = proposal.version
           /\ proposal'.offchain = proposal.offchain
           /\ proposal'.f = proposal.f /\ proposal'.oracles = list
           /\ proposal'.finalized = proposal.finalized
      BY <2>1, <2>4, <2>6, <2>8 DEF ProposalAccount
    <2>11. ProposalInv'
      <3>1. proposal'.oracles # <<>> => proposal.oracles # <<>>
        BY <2>2, <2>3, <2>5, <2>10
      <3>2. proposal.oracles # <<>> =>
              /\ KeysOf(proposal'.oracles) = KeysOf(given'.oracles)
              /\ proposal'.f = given'.f /\ proposal'.version = given'.version
        BY <1>1, <2>1, <2>2, <2>9, <2>10, Zenon DEF AsGiven
      <3>3. ~proposal'.finalized  BY <1>4, <2>10, Zenon
      <3>4. proposal'.version = given'.version  BY <1>1, <2>1, <2>10, Zenon
      <3> HIDE DEF KeysOf
      <3>5. StagedInv'
        BY <2>10, <3>1, <3>2, <3>3, <3>4 DEF StagedInv, AsGiven
      <3> QED  BY <1>4, <3>5 DEF ProposalInv
    <2>12. ChunksInv'
      BY <1>1, <1>4, <2>1, <2>10 DEF ChunksInv
    <2> QED  BY <1>1, <1>2, <1>4, <2>1, <2>11, <2>12 DEF DigestsInv, DoneInv
  <1> QED  BY <1>1, <1>3, <1>4, <1>5, Zenon

(* The next chunk follows what was written. *)
LEMMA WriteInv == ASSUME DigestsInv, writeOffchainConfig PROVE DigestsInv'
  <1>1. /\ pc = "write" /\ chunks # <<>> /\ state' = state /\ given' = given
        /\ chunks' = Tail(chunks)
        /\ \/ pc' = "failed"
           \/ IgnoredStep
           \/ /\ pc' = "write" /\ ignored' = ignored
              /\ proposal # absent /\ ~proposal.finalized
              /\ proposal' = [proposal EXCEPT !.offchain = @ \o Head(chunks)]
    BY DEF writeOffchainConfig, Outcomes, Writable, IgnoredStep
  <1>2. StateInv'  BY <1>1, SameStateInv DEF DigestsInv
  <1>3. CASE pc' = "failed"  BY <1>2, <1>3, FailedInv
  <1>5. CASE IgnoredStep  BY <1>5, IgnoredInv
  <1>4. CASE /\ pc' = "write" /\ ignored' = ignored
             /\ proposal # absent /\ ~proposal.finalized
             /\ proposal' = [proposal EXCEPT !.offchain = @ \o Head(chunks)]
    <2>1. /\ given \in Given /\ chunks \in Seq(Seq(Int))
          /\ ~ignored => proposal.offchain \o FlattenSeq(chunks) = given.bytes
          /\ proposal \in ProposalAccount /\ proposal.version = given.version
          /\ proposal.oracles # <<>> => AsGiven(proposal)
      BY <1>1, <1>4 DEF DigestsInv, ChunksInv, ProposalInv, StagedInv
    <2>2. PICK p \in ProposalAccount, q \in {proposal'} :
             p = proposal /\ q = proposal'  BY <2>1
    <2>3. p.offchain \in Seq(Int)  BY DEF ProposalAccount
    <2>4. PICK T : T = Seq(Int)  OBVIOUS
    <2>5. PICK cs \in Seq(T) : cs = chunks /\ cs # <<>>
      BY <1>1, <2>1, <2>4, Zenon
    <2>6. PICK h \in T, t \in Seq(T) : h = Head(cs) /\ t = Tail(cs)
      <3>1. cs \in Seq(T) /\ cs # <<>>  BY <2>5
      <3>2. Head(cs) \in T /\ Tail(cs) \in Seq(T)
        BY <3>1, HeadTailProperties, Zenon
      <3> QED  BY <3>2, Zenon
    <2>7. FlattenSeq(cs) = h \o FlattenSeq(t)
      <3>1. <<h>> \o t = cs
        <4>1. Len(cs) \in Nat /\ Len(cs) # 0 /\ Len(t) = Len(cs) - 1 /\ h = cs[1]
          BY <2>5, <2>6
        <4>2. \A i \in 1..Len(t) : t[i] = cs[i + 1]  BY <2>5, <2>6
        <4>3. PICK u : u = <<h>> \o t  OBVIOUS
        <4>4. /\ u \in Seq(T) /\ Len(u) = Len(cs) /\ u[1] = h
              /\ \A i \in 1..Len(t) : u[i + 1] = t[i]
          BY <4>1, <4>3
        <4>5. \A i \in 1..Len(cs) : u[i] = cs[i]
          <5> SUFFICES ASSUME NEW i \in 1..Len(cs) PROVE u[i] = cs[i]  OBVIOUS
          <5>1. CASE i = 1  BY <4>1, <4>4, <5>1
          <5>2. CASE i # 1
            <6>1. i - 1 \in 1..Len(t) /\ (i - 1) + 1 = i  BY <4>1, <5>2
            <6>2. u[(i - 1) + 1] = t[i - 1] /\ t[i - 1] = cs[(i - 1) + 1]
              BY <4>2, <4>4, <6>1, Zenon
            <6> QED  BY <6>1, <6>2
          <5> QED  BY <5>1, <5>2
        <4>6. u = cs  BY <4>4, <4>5, SeqEqual
        <4> QED  BY <4>3, <4>6
      <3>2. <<h>> \in Seq(Seq(Int)) /\ t \in Seq(Seq(Int)) /\ h \in Seq(Int)
        <4>1. <<h>> \in Seq(T)  OBVIOUS
        <4> QED  BY <2>4, <4>1, Zenon
      <3>3. FlattenSeq(<<h>> \o t) = FlattenSeq(<<h>>) \o FlattenSeq(t)
        BY <3>2, FlattenConcat, Zenon
      <3>4. FlattensFew(h, h, h, h)  BY <3>2, FlattenSome, Zenon
      <3> QED  BY <3>1, <3>3, <3>4, Zenon DEF FlattensFew
    <2>8. t \in Seq(Seq(Int)) /\ h \in Seq(Int) /\ FlattenSeq(t) \in Seq(Int)
      <3>1. t \in Seq(Seq(Int)) /\ h \in Seq(Int)  BY <2>4, Zenon
      <3> QED  BY <3>1, FlattenType, Zenon
    <2>9. PICK b \in Seq(Int), c \in Seq(Int) : b = p.offchain /\ c = FlattenSeq(t)
      BY <2>3, <2>8, Zenon
    <2>10. (b \o h) \o c = b \o (h \o c) /\ b \o h \in Seq(Int)
      BY <2>8, Joined, Zenon
    <2>11. q = [p EXCEPT !.offchain = b \o h]
      BY <1>1, <1>4, <2>2, <2>5, <2>6, <2>9 DEF ProposalAccount
    <2>12. /\ q \in ProposalAccount /\ q.offchain = b \o h
           /\ q.version = p.version /\ q.f = p.f /\ q.oracles = p.oracles
           /\ q.finalized = p.finalized
      <3>1. PICK d \in Seq(Int) : d = b \o h  BY <2>10, Zenon
      <3>2. q = [p EXCEPT !.offchain = d]  BY <2>11, <3>1, Zenon
      <3>3. /\ q \in ProposalAccount /\ q.offchain = d
            /\ q.version = p.version /\ q.f = p.f /\ q.oracles = p.oracles
            /\ q.finalized = p.finalized
        BY <3>2 DEF ProposalAccount
      <3> QED  BY <3>1, <3>3
    <2>13. ChunksInv'
      <3>1. chunks' = t  BY <1>1, <2>5, <2>6, Zenon
      <3>2. ~ignored => q.offchain \o FlattenSeq(t) = given.bytes
        <4> SUFFICES ASSUME ~ignored PROVE q.offchain \o FlattenSeq(t) = given.bytes
          OBVIOUS
        <4>1. b \o (h \o c) = given.bytes  BY <2>1, <2>2, <2>5, <2>7, <2>9, Zenon
        <4>2. q.offchain \o FlattenSeq(t) = (b \o h) \o c  BY <2>9, <2>12
        <4> QED  BY <2>10, <4>1, <4>2
      <3>3. /\ chunks' \in Seq(Seq(Int))
            /\ ~ignored =>
                 proposal'.offchain \o FlattenSeq(chunks') = given'.bytes
        BY <1>1, <2>2, <2>8, <3>1, <3>2, Zenon
      <3> QED  BY <1>4, <3>3 DEF ChunksInv
    <2>14. ProposalInv'
      <3>1. /\ proposal' \in ProposalAccount
            /\ proposal'.version = given'.version /\ ~proposal'.finalized
            /\ proposal'.oracles # <<>> =>
                 /\ proposal'.f = given'.f
                 /\ KeysOf(proposal'.oracles) = KeysOf(given'.oracles)
        BY <1>1, <1>4, <2>1, <2>2, <2>12, Zenon DEF AsGiven
      <3> HIDE DEF KeysOf
      <3>2. StagedInv'  BY <3>1 DEF StagedInv, AsGiven
      <3> QED  BY <1>4, <3>2 DEF ProposalInv
    <2> QED  BY <1>1, <1>2, <1>4, <2>1, <2>13, <2>14 DEF DigestsInv, DoneInv
  <1> QED  BY <1>1, <1>3, <1>4, <1>5, Zenon

(* When there is nothing left to write, everything was written. *)
LEMMA FinalizeInv == ASSUME DigestsInv, finalizeOffChainConfig PROVE DigestsInv'
  <1>1. /\ pc = "write" /\ chunks = <<>> /\ state' = state /\ given' = given
        /\ \/ pc' = "failed"
           \/ IgnoredStep
           \/ /\ pc' = "digest" /\ ignored' = ignored
              /\ proposal # absent /\ proposal.oracles # <<>>
              /\ proposal' = [proposal EXCEPT !.finalized = TRUE]
    BY DEF finalizeOffChainConfig, Outcomes, Writable, IgnoredStep
  <1>2. StateInv'  BY <1>1, SameStateInv DEF DigestsInv
  <1>3. CASE pc' = "failed"  BY <1>2, <1>3, FailedInv
  <1>5. CASE IgnoredStep  BY <1>5, IgnoredInv
  <1>4. CASE /\ pc' = "digest" /\ ignored' = ignored
             /\ proposal # absent /\ proposal.oracles # <<>>
             /\ proposal' = [proposal EXCEPT !.finalized = TRUE]
    <2>1. /\ given \in Given
          /\ ~ignored => proposal.offchain \o FlattenSeq(chunks) = given.bytes
          /\ proposal \in ProposalAccount /\ proposal.version = given.version
          /\ proposal.oracles # <<>> => AsGiven(proposal)
      BY <1>1, <1>4 DEF DigestsInv, ChunksInv, ProposalInv, StagedInv
    <2>2. PICK p \in ProposalAccount, q \in {proposal'} :
             p = proposal /\ q = proposal'  BY <2>1
    <2>3. q = [p EXCEPT !.finalized = TRUE]  BY <1>1, <1>4, <2>2
    <2>4. /\ q \in ProposalAccount /\ q.offchain = p.offchain
          /\ q.version = p.version /\ q.f = p.f /\ q.oracles = p.oracles
      BY <2>3 DEF ProposalAccount
    <2>5. ~ignored => p.offchain = given.bytes
      <3>1. FlattenSeq(<<>>) = <<>>  BY DEF FlattenSeq
      <3>2. PICK b \in Seq(Int) : b = p.offchain  BY DEF ProposalAccount
      <3>3. b \o <<>> = b  OBVIOUS
      <3> QED  BY <1>1, <2>1, <2>2, <3>1, <3>2, <3>3, Zenon
    <2>6. ProposalInv'
      <3>1. /\ proposal' \in ProposalAccount
            /\ ~ignored => proposal'.offchain = given'.bytes
            /\ proposal'.version = given'.version /\ proposal'.f = given'.f
            /\ proposal'.oracles # <<>>
            /\ KeysOf(proposal'.oracles) = KeysOf(given'.oracles)
        BY <1>1, <1>4, <2>1, <2>2, <2>4, <2>5, Zenon DEF AsGiven
      <3> HIDE DEF KeysOf
      <3>2. StagedInv'  BY <3>1 DEF StagedInv, AsGiven
      <3> QED  BY <1>4, <3>1, <3>2 DEF ProposalInv
    <2> QED
      BY <1>1, <1>2, <1>4, <2>1, <2>6 DEF DigestsInv, ChunksInv, DoneInv
  <1> QED  BY <1>1, <1>3, <1>4, <1>5, Zenon

(* The owner computes the digest of the account. *)
LEMMA FetchInv == ASSUME DigestsInv, FetchAndDigest PROVE DigestsInv'
  <1>1. /\ pc = "digest" /\ given' = given /\ proposal' = proposal
        /\ state' = state /\ ignored' = ignored
        /\ \/ pc' = "failed"
           \/ /\ pc' = "accept" /\ proposal # absent
              /\ digest' = makeDigest(proposal)
    BY DEF FetchAndDigest
  <1>2. StateInv'  BY <1>1, SameStateInv DEF DigestsInv
  <1>3. CASE pc' = "failed"  BY <1>2, <1>3, FailedInv
  <1>4. CASE /\ pc' = "accept" /\ proposal # absent
             /\ digest' = makeDigest(proposal)
    <2>1. given \in Given /\ StagedInv
          /\ (~ignored => proposal.offchain = given.bytes)
      BY <1>1, <1>4 DEF DigestsInv, ProposalInv
    <2>2. digest' = makeDigest(proposal')  BY <1>1, <1>4, Zenon
    <2>3. StagedInv'  BY <1>1, <2>1, Zenon DEF StagedInv, AsGiven, KeysOf
    <2>4. ProposalInv'
      <3> HIDE DEF makeDigest
      <3> QED  BY <1>1, <1>4, <2>1, <2>2, <2>3 DEF ProposalInv
    <2> QED  BY <1>1, <1>2, <1>4, <2>1, <2>4 DEF DigestsInv, ChunksInv, DoneInv
  <1> QED  BY <1>1, <1>3, <1>4

(* r is the state st with the fields of the proposal p. *)
WithConfig(st, p, r) ==
  r = [st EXCEPT !.f = p.f, !.oracles = p.oracles, !.version = p.version,
                 !.offchain = p.offchain, !.config_count = @ + 1]

(* The fields of a proposal in a state account. *)
LEMMA Configured ==
  ASSUME NEW st \in StateAccount, NEW p \in ProposalAccount,
         NEW r, WithConfig(st, p, r)
  PROVE  /\ r \in StateAccount /\ r.f = p.f /\ r.oracles = p.oracles
         /\ r.version = p.version /\ r.offchain = p.offchain
  <1>1. PICK X : X = {absent} \cup [prefix : {3}, of : Seq(Int)]  OBVIOUS
  <1>2. StateAccount =
          [min_answer : Int, max_answer : Int, f : Int, config_count : Int,
           oracles : Seq(OracleEntry), version : Int, offchain : Seq(Int),
           latest_config_digest : X]
    BY <1>1, Zenon DEF StateAccount
  <1>3. PICK f \in Int, os \in Seq(OracleEntry), v \in Int, b \in Seq(Int) :
          f = p.f /\ os = p.oracles /\ v = p.version /\ b = p.offchain
    BY DEF ProposalAccount
  <1>4. PICK q : q = [st EXCEPT !.f = f, !.oracles = os]  OBVIOUS
  <1>5. q \in StateAccount /\ q.f = f /\ q.oracles = os /\ q.config_count \in Int
        /\ q.config_count = st.config_count
    <2>1. PICK u : u = [st EXCEPT !.f = f]  OBVIOUS
    <2>2. u \in StateAccount /\ u.f = f /\ u.config_count = st.config_count
      BY <1>2, <2>1
    <2>3. q = [u EXCEPT !.oracles = os]  BY <1>2, <1>4, <2>1
    <2> QED  BY <1>2, <2>2, <2>3
  <1>6. PICK t : t = [q EXCEPT !.version = v, !.offchain = b]  OBVIOUS
  <1>7. /\ t \in StateAccount /\ t.f = f /\ t.oracles = os /\ t.version = v
        /\ t.offchain = b /\ t.config_count = st.config_count
    <2>1. PICK u : u = [q EXCEPT !.version = v]  OBVIOUS
    <2>2. /\ u \in StateAccount /\ u.f = f /\ u.oracles = os /\ u.version = v
          /\ u.config_count = st.config_count
      BY <1>2, <1>5, <2>1
    <2>3. t = [u EXCEPT !.offchain = b]  BY <1>2, <1>5, <1>6, <2>1
    <2> QED  BY <1>2, <2>2, <2>3
  <1>8. PICK c \in Int : c = st.config_count + 1  BY <1>2
  <1>9. r = [t EXCEPT !.config_count = c]
    BY <1>2, <1>3, <1>4, <1>6, <1>8 DEF WithConfig
  <1>10. /\ r \in StateAccount /\ r.f = f /\ r.oracles = os /\ r.version = v
         /\ r.offchain = b
    BY <1>2, <1>7, <1>9
  <1> QED  BY <1>3, <1>10

(* The program puts the proposal in force and computes its digest. *)
LEMMA AcceptInv == ASSUME DigestsInv, acceptProposal PROVE DigestsInv'
  <1> DEFINE s == [state EXCEPT
                     !.f = proposal.f, !.oracles = proposal.oracles,
                     !.version = proposal.version,
                     !.offchain = proposal.offchain,
                     !.config_count = @ + 1]
             accepted == [s EXCEPT !.latest_config_digest = config_digest_from_data(s)]
  <1>1. /\ pc = "accept" /\ given' = given
        /\ \/ pc' = "failed" /\ state' = state
           \/ /\ pc' = "done" /\ state' = state /\ ignored' = TRUE
              /\ state.oracles = <<>>
           \/ /\ pc' \in {"failed", "done"} /\ state' = accepted
              /\ ignored' = ignored /\ proposal # absent /\ proposal.finalized
    BY DEF acceptProposal, Outcomes
  <1>2. CASE pc' = "failed" /\ state' = state
    BY <1>2, SameStateInv, FailedInv DEF DigestsInv
  <1>4. CASE /\ pc' = "done" /\ state' = state /\ ignored' = TRUE
             /\ state.oracles = <<>>
    <2>1. StateInv'  BY <1>4, SameStateInv DEF DigestsInv
    <2>2. DoneInv'  BY <1>4 DEF DoneInv
    <2> QED  BY <1>4, <2>1, <2>2 DEF DigestsInv, ChunksInv, ProposalInv
  <1>3. CASE /\ pc' \in {"failed", "done"} /\ state' = accepted
             /\ ignored' = ignored /\ proposal # absent /\ proposal.finalized
    <2>1. /\ state \in StateAccount /\ given \in Given
          /\ proposal \in ProposalAccount
          /\ ~ignored => proposal.offchain = given.bytes
          /\ proposal.version = given.version /\ proposal.f = given.f
          /\ KeysOf(proposal.oracles) = KeysOf(given.oracles)
      BY <1>1, <1>3 DEF DigestsInv, ProposalInv, StagedInv, AsGiven, StateInv
    <2>2. PICK st \in StateAccount, p \in ProposalAccount : st = state /\ p = proposal
      BY <2>1
    <2>3. PICK r : r = [st EXCEPT
                     !.f = p.f, !.oracles = p.oracles, !.version = p.version,
                     !.offchain = p.offchain, !.config_count = @ + 1]
      OBVIOUS
    <2>4. s = r  BY <2>2, <2>3, Zenon
    <2>5. /\ r \in StateAccount /\ r.f = p.f /\ r.oracles = p.oracles
          /\ r.version = p.version /\ r.offchain = p.offchain
      <3>1. WithConfig(st, p, r)  BY <2>3, Zenon DEF WithConfig
      <3> QED  BY <3>1, Configured, Zenon
    <2>6. /\ ConfigDigest(ConfigFromState(r)) = config_digest_from_data(r)
          /\ config_digest_from_data(r) \in [prefix : {3}, of : Seq(Int)]
      BY <2>5, SameConfigDigest
    <2>7. PICK d \in [prefix : {3}, of : Seq(Int)] : d = config_digest_from_data(r)
      BY <2>6
    <2>8. PICK a : a = [r EXCEPT !.latest_config_digest = d]  OBVIOUS
    <2>9. /\ a \in StateAccount /\ a.f = r.f /\ a.oracles = r.oracles
          /\ a.version = r.version /\ a.offchain = r.offchain
          /\ a.latest_config_digest = d
          /\ ConfigFromState(a) = ConfigFromState(r)
      <3>1. PICK X : X = {absent} \cup [prefix : {3}, of : Seq(Int)] /\ d \in X
        OBVIOUS
      <3>2. StateAccount =
              [min_answer : Int, max_answer : Int, f : Int, config_count : Int,
               oracles : Seq(OracleEntry), version : Int, offchain : Seq(Int),
               latest_config_digest : X]
        BY <3>1, Zenon DEF StateAccount
      <3>3. /\ a \in StateAccount /\ a.f = r.f /\ a.oracles = r.oracles
            /\ a.version = r.version /\ a.offchain = r.offchain
            /\ a.config_count = r.config_count
            /\ a.min_answer = r.min_answer /\ a.max_answer = r.max_answer
            /\ a.latest_config_digest = d
        BY <2>5, <2>8, <3>1, <3>2
      <3>4. ConfigFromState(a) = ConfigFromState(r)
        BY <3>3, Zenon DEF ConfigFromState
      <3> QED  BY <3>3, <3>4
    <2>10. state' = a
      <3>1. accepted = a  BY <2>4, <2>7, <2>8, Zenon
      <3> HIDE DEF accepted
      <3> QED  BY <1>3, <3>1
    <2> HIDE DEF s, accepted
    <2>11. StateInv'
      <3>1. ConfigDigest(ConfigFromState(a)) = a.latest_config_digest
        BY <2>6, <2>7, <2>9
      <3>2. /\ state' \in StateAccount
            /\ ConfigDigest(ConfigFromState(state')) = state'.latest_config_digest
        BY <2>9, <2>10, <3>1, Zenon
      <3> QED  BY <3>2, Zenon DEF StateInv
    <2>12. DoneInv'
      <3>1. /\ ~ignored => state'.offchain = given'.bytes
            /\ state'.version = given'.version
            /\ state'.f = given'.f /\ KeysOf(state'.oracles) = KeysOf(given'.oracles)
        BY <1>1, <2>1, <2>2, <2>5, <2>9, <2>10, Zenon
      <3> QED  BY <1>3, <3>1, Zenon DEF DoneInv, AsGiven, KeysOf
    <2> QED
      BY <1>3, <2>11, <2>12 DEF DigestsInv, ChunksInv, ProposalInv
  <1> QED  BY <1>1, <1>2, <1>3, <1>4, Zenon

(* Every step of Configure. *)
LEMMA DigestsNextInv == DigestsInv /\ [DigestsNext]_digestVars => DigestsInv'
  <1> SUFFICES ASSUME DigestsInv, [DigestsNext]_digestVars PROVE DigestsInv'
    OBVIOUS
  <1>1. ASSUME NEW g \in Given, Configure(g) PROVE DigestsInv'
    BY <1>1, ConfigureInv
  <1>2. CASE createProposal  BY <1>2, CreateInv
  <1>3. CASE proposeConfig  BY <1>3, ProposeConfigInv
  <1>4. CASE proposePayees  BY <1>4, ProposePayeesInv
  <1>5. CASE writeOffchainConfig  BY <1>5, WriteInv
  <1>6. CASE finalizeOffChainConfig  BY <1>6, FinalizeInv
  <1>7. CASE FetchAndDigest  BY <1>7, FetchInv
  <1>8. CASE acceptProposal  BY <1>8, AcceptInv
  <1>9. ASSUME NEW min \in Answers, NEW max \in Answers, Deploy(min, max)
        PROVE  DigestsInv'
    <2>1. min \in Int /\ max \in Int
      BY DigestsAssumption DEF DigestsAssumption
    <2>2. pc' = "idle" /\ state' = NewState(min, max)  BY <1>9 DEF Deploy
    <2> QED  BY <2>1, <2>2, NewStateInv, FailedInv
  <1>10. CASE Again
    <2>1. pc' = "idle" /\ state' = state  BY <1>10 DEF Again
    <2> QED  BY <2>1, SameStateInv, FailedInv DEF DigestsInv
  <1>11. CASE UNCHANGED digestVars
    <2>1. /\ pc' = pc /\ given' = given /\ chunks' = chunks
          /\ proposal' = proposal /\ state' = state /\ digest' = digest
          /\ ignored' = ignored
      BY <1>11 DEF digestVars
    <2> QED
      BY <2>1, Zenon
         DEF DigestsInv, StateInv, ChunksInv, ProposalInv, StagedInv, DoneInv,
             AsGiven, KeysOf
  <1> QED
    BY <1>1, <1>2, <1>3, <1>4, <1>5, <1>6, <1>7, <1>8, <1>9, <1>10, <1>11
       DEF DigestsNext

(***************************************************************************)
(* The configuration in force is the one given, and Go and Rust agree on   *)
(* its digests: when the owner accepts, what makeDigest of                 *)
(* integration-tests/solclient/ocr2.go computed is Proposal::digest of the *)
(* account; once a configuration is accepted, the digest that              *)
(* OffchainConfigDigester.ConfigDigest computes of the state read back is  *)
(* the one config_digest_from_data stored; and when Configure reports      *)
(* success and none of its transactions failed on chain, the state holds   *)
(* the oracles, f, version and off-chain bytes that it was called with,    *)
(* for every configuration, size of chunk, capacity and range of answers,  *)
(* whatever failed before. When TXSync hid a transaction that failed on    *)
(* chain, oracles in force after success still are the ones given.         *)
(***************************************************************************)
THEOREM ConfigurationsAgree == DigestsSpec => []ConfiguredAsGiven
  <1>1. DigestsInv => ConfiguredAsGiven
    <2> SUFFICES ASSUME DigestsInv PROVE ConfiguredAsGiven  OBVIOUS
    <2>1. pc = "accept" => digest = ProposalDigest(proposal)
      BY SameProposalDigest, Zenon DEF DigestsInv, ProposalInv, StagedInv
    <2>2. state.config_count > 0 =>
             ConfigDigest(ConfigFromState(state)) = state.latest_config_digest
      BY Zenon DEF DigestsInv, StateInv
    <2>3. pc = "done" =>
             /\ state.oracles # <<>> => OraclesAsGiven
             /\ ~ignored => state.offchain = given.bytes /\ OraclesAsGiven
      BY Zenon DEF DigestsInv, DoneInv, AsGiven, KeysOf, OraclesAsGiven
    <2> QED  BY <2>1, <2>2, <2>3, Zenon DEF ConfiguredAsGiven
  <1> QED  BY <1>1, DigestsStart, DigestsNextInv, PTL DEF DigestsSpec
=============================================================================
