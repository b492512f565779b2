----------------------------- MODULE HarnessProofs -----------------------------
(***************************************************************************)
(* The reports of kvrt/eval, for all experiments: how a run proceeds, what *)
(* its prefills and its pressure do to the pool, that the harm report adds *)
(* up, that granted ranges outlive a run if the plan leaves a block of the *)
(* pool, and that the plans of the oracles bound what any policy realizes. *)
(***************************************************************************)
EXTENDS Harness, BookkeepingProofs

-----------------------------------------------------------------------------
(* How a report proceeds.                                                  *)

\* What is left of a list that is worked off from its head.
Suffix(t, s) ==
  /\ t \in Seq(ToSet(s)) /\ Len(t) <= Len(s)
  /\ \A i \in 1 .. Len(t) : t[i] = s[Len(s) - Len(t) + i]

LEMMA WholeSuffix ==
  ASSUME NEW S, NEW s \in Seq(S)
  PROVE  Suffix(s, s)
<1>1. s \in Seq(ToSet(s))
  BY DEF ToSet
<1> QED
  BY <1>1 DEF Suffix

LEMMA TailSuffix ==
  ASSUME NEW S, NEW s \in Seq(S), NEW t, Suffix(t, s), t # << >>
  PROVE  /\ Suffix(Tail(t), s) /\ Len(t) \in Nat \ {0} /\ Len(Tail(t)) = Len(t) - 1
         /\ Head(t) = s[Len(s) - Len(t) + 1]
<1>1. /\ t \in Seq(ToSet(s)) /\ Len(t) \in Nat \ {0} /\ Len(s) \in Nat
      /\ Tail(t) \in Seq(ToSet(s)) /\ Len(Tail(t)) = Len(t) - 1 /\ Head(t) = t[1]
      /\ \A i \in 1 .. Len(Tail(t)) : Tail(t)[i] = t[i+1]
  BY DEF Suffix
<1>2. /\ Len(t) <= Len(s)
      /\ \A i \in 1 .. Len(t) : t[i] = s[Len(s) - Len(t) + i]
  BY DEF Suffix
<1>3. Head(t) = s[Len(s) - Len(t) + 1]
  BY <1>1, <1>2
<1>4. ASSUME NEW i \in 1 .. Len(Tail(t))
      PROVE  Tail(t)[i] = s[Len(s) - Len(Tail(t)) + i]
  <2>1. i + 1 \in 1 .. Len(t) /\ Tail(t)[i] = t[i+1]
    BY <1>1
  <2>2. t[i+1] = s[Len(s) - Len(t) + (i + 1)]
    BY <1>2, <2>1
  <2>3. Len(s) - Len(t) + (i + 1) = Len(s) - Len(Tail(t)) + i
    BY <1>1
  <2> QED
    BY <2>1, <2>2, <2>3
<1> QED
  BY <1>1, <1>2, <1>3, <1>4 DEF Suffix

Order == experiment.order

\* The claims and their prefixes, one to one.
LEMMA ExperimentFacts ==
  ASSUME experiment \in Experiments
  PROVE  /\ Order \in Seq(Claim) /\ Len(Order) \in Nat /\ DOMAIN Order = 1 .. Len(Order)
         /\ \A i \in 1 .. Len(Order) :
              /\ Order[i] \in Claim /\ Order[i] \in Nat \ {0} /\ Order[i] \in ToSet(Order)
              /\ ClaimedPrefix[Order[i]] \in Prefix /\ ClaimedPrefix[Order[i]] \in Registered
         /\ \A i, j \in 1 .. Len(Order) : ClaimedPrefix[Order[i]] = ClaimedPrefix[Order[j]] => i = j
         /\ \A k \in ToSet(Order) : k \in Claim /\ \E i \in 1 .. Len(Order) : Order[i] = k
         /\ \A p \in Registered : \E i \in 1 .. Len(Order) : p = ClaimedPrefix[Order[i]]
         /\ Registered \subseteq Prefix
         /\ \A k, j \in Claim : ClaimedPrefix[k] = ClaimedPrefix[j] => k = j
         /\ experiment.active => Len(Order) > 0
<1>1. /\ Order \in Seq(Claim) /\ IsInjective(Order)
      /\ experiment.active => Order # << >>
  BY ExperimentAssumption DEF Order
<1>2. /\ Len(Order) \in Nat /\ DOMAIN Order = 1 .. Len(Order)
      /\ \A i \in 1 .. Len(Order) : Order[i] \in Claim
      /\ experiment.active => Len(Order) > 0
  BY <1>1
<1>3. /\ \A k \in Claim : k \in Nat \ {0} /\ ClaimedPrefix[k] \in Prefix
      /\ \A k, j \in Claim : ClaimedPrefix[k] = ClaimedPrefix[j] => k = j
  BY ClaimPerPrefix, ClaimAssumption DEF IsInjective
<1>4. \A i, j \in 1 .. Len(Order) : Order[i] = Order[j] => i = j
  BY <1>1, <1>2 DEF IsInjective
<1>5. /\ \A i \in 1 .. Len(Order) : Order[i] \in ToSet(Order)
      /\ \A k \in ToSet(Order) : \E i \in 1 .. Len(Order) : Order[i] = k
  BY <1>2 DEF ToSet
<1>6. Registered = {ClaimedPrefix[k] : k \in ToSet(Order)}
  BY DEF Registered, Order
<1> QED
  BY <1>1, <1>2, <1>3, <1>4, <1>5, <1>6

\* Lists one after another.
Joins(r, s, t) ==
  /\ Len(r) = Len(s) + Len(t)
  /\ \A i \in 1 .. Len(s) : r[i] = s[i]
  /\ \A i \in 1 .. Len(t) : r[Len(s) + i] = t[i]

LEMMA ConcatJoins ==
  ASSUME NEW S, NEW s \in Seq(S), NEW t \in Seq(S)
  PROVE  s \o t \in Seq(S) /\ Joins(s \o t, s, t)
  BY DEF Joins

LEMMA CallsOfFacts ==
  ASSUME NEW name, NEW o \in Seq(Claim)
  PROVE  /\ CallsOf(name, o) \in Seq({Call(name, k) : k \in Claim}) /\ Len(CallsOf(name, o)) = Len(o)
         /\ \A i \in 1 .. Len(o) : CallsOf(name, o)[i] = Call(name, o[i])
<1> DEFINE s == CallsOf(name, o)
           S == {Call(name, k) : k \in Claim}
<1>1. /\ Len(o) \in Nat /\ s = [i \in 1 .. Len(o) |-> Call(name, o[i])]
      /\ \A i \in 1 .. Len(o) : Call(name, o[i]) \in S
  BY DEF CallsOf
<1> HIDE DEF S
<1> QED
  BY <1>1

\* The calls of a run, one by one.
LEMMA CallsAre ==
  ASSUME experiment \in Experiments
  PROVE  LET m == Len(Order)
         IN  /\ \E S : Calls \in Seq(S)
             /\ Len(Calls) = IF experiment.active THEN 3 * m
                             ELSE IF experiment.pressure > 0 THEN 2 * m + 1 ELSE 2 * m
             /\ \A i \in 1 .. m : Calls[i] = Call("admit", Order[i])
             /\ experiment.active =>
                  /\ \A i \in 1 .. m - 1 : Calls[m + i] = Call("prefill", Order[i])
                  /\ Calls[2 * m] = Call("active", Order[m])
                  /\ \A i \in 1 .. m : Calls[2 * m + i] = Call("return", Order[i])
             /\ ~ experiment.active =>
                  /\ \A i \in 1 .. m : Calls[m + i] = Call("prefill", Order[i])
                  /\ experiment.pressure > 0 =>
                       Calls[2 * m + 1] = Call("pressure", experiment.pressure)
<1> DEFINE m == Len(Order)
           n == experiment.pressure
           T == {"admit", "prefill", "return", "active", "pressure"}
           S == {Call(x, y) : x \in T, y \in Claim \cup {n}}
           admits == CallsOf("admit", Order)
<1>1. /\ Order \in Seq(Claim) /\ m \in Nat
      /\ \A i \in 1 .. m : Order[i] \in Claim
      /\ experiment.active => m > 0
  BY ExperimentFacts
<1>2. n \in Nat
  <2>1. n \in PressureSizes \cup {0}
    BY ExperimentAssumption
  <2> HIDE DEF n
  <2> QED
    BY <2>1, SizeAssumption
<1>3. ASSUME NEW name \in T, NEW o \in Seq(Claim)
      PROVE  /\ CallsOf(name, o) \in Seq(S) /\ Len(CallsOf(name, o)) = Len(o)
             /\ \A i \in 1 .. Len(o) : CallsOf(name, o)[i] = Call(name, o[i])
  <2> DEFINE s == CallsOf(name, o)
             C == {Call(name, k) : k \in Claim}
  <2>1. C \subseteq S
    OBVIOUS
  <2>2. /\ s \in Seq(C) /\ Len(s) = Len(o)
        /\ \A i \in 1 .. Len(o) : s[i] = Call(name, o[i])
    BY CallsOfFacts
  <2> HIDE DEF S, C, s
  <2>3. s \in Seq(S)
    BY <2>1, <2>2
  <2> QED
    BY <2>2, <2>3 DEF s
<1>4. ASSUME NEW x \in S
      PROVE  <<x>> \in Seq(S) /\ Len(<<x>>) = 1 /\ <<x>>[1] = x
  <2> HIDE DEF S
  <2> QED
    OBVIOUS
<1>5. << >> \in Seq(S) /\ Len(<< >>) = 0
  <2> HIDE DEF S
  <2> QED
    OBVIOUS
<1>6. CASE ~ experiment.active
  <2> DEFINE fills == CallsOf("prefill", Order)
             last == Call("pressure", n)
             rest  == IF n > 0 THEN <<last>> ELSE << >>
  <2>1. Calls = (admits \o fills) \o rest
    BY <1>6 DEF Calls, Order
  <2>2. /\ admits \in Seq(S) /\ Len(admits) = m /\ \A i \in 1 .. m : admits[i] = Call("admit", Order[i])
        /\ fills \in Seq(S) /\ Len(fills) = m /\ \A i \in 1 .. m : fills[i] = Call("prefill", Order[i])
    <3> HIDE DEF S
    <3> QED
      BY <1>1, <1>3
  <2>3. /\ rest \in Seq(S) /\ Len(rest) = (IF n > 0 THEN 1 ELSE 0)
        /\ n > 0 => rest[1] = last
    <3>1. last \in S
      OBVIOUS
    <3> HIDE DEF S, last, n
    <3>2. CASE n > 0
      BY <1>4, <3>1, <3>2
    <3>3. CASE ~ (n > 0)
      BY <1>5, <3>3
    <3> QED
      BY <3>2, <3>3
  <2> HIDE DEF admits, fills, last, rest, S, m, n
  <2> DEFINE both == admits \o fills
  <2>4. /\ both \in Seq(S) /\ Len(both) = 2 * m
        /\ \A i \in 1 .. m : both[i] = admits[i] /\ both[m+i] = fills[i]
    <3>1. both \in Seq(S) /\ Joins(both, admits, fills)
      BY <2>2, ConcatJoins
    <3> HIDE DEF both
    <3> QED
      BY <1>1, <2>2, <3>1 DEF Joins
  <2> HIDE DEF both
  <2>5. /\ Calls \in Seq(S) /\ Len(Calls) = 2 * m + Len(rest)
        /\ \A i \in 1 .. 2 * m : Calls[i] = both[i]
        /\ \A i \in 1 .. Len(rest) : Calls[2 * m + i] = rest[i]
    <3>1. Calls \in Seq(S) /\ Joins(Calls, both, rest)
      BY <2>1, <2>3, <2>4, ConcatJoins DEF both
    <3> QED
      BY <1>1, <2>4, <3>1 DEF Joins
  <2>6. Len(Calls) = IF n > 0 THEN 2 * m + 1 ELSE 2 * m
    BY <1>1, <2>3, <2>5
  <2>7. ASSUME NEW i \in 1 .. m
        PROVE  Calls[i] = Call("admit", Order[i]) /\ Calls[m+i] = Call("prefill", Order[i])
    <3>1. i \in 1 .. 2 * m /\ m + i \in 1 .. 2 * m
      BY <1>1
    <3> QED
      BY <2>2, <2>4, <2>5, <3>1
  <2>8. n > 0 => Calls[2 * m + 1] = Call("pressure", n)
    BY <2>3, <2>5 DEF last
  <2> QED
    BY <1>6, <2>5, <2>6, <2>7, <2>8 DEF m, n
<1>7. CASE experiment.active
  <2> DEFINE o == Front(Order)
             fills == CallsOf("prefill", o)
             act == Call("active", Order[m])
             last == <<act>>
             returns == CallsOf("return", Order)
  <2>1. Calls = ((admits \o fills) \o last) \o returns
    BY <1>7 DEF Calls, Order, Last
  <2>2. o \in Seq(Claim) /\ Len(o) = m - 1 /\ \A i \in 1 .. m - 1 : o[i] = Order[i]
    <3> DEFINE w == Order
    <3>1. w \in Seq(Claim) /\ Len(w) \in Nat \ {0} /\ o = SubSeq(w, 1, Len(w) - 1)
      BY <1>1, <1>7 DEF Front
    <3> HIDE DEF w, o
    <3> DEFINE k == Len(w) - 1
    <3>2. /\ k \in Nat /\ o = SubSeq(w, 1, k)
          /\ \A i \in 1 .. k : w[i] \in Claim
      BY <3>1
    <3>3. /\ 1 \in Int /\ k \in Int /\ k - 1 + 1 = k
          /\ \A i \in 1 .. k : 1 + i - 1 = i
      BY <3>2
    <3> HIDE DEF k
    <3>4. /\ SubSeq(w, 1, k) \in Seq(Claim)
          /\ Len(SubSeq(w, 1, k)) = (IF 1 <= k THEN k - 1 + 1 ELSE 0)
          /\ \A i \in 1 .. k - 1 + 1 : SubSeq(w, 1, k)[i] = w[1 + i - 1]
      BY <3>2, <3>3, SubSeqProperties
    <3>5. o \in Seq(Claim) /\ Len(o) = k /\ \A i \in 1 .. k : o[i] = w[i]
      BY <3>2, <3>3, <3>4
    <3> QED
      BY <3>5 DEF k, w
  <2>3. /\ admits \in Seq(S) /\ Len(admits) = m /\ \A i \in 1 .. m : admits[i] = Call("admit", Order[i])
        /\ returns \in Seq(S) /\ Len(returns) = m /\ \A i \in 1 .. m : returns[i] = Call("return", Order[i])
    <3> HIDE DEF S
    <3> QED
      BY <1>1, <1>3
  <2>4. /\ fills \in Seq(S) /\ Len(fills) = m - 1
        /\ \A i \in 1 .. m - 1 : fills[i] = Call("prefill", Order[i])
    <3> HIDE DEF S, o
    <3>1. /\ fills \in Seq(S) /\ Len(fills) = Len(o)
          /\ \A i \in 1 .. Len(o) : fills[i] = Call("prefill", o[i])
      BY <1>3, <2>2
    <3> QED
      BY <2>2, <3>1
  <2>5. last \in Seq(S) /\ Len(last) = 1 /\ last[1] = act
    <3>1. Order[m] \in Claim
      BY <1>1, <1>7
    <3>2. act \in S
      BY <3>1
    <3> HIDE DEF S, act
    <3> QED
      BY <1>4, <3>2
  <2> HIDE DEF admits, fills, act, last, returns, o, S, m, n
  <2> DEFINE two == admits \o fills
             three == two \o last
  <2>6. /\ two \in Seq(S) /\ Len(two) = 2 * m - 1
        /\ \A i \in 1 .. m : two[i] = admits[i]
        /\ \A i \in 1 .. m - 1 : two[m + i] = fills[i]
    <3>1. two \in Seq(S) /\ Joins(two, admits, fills)
      BY <2>3, <2>4, ConcatJoins
    <3> HIDE DEF two
    <3> QED
      BY <1>1, <1>7, <2>3, <2>4, <3>1 DEF Joins
  <2> HIDE DEF two
  <2>7. /\ three \in Seq(S) /\ Len(three) = 2 * m
        /\ \A i \in 1 .. 2 * m - 1 : three[i] = two[i]
        /\ three[2 * m] = act
    <3>1. /\ three \in Seq(S) /\ Len(three) = Len(two) + 1
          /\ \A i \in 1 .. Len(two) : three[i] = two[i]
          /\ \A i \in 1 .. 1 : three[Len(two) + i] = last[i]
      <4>1. three \in Seq(S) /\ Joins(three, two, last)
        BY <2>5, <2>6, ConcatJoins
      <4> HIDE DEF three
      <4> QED
        BY <2>5, <4>1 DEF Joins
    <3>2. (2 * m - 1) + 1 = 2 * m /\ 1 \in 1 .. 1
      BY <1>1
    <3> QED
      BY <2>5, <2>6, <3>1, <3>2
  <2> HIDE DEF three
  <2>8. /\ Calls \in Seq(S) /\ Len(Calls) = 2 * m + m
        /\ \A i \in 1 .. 2 * m : Calls[i] = three[i]
        /\ \A i \in 1 .. m : Calls[2 * m + i] = returns[i]
    <3>1. Calls \in Seq(S) /\ Joins(Calls, three, returns)
      BY <2>1, <2>3, <2>7, ConcatJoins DEF two, three
    <3> QED
      BY <1>1, <2>3, <2>7, <3>1 DEF Joins
  <2>9. ASSUME NEW i \in 1 .. m
        PROVE  Calls[i] = Call("admit", Order[i]) /\ Calls[2 * m + i] = Call("return", Order[i])
    <3>1. i \in 1 .. 2 * m /\ i \in 1 .. 2 * m - 1
      BY <1>1, <1>7
    <3> QED
      BY <2>3, <2>6, <2>7, <2>8, <3>1
  <2>10. ASSUME NEW i \in 1 .. m - 1
         PROVE  Calls[m + i] = Call("prefill", Order[i])
    <3>1. m + i \in 1 .. 2 * m /\ m + i \in 1 .. 2 * m - 1
      BY <1>1, <1>7
    <3> QED
      BY <2>4, <2>6, <2>7, <2>8, <3>1
  <2>11. Calls[2 * m] = Call("active", Order[m]) /\ Len(Calls) = 3 * m
    <3>1. 2 * m \in 1 .. 2 * m /\ 2 * m + m = 3 * m
      BY <1>1, <1>7
    <3> QED
      BY <2>7, <2>8, <3>1 DEF act
  <2> QED
    BY <1>7, <2>8, <2>9, <2>10, <2>11 DEF m, n
<1> QED
  BY <1>6, <1>7

\* The runs of the report, and how many of them have begun; how many calls the
\* run in progress has made.
Rows  == IF experiment.active THEN ComparedGates ELSE ComparedPolicies
Begun == Len(Rows) - Len(agenda)
Made  == Len(Calls) - Len(todo)

\* Every run but the one in progress is scored.
RunsKept ==
  /\ Suffix(agenda, Rows)
  /\ running # None => Begun > 0 /\ running = Rows[Begun]
  /\ DOMAIN results = {Rows[i].name : i \in 1 .. (IF running = None THEN Begun ELSE Begun - 1)}

\* A run is set up with what the experiment says, and keeps it.
SetUp ==
  Begun > 0 =>
    /\ plan = PlanOf(Rows[Begun].policy)
    /\ \A k \in ToSet(Order) : /\ ClaimedPrefix[k] \in DOMAIN prefixes
                               /\ prefixes[ClaimedPrefix[k]] = ShapeOf(experiment.of[k])
    /\ experiment.active => DOMAIN prefixes = Registered
    /\ DOMAIN prefixes \subseteq Registered \cup PressureId
    /\ \A p \in DOMAIN prefixes \ Registered : prefixes[p].curve = "threshold"

CallsKept == running # None => Suffix(todo, Calls)

\* Positions are held only of prefixes that have them.
HeldFit == \A x \in HeldPlaces(cache) : x[1] \in Registered => x[2] < prefixes[x[1]].count

\* The prefixes that the run has inserted.
Inserted ==
  {ClaimedPrefix[Order[i]] : i \in {j \in 1 .. Len(Order) : Len(Order) + j <= Made}}

HeldInserted ==
  running # None =>
    \A x \in HeldPlaces(cache) : x[1] \in Inserted \/ (~ experiment.active /\ Made > 2 * Len(Order))

Track ==
  /\ IInv
  /\ experiment \in Experiments
  /\ RunsKept
  /\ SetUp
  /\ CallsKept
  /\ HeldFit
  /\ HeldInserted

PrefillCounts == [p \in Registered |-> prefixes[p].count]

\* The blocks that the run has inserted, hits apart.
Filled == Total(PrefillCounts, Inserted)
            + (IF Made > 2 * Len(Order) THEN experiment.pressure ELSE 0)

PressureInv ==
  running # None /\ ~ experiment.active =>
    /\ Cardinality(Resident(cache)) = (IF Filled < Capacity THEN Filled ELSE Capacity)
    /\ evictions = AtLeast0(Filled - Capacity)

-----------------------------------------------------------------------------
(* The invariant of the runs.                                              *)

\* What an experiment says of its prefixes is typed.
LEMMA ThresholdTyped ==
  ASSUME NEW prefix, Described(prefix)
  PROVE  ThresholdBlocks(prefix) \in Nat
<1> DEFINE rule  == prefix.rule
           given == IF rule.value = None THEN prefix.useful ELSE rule.value
           part  == IF rule.value = None THEN <<1, 1>> ELSE rule.value
           n == CASE rule.name \in {"fixed_blocks", "latency_value"} -> given
                  [] rule.name = "full_prefix" -> prefix.count
                  [] rule.name = "fraction" -> CeilingOf(prefix.count, part)
                  [] rule.name = "tenant_sla" ->
                       IF prefix.tenant \in DOMAIN rule.tenants THEN rule.tenants[prefix.tenant]
                                                                ELSE given
<1>1. /\ prefix.count \in Nat /\ prefix.useful \in Int
      /\ rule.name \in RuleNames
      /\ \/ rule.value = None
         \/ rule.value \in IF rule.name = "fraction" THEN Int \X (Nat \ {0}) ELSE Int
      /\ \A t \in DOMAIN rule.tenants : rule.tenants[t] \in Int
  BY DEF Described
<1>2. rule.name # "fraction" => given \in Int
  BY <1>1
<1>3. rule.name = "fraction" => CeilingOf(prefix.count, part) \in Int
  <2> SUFFICES ASSUME rule.name = "fraction" PROVE CeilingOf(prefix.count, part) \in Int
    OBVIOUS
  <2>1. part \in Int \X (Nat \ {0})
    BY <1>1
  <2> HIDE DEF part
  <2>2. part[1] \in Int /\ part[2] \in Nat \ {0}
    BY <2>1
  <2> DEFINE x == - prefix.count * part[1]
  <2>3. x \in Int
    BY <1>1, <2>2
  <2> HIDE DEF x
  <2>4. x \div part[2] \in Int
    BY <2>2, <2>3
  <2> QED
    BY <2>4 DEF CeilingOf, x
<1>4. n \in Int
  <2> HIDE DEF given, part
  <2>1. \/ rule.name \in {"fixed_blocks", "latency_value"}
        \/ rule.name = "full_prefix"
        \/ rule.name = "fraction"
        \/ rule.name = "tenant_sla"
    BY <1>1 DEF RuleNames
  <2> HIDE DEF rule
  <2>2. CASE rule.name \in {"fixed_blocks", "latency_value"}
    BY <1>2, <2>2
  <2>3. CASE rule.name = "full_prefix"
    BY <1>1, <2>3
  <2>4. CASE rule.name = "fraction"
    BY <1>3, <2>4
  <2>5. CASE rule.name = "tenant_sla"
    BY <1>1, <1>2, <2>5
  <2> QED
    BY <2>1, <2>2, <2>3, <2>4, <2>5
<1>5. ThresholdBlocks(prefix) = AtLeast0(n)
  BY DEF ThresholdBlocks
<1> HIDE DEF n
<1> QED
  BY <1>4, <1>5 DEF AtLeast0

LEMMA ShapesTyped ==
  ASSUME experiment \in Experiments, NEW k \in ToSet(Order)
  PROVE  ShapeOf(experiment.of[k]) \in Shape
<1> DEFINE prefix == experiment.of[k]
<1>1. Described(prefix)
  BY ExperimentAssumption DEF Order
<1>2. ThresholdBlocks(prefix) \in Nat
  BY <1>1, ThresholdTyped
<1>3. prefix.count \in Nat /\ prefix.value \in Nat /\ prefix.curve \in Curves
  BY <1>1 DEF Described
<1> HIDE DEF prefix
<1>4. ShapeOf(prefix) \in Shape
  BY <1>2, <1>3 DEF ShapeOf, Shape
<1> QED
  BY <1>4 DEF prefix

\* What depends on the experiment alone stays.
LEMMA ExperimentStays ==
  ASSUME experiment' = experiment
  PROVE  /\ Order' = Order /\ Rows' = Rows /\ Calls' = Calls /\ Registered' = Registered
         /\ Batch' = Batch
  BY DEF Order, Rows, Calls, Registered, Batch

\* The next call of a run.
LEMMA NextCall ==
  ASSUME Track, running # None, todo # << >>
  PROVE  /\ Made \in Nat /\ Made < Len(Calls) /\ Head(todo) = Calls[Made + 1]
         /\ Suffix(Tail(todo), Calls) /\ Len(Calls) - Len(Tail(todo)) = Made + 1
<1>1. PICK S : Calls \in Seq(S)
  BY CallsAre DEF Track
<1>2. Suffix(todo, Calls)
  BY DEF Track, CallsKept
<1>3. /\ Suffix(Tail(todo), Calls) /\ Len(todo) \in Nat \ {0} /\ Len(Tail(todo)) = Len(todo) - 1
      /\ Head(todo) = Calls[Len(Calls) - Len(todo) + 1]
  BY <1>1, <1>2, TailSuffix
<1>4. Len(Calls) \in Nat /\ Len(todo) <= Len(Calls)
  BY <1>1, <1>2 DEF Suffix
<1> QED
  BY <1>3, <1>4 DEF Made

\* Which call it is tells how far the run is.
LEMMA CallCases ==
  ASSUME Track, running # None, todo # << >>
  PROVE  LET m == Len(Order)
             i == Made + 1
             c == Head(todo)
         IN  \/ i \in 1 .. m /\ c = Call("admit", Order[i])
             \/ i - m \in 1 .. m /\ c = Call("prefill", Order[i - m])
                  /\ (experiment.active => i - m < m)
             \/ ~ experiment.active /\ i = 2 * m + 1 /\ experiment.pressure > 0
                  /\ c = Call("pressure", experiment.pressure)
             \/ experiment.active /\ i = 2 * m /\ m > 0 /\ c = Call("active", Order[m])
             \/ experiment.active /\ i - 2 * m \in 1 .. m /\ c = Call("return", Order[i - 2 * m])
<1> DEFINE m == Len(Order)
           i == Made + 1
<1>1. /\ i \in Nat /\ 1 <= i /\ i <= Len(Calls) /\ Len(Calls) \in Nat
      /\ Head(todo) = Calls[i]
  <2>1. Len(Calls) \in Nat
    BY CallsAre DEF Track
  <2> QED
    BY <2>1, NextCall
<1>2. m \in Nat /\ (experiment.active => m > 0)
  BY ExperimentFacts DEF Track
<1>3. /\ Len(Calls) = IF experiment.active THEN 3 * m
                      ELSE IF experiment.pressure > 0 THEN 2 * m + 1 ELSE 2 * m
      /\ \A j \in 1 .. m : Calls[j] = Call("admit", Order[j])
      /\ experiment.active =>
           /\ \A j \in 1 .. m - 1 : Calls[m + j] = Call("prefill", Order[j])
           /\ Calls[2 * m] = Call("active", Order[m])
           /\ \A j \in 1 .. m : Calls[2 * m + j] = Call("return", Order[j])
      /\ ~ experiment.active =>
           /\ \A j \in 1 .. m : Calls[m + j] = Call("prefill", Order[j])
           /\ experiment.pressure > 0 =>
                Calls[2 * m + 1] = Call("pressure", experiment.pressure)
  BY CallsAre DEF Track
<1> HIDE DEF m, i
<1>4. CASE i <= m
  BY <1>1, <1>2, <1>3, <1>4 DEF m, i
<1>5. CASE ~ experiment.active /\ i > m
  <2>1. CASE i <= 2 * m
    <3>1. i - m \in 1 .. m /\ m + (i - m) = i
      BY <1>1, <1>2, <1>5, <2>1
    <3>2. Calls[m + (i - m)] = Call("prefill", Order[i - m])
      BY <1>3, <1>5, <3>1
    <3> QED
      BY <1>1, <1>5, <3>1, <3>2 DEF m, i
  <2>2. CASE i > 2 * m
    <3>1. i = 2 * m + 1 /\ experiment.pressure > 0
      BY <1>1, <1>2, <1>3, <1>5, <2>2
    <3> QED
      BY <1>1, <1>3, <1>5, <3>1 DEF m, i
  <2> QED
    BY <1>1, <1>2, <2>1, <2>2 DEF m, i
<1>6. CASE experiment.active /\ i > m
  <2>1. CASE i < 2 * m
    <3>1. i - m \in 1 .. m - 1 /\ m + (i - m) = i /\ i - m \in 1 .. m /\ i - m < m
      BY <1>1, <1>2, <1>6, <2>1
    <3>2. Calls[m + (i - m)] = Call("prefill", Order[i - m])
      BY <1>3, <1>6, <3>1
    <3> QED
      BY <1>1, <1>6, <3>1, <3>2 DEF m, i
  <2>2. CASE i = 2 * m
    BY <1>1, <1>2, <1>3, <1>6, <2>2 DEF m, i
  <2>3. CASE i > 2 * m
    <3>1. i - 2 * m \in 1 .. m /\ 2 * m + (i - 2 * m) = i
      BY <1>1, <1>2, <1>3, <1>6, <2>3
    <3>2. Calls[2 * m + (i - 2 * m)] = Call("return", Order[i - 2 * m])
      BY <1>3, <1>6, <3>1
    <3> QED
      BY <1>1, <1>6, <3>1, <3>2 DEF m, i
  <2> QED
    BY <1>1, <1>2, <2>1, <2>2, <2>3 DEF m, i
<1> QED
  BY <1>1, <1>2, <1>4, <1>5, <1>6 DEF m, i

\* What every call does to the report.
LEMMA CalledKeeps ==
  ASSUME Track, running # None, todo # << >>, Called
  PROVE  /\ experiment' = experiment /\ running' = running /\ plan' = plan
         /\ Order' = Order /\ Rows' = Rows /\ Calls' = Calls /\ Registered' = Registered
         /\ Begun' = Begun /\ Begun > 0 /\ Made' = Made + 1
         /\ RunsKept' /\ CallsKept'
         /\ (plan = PlanOf(Rows[Begun].policy))'
<1>1. /\ experiment' = experiment /\ running' = running /\ plan' = plan
      /\ agenda' = agenda /\ results' = results /\ todo' = Tail(todo)
  BY DEF Called
<1>2. /\ Order' = Order /\ Rows' = Rows /\ Calls' = Calls /\ Registered' = Registered
      /\ Batch' = Batch
  BY <1>1, ExperimentStays
<1>3. Begun' = Begun /\ Begun > 0
  BY <1>1, <1>2 DEF Begun, Track, RunsKept
<1>4. Made' = Made + 1 /\ Suffix(Tail(todo), Calls)
  BY <1>1, <1>2, NextCall DEF Made
<1>5. RunsKept'
  BY <1>1, <1>2, <1>3 DEF Track, RunsKept
<1>6. CallsKept'
  BY <1>1, <1>2, <1>4 DEF CallsKept
<1>7. (plan = PlanOf(Rows[Begun].policy))'
  <2>1. plan = PlanOf(Rows[Begun].policy)
    BY <1>3 DEF Track, SetUp
  <2> QED
    BY <1>1, <1>2, <1>3, <2>1 DEF PlanOf
<1> QED
  BY <1>1, <1>2, <1>3, <1>4, <1>5, <1>6, <1>7

\* The blocks that the plan grants to a claim.
GrantOf(c) == IF plan[c].kind \in Policies!Accepting THEN plan[c].blocks ELSE 0

\* What each action of a run is.
Admits(i, c) ==
  /\ i \in 1 .. Len(Order) /\ Made = i - 1
  /\ c \in DOMAIN plan /\ c.id = Order[i] /\ AdmitClaim(Order[i], GrantOf(c))
  /\ UNCHANGED scenario

Prefills(i) ==
  /\ i \in 1 .. Len(Order) /\ Made = Len(Order) + i - 1
  /\ experiment.active => i < Len(Order)
  /\ Prefill(ClaimedPrefix[Order[i]])
  /\ UNCHANGED scenario

Presses ==
  /\ ~ experiment.active /\ Made = 2 * Len(Order) /\ experiment.pressure > 0
  /\ Pressure(experiment.pressure)
  /\ UNCHANGED scenario

LastPrefix == ClaimedPrefix[Order[Len(Order)]]

FillsActive(d) ==
  /\ experiment.active /\ Len(Order) > 0 /\ Made = 2 * Len(Order) - 1
  /\ d \in ActiveDecisions(LastPrefix) /\ ActivePrefill(LastPrefix, d)
  /\ scenario' = [scenario EXCEPT !.before = RealizedValue(ResidentsOfScenario),
                                  !.delta  = Last(auditEvents').netValueDelta]

Returns(i) ==
  /\ experiment.active /\ i \in 1 .. Len(Order) /\ Made = 2 * Len(Order) + i - 1
  /\ ReturnPrefix(ClaimedPrefix[Order[i]], FALSE)
  /\ scenario' = IF Len(todo) > 1
                   THEN [scenario EXCEPT !.residents = @ + runtimeEvents'[1].value]
                   ELSE [scenario EXCEPT !.active = runtimeEvents'[1].value]

LEMMA RunSteps ==
  ASSUME Track, ReportNext
  PROVE  \/ Start
         \/ Score
         \/ /\ running # None /\ todo # << >> /\ Called
            /\ \/ \E i, c : Admits(i, c)
               \/ \E i : Prefills(i)
               \/ Presses
               \/ \E d : FillsActive(d)
               \/ \E i : Returns(i)
<1> DEFINE m == Len(Order)
           i == Made + 1
<1>1. CASE Start
  BY <1>1
<1>2. CASE Score
  BY <1>2
<1>3. ASSUME running # None, todo # << >>
      PROVE  LET c == Head(todo)
             IN  \/ i \in 1 .. m /\ c = Call("admit", Order[i])
                 \/ i - m \in 1 .. m /\ c = Call("prefill", Order[i - m])
                      /\ (experiment.active => i - m < m)
                 \/ ~ experiment.active /\ i = 2 * m + 1 /\ experiment.pressure > 0
                      /\ c = Call("pressure", experiment.pressure)
                 \/ experiment.active /\ i = 2 * m /\ m > 0 /\ c = Call("active", Order[m])
                 \/ experiment.active /\ i - 2 * m \in 1 .. m /\ c = Call("return", Order[i - 2 * m])
  BY <1>3, CallCases
<1>4. running # None /\ todo # << >> => Made \in Nat /\ m \in Nat
  BY NextCall, ExperimentFacts DEF Track
<1>5. \A name, on : Call(name, on).call = name /\ Call(name, on).on = on
  BY DEF Call
<1> HIDE DEF m, i
<1>6. CASE Admit
  <2>1. running # None /\ todo # << >> /\ Head(todo).call = "admit" /\ Called
    BY <1>6 DEF Admit, Calling
  <2>2. i \in 1 .. m /\ Head(todo).on = Order[i]
    BY <1>3, <1>5, <2>1
  <2>3. PICK c \in DOMAIN plan : c.id = Order[i] /\ AdmitClaim(c.id, GrantOf(c))
    BY <1>6, <2>2 DEF Admit, GrantOf
  <2>4. Made = i - 1
    BY <1>4, <2>1 DEF i
  <2>5. Admits(i, c)
    BY <1>6, <2>2, <2>3, <2>4 DEF Admits, m, Admit
  <2> QED
    BY <2>1, <2>5
<1>7. CASE PrefillNext
  <2>1. running # None /\ todo # << >> /\ Head(todo).call = "prefill" /\ Called
    BY <1>7 DEF PrefillNext, Calling
  <2>2. i - m \in 1 .. m /\ Head(todo).on = Order[i - m] /\ (experiment.active => i - m < m)
    BY <1>3, <1>5, <2>1
  <2>3. Made = m + (i - m) - 1
    BY <1>4, <2>1 DEF i
  <2>4. Prefills(i - m)
    BY <1>7, <2>2, <2>3 DEF Prefills, m, PrefillNext
  <2> QED
    BY <2>1, <2>4
<1>8. CASE PressureNext
  <2>1. running # None /\ todo # << >> /\ Head(todo).call = "pressure" /\ Called
    BY <1>8 DEF PressureNext, Calling
  <2>2. /\ ~ experiment.active /\ i = 2 * m + 1 /\ experiment.pressure > 0
        /\ Head(todo).on = experiment.pressure
    BY <1>3, <1>5, <2>1
  <2>3. Made = 2 * m
    BY <1>4, <2>1, <2>2 DEF i
  <2>4. Presses
    BY <1>8, <2>2, <2>3 DEF Presses, m, PressureNext
  <2> QED
    BY <2>1, <2>4
<1>9. CASE ActiveNext
  <2>1. running # None /\ todo # << >> /\ Head(todo).call = "active" /\ Called
    BY <1>9 DEF ActiveNext, Calling
  <2>2. experiment.active /\ i = 2 * m /\ m > 0 /\ Head(todo).on = Order[m]
    BY <1>3, <1>5, <2>1
  <2>3. Made = 2 * m - 1
    BY <1>4, <2>1, <2>2 DEF i
  <2>4. PICK d \in ActiveDecisions(LastPrefix) : ActivePrefill(LastPrefix, d)
    BY <1>9, <2>2 DEF ActiveNext, LastPrefix, m
  <2>5. FillsActive(d)
    BY <1>9, <2>2, <2>3, <2>4 DEF FillsActive, m, ActiveNext
  <2> QED
    BY <2>1, <2>5
<1>10. CASE ReturnNext
  <2>1. running # None /\ todo # << >> /\ Head(todo).call = "return" /\ Called
    BY <1>10 DEF ReturnNext, Calling
  <2>2. experiment.active /\ i - 2 * m \in 1 .. m /\ Head(todo).on = Order[i - 2 * m]
    BY <1>3, <1>5, <2>1
  <2>3. Made = 2 * m + (i - 2 * m) - 1
    BY <1>4, <2>1 DEF i
  <2>4. Returns(i - 2 * m)
    BY <1>10, <2>2, <2>3 DEF Returns, m, ReturnNext
  <2> QED
    BY <2>1, <2>4
<1> QED
  BY <1>1, <1>2, <1>6, <1>7, <1>8, <1>9, <1>10 DEF ReportNext

\* The prefixes inserted so far.
LEMMA InsertedGrows ==
  ASSUME Track, running # None, todo # << >>, Called
  PROVE  LET i == Made + 1 - Len(Order)
         IN  /\ i \notin 1 .. Len(Order) => Inserted' = Inserted
             /\ i \in 1 .. Len(Order) =>
                  /\ ClaimedPrefix[Order[i]] \notin Inserted
                  /\ Inserted' = Inserted \cup {ClaimedPrefix[Order[i]]}
<1> DEFINE m == Len(Order)
           i == Made + 1 - m
           done(n) == {j \in 1 .. m : m + j <= n}
<1>1. m \in Nat /\ Made \in Nat /\ Made' = Made + 1 /\ Order' = Order
  BY ExperimentFacts, NextCall, CalledKeeps DEF Track
<1>2. \A j, k \in 1 .. m : ClaimedPrefix[Order[j]] = ClaimedPrefix[Order[k]] => j = k
  BY ExperimentFacts DEF Track
<1>3. /\ Inserted = {ClaimedPrefix[Order[j]] : j \in done(Made)}
      /\ Inserted' = {ClaimedPrefix[Order[j]] : j \in done(Made + 1)}
  BY <1>1 DEF Inserted
<1>4. CASE i \notin 1 .. m
  <2>1. done(Made + 1) = done(Made)
    BY <1>1, <1>4
  <2> QED
    BY <1>3, <1>4, <2>1
<1>5. CASE i \in 1 .. m
  <2>1. done(Made + 1) = done(Made) \cup {i} /\ i \notin done(Made)
    BY <1>1, <1>5
  <2>2. done(Made) \subseteq 1 .. m
    OBVIOUS
  <2> HIDE DEF done, i, m
  <2>3. ClaimedPrefix[Order[i]] \notin Inserted
    BY <1>2, <1>3, <1>5, <2>1, <2>2
  <2>4. Inserted' = Inserted \cup {ClaimedPrefix[Order[i]]}
    BY <1>3, <2>1
  <2> QED
    BY <1>5, <2>3, <2>4 DEF i, m
<1> QED
  BY <1>4, <1>5

LEMMA MaterializedPlaces ==
  ASSUME IInv, NEW p \in PrefixId, NEW n \in Nat, NEW prio \in {-1, 0, 1, 2},
         Materializes(p, n, prio)
  PROVE  HeldPlaces(cache') \subseteq HeldPlaces(cache) \cup Lead(p, n)
<1> DEFINE d == InsertLeading(cache, accepted, p, n, prio, Now)
<1>0. Now \in Nat /\ CacheInv(cache) /\ Covered(cache, accepted) /\ AcceptedType(accepted)
  BY AcceptedIsTyped DEF IInv, Now
<1>1. CacheInv(d) /\ Covered(d, accepted) /\ Brings(d, cache, Lead(p, n))
  BY <1>0, InsertLeadingInv
<1>2. cache' = Settled(d)
  BY DEF Materializes
<1> HIDE DEF d
<1>3. HeldPlaces(cache') = HeldPlaces(d)
  BY <1>1, <1>2, SettledInv
<1> QED
  BY <1>1, <1>3 DEF Brings

\* The steps of the runtime keep its invariant.
LEMMA CallIInv ==
  ASSUME Track,
         \/ \E i, c : Admits(i, c)
         \/ \E i : Prefills(i)
         \/ Presses
         \/ \E d : FillsActive(d)
         \/ \E i : Returns(i)
  PROVE  IInv'
<1>1. /\ \A i \in 1 .. Len(Order) : Order[i] \in Claim /\ ClaimedPrefix[Order[i]] \in Prefix
      /\ Len(Order) \in Nat
  BY ExperimentFacts DEF Track
<1>2. ASSUME NEW k \in Claim, NEW n, AdmitClaim(k, n) PROVE Next
  BY <1>2 DEF AdmitClaim, Next
<1>3. ASSUME NEW p \in Prefix, Prefill(p) PROVE Next
  BY <1>3 DEF Prefill, Next
<1>4. ASSUME NEW p \in Prefix, NEW d \in ActiveDecisions(p), ActivePrefill(p, d) PROVE Next
  BY <1>4 DEF ActivePrefill, Next
<1>5. ASSUME NEW p \in Prefix, ReturnPrefix(p, FALSE) PROVE Next
  BY <1>5 DEF ReturnPrefix, Next
<1>6. ASSUME NEW n \in PressureSizes, Pressure(n) PROVE Next
  BY <1>6 DEF Next
<1>7. ASSUME experiment.pressure > 0 PROVE experiment.pressure \in PressureSizes
  <2> DEFINE n == experiment.pressure
  <2>1. n \in PressureSizes \cup {0}
    BY ExperimentAssumption DEF Track
  <2> HIDE DEF n
  <2>2. n > 0
    BY <1>7 DEF n
  <2> QED
    BY <2>1, <2>2 DEF n
<1>8. Next
  <2>1. ASSUME NEW i, NEW c, Admits(i, c) PROVE Next
    BY <1>1, <1>2, <2>1 DEF Admits
  <2>2. ASSUME NEW i, Prefills(i) PROVE Next
    BY <1>1, <1>3, <2>2 DEF Prefills
  <2>3. ASSUME Presses PROVE Next
    BY <1>6, <1>7, <2>3 DEF Presses
  <2>4. ASSUME NEW d, FillsActive(d) PROVE Next
    <3>1. Len(Order) \in 1 .. Len(Order)
      BY <1>1, <2>4 DEF FillsActive
    <3> QED
      BY <1>1, <1>4, <2>4, <3>1 DEF FillsActive, LastPrefix
  <2>5. ASSUME NEW i, Returns(i) PROVE Next
    BY <1>1, <1>5, <2>5 DEF Returns
  <2> QED
    BY <2>1, <2>2, <2>3, <2>4, <2>5
<1> QED
  BY <1>8, NextIInv DEF Track

LEMMA CallTrack ==
  ASSUME Track, running # None, todo # << >>, Called,
         \/ \E i, c : Admits(i, c)
         \/ \E i : Prefills(i)
         \/ Presses
         \/ \E d : FillsActive(d)
         \/ \E i : Returns(i)
  PROVE  Track'
<1> DEFINE m == Len(Order)
<1>1. /\ experiment' = experiment /\ running' = running
      /\ Order' = Order /\ Rows' = Rows /\ Registered' = Registered
      /\ Begun' = Begun /\ Begun > 0 /\ Made' = Made + 1
      /\ RunsKept' /\ CallsKept' /\ (plan = PlanOf(Rows[Begun].policy))'
  BY CalledKeeps
<1>2. IInv' /\ experiment' \in Experiments
  BY <1>1, CallIInv DEF Track
<1>3. /\ m \in Nat /\ Made \in Nat /\ Registered \subseteq Prefix
      /\ \A j \in 1 .. m : /\ ClaimedPrefix[Order[j]] \in Registered
                           /\ ClaimedPrefix[Order[j]] \in DOMAIN prefixes
                           /\ ClaimedPrefix[Order[j]] \in PrefixId
  <2>1. \A j \in 1 .. m : /\ Order[j] \in ToSet(Order) /\ ClaimedPrefix[Order[j]] \in Registered
                          /\ ClaimedPrefix[Order[j]] \in Prefix
    BY ExperimentFacts DEF Track
  <2>2. m \in Nat /\ Made \in Nat /\ Registered \subseteq Prefix
    BY ExperimentFacts, NextCall DEF Track
  <2> QED
    BY <1>1, <2>1, <2>2 DEF Track, SetUp, PrefixId
<1>4. ASSUME prefixes' = prefixes PROVE SetUp'
  BY <1>1, <1>4 DEF Track, SetUp
<1>5. Inserted \subseteq Inserted'
  BY InsertedGrows
<1>6. ASSUME prefixes' = prefixes, HeldPlaces(cache') = HeldPlaces(cache) PROVE Track'
  <2>1. HeldFit'
    BY <1>1, <1>6 DEF Track, HeldFit
  <2>2. HeldInserted'
    BY <1>1, <1>3, <1>5, <1>6 DEF Track, HeldInserted
  <2> QED
    BY <1>1, <1>2, <1>4, <1>6, <2>1, <2>2 DEF Track
<1>7. ASSUME NEW i \in 1 .. m, Made = m + i - 1, prefixes' = prefixes,
             NEW n \in Nat, n <= prefixes[ClaimedPrefix[Order[i]]].count,
             NEW prio \in {-1, 0, 1, 2}, Materializes(ClaimedPrefix[Order[i]], n, prio)
      PROVE  Track'
  <2> DEFINE p == ClaimedPrefix[Order[i]]
  <2>1. HeldPlaces(cache') \subseteq HeldPlaces(cache) \cup Lead(p, n)
    BY <1>3, <1>7, MaterializedPlaces DEF Track
  <2>2. \A x \in Lead(p, n) : x[1] = p /\ x[2] < n /\ x[2] \in Nat
    BY DEF Lead
  <2>3. HeldFit'
    <3>1. prefixes[p].count \in Nat
      BY <1>3 DEF Track, IInv, IsDict, Shape
    <3> QED
      BY <1>1, <1>7, <2>1, <2>2, <3>1 DEF Track, HeldFit
  <2>4. p \in Inserted'
    <3>1. Made + 1 - m = i
      BY <1>3, <1>7
    <3> QED
      BY <3>1, InsertedGrows
  <2>5. HeldInserted'
    BY <1>1, <1>3, <1>5, <1>7, <2>1, <2>2, <2>4 DEF Track, HeldInserted
  <2> QED
    BY <1>1, <1>2, <1>4, <1>7, <2>3, <2>5 DEF Track
<1>8. ASSUME NEW i, NEW c, Admits(i, c) PROVE Track'
  <2>1. Order[i] \in Claim /\ ClaimedPrefix[Order[i]] \in PrefixId /\ AdmitClaim(Order[i], GrantOf(c))
    BY <1>8, ExperimentFacts DEF Admits, Track, PrefixId
  <2>2. prefixes' = prefixes
    BY <2>1 DEF AdmitClaim
  <2>3. HeldPlaces(cache') = HeldPlaces(cache)
    <3>1. GrantOf(c) \in Nat
      BY <2>1 DEF AdmitClaim, Track, IInv, IsDict, Shape
    <3>2. CASE GrantOf(c) = 0
      BY <2>1, <3>2 DEF AdmitClaim
    <3>3. CASE GrantOf(c) # 0
      <4>1. cache' = ProtectExisting(cache, Order[i], ClaimedPrefix[Order[i]], GrantOf(c))
        BY <2>1, <3>3 DEF AdmitClaim
      <4> QED
        BY <2>1, <3>1, <4>1, AdmissionKeepsPlaces DEF Track, IInv
    <3> QED
      BY <3>2, <3>3
  <2> QED
    BY <1>6, <2>2, <2>3
<1>9. ASSUME NEW i, Prefills(i) PROVE Track'
  <2> DEFINE p == ClaimedPrefix[Order[i]]
  <2>1. i \in 1 .. m /\ Made = m + i - 1 /\ Prefill(p)
    BY <1>9 DEF Prefills
  <2>2. prefixes' = prefixes /\ Materializes(p, prefixes[p].count, 0)
    BY <2>1 DEF Prefill, Materializes
  <2>3. prefixes[p].count \in Nat /\ 0 \in {-1, 0, 1, 2}
    BY <1>3, <2>1 DEF Track, IInv, IsDict, Shape
  <2> QED
    BY <1>7, <2>1, <2>2, <2>3
<1>10. ASSUME Presses PROVE Track'
  <2> DEFINE q == <<"__pressure__", Now>>
             n == experiment.pressure
  <2>1. ~ experiment.active /\ Made = 2 * m /\ Pressure(n)
    BY <1>10 DEF Presses
  <2>2. q \in PressureId /\ q \in PrefixId /\ q \notin Registered
    BY <1>3, IdAssumption DEF PressureId, PrefixId, Now, Track, IInv
  <2>3. n \in Nat
    <3>1. n \in PressureSizes \cup {0}
      BY ExperimentAssumption DEF Track
    <3> HIDE DEF n
    <3> QED
      BY <3>1, SizeAssumption
  <2>4. /\ prefixes' = Put(prefixes, q, [count |-> n, threshold |-> n + 1, value |-> 0,
                                         curve |-> "threshold"])
        /\ Materializes(q, n, 0)
    BY <2>1 DEF Pressure, Materializes
  <2> HIDE DEF q, n
  <2>5. /\ DOMAIN prefixes' = DOMAIN prefixes \cup {q}
        /\ prefixes'[q].curve = "threshold"
        /\ \A p \in DOMAIN prefixes : p # q => prefixes'[p] = prefixes[p]
    BY <2>4 DEF Put
  <2>6. SetUp'
    <3>1. \A k \in ToSet(Order) : ClaimedPrefix[k] # q
      BY <2>2 DEF Registered, Order
    <3>2. \A k \in ToSet(Order) : /\ ClaimedPrefix[k] \in DOMAIN prefixes'
                                  /\ prefixes'[ClaimedPrefix[k]] = ShapeOf(experiment.of[k])
      BY <1>1, <2>5, <3>1 DEF Track, SetUp
    <3>3. DOMAIN prefixes' \subseteq Registered \cup PressureId
      BY <1>1, <2>2, <2>5 DEF Track, SetUp
    <3>4. \A p \in DOMAIN prefixes' \ Registered : prefixes'[p].curve = "threshold"
      BY <1>1, <2>2, <2>5 DEF Track, SetUp
    <3> QED
      BY <1>1, <2>1, <3>2, <3>3, <3>4 DEF SetUp
  <2>7. HeldPlaces(cache') \subseteq HeldPlaces(cache) \cup Lead(q, n)
    BY <2>2, <2>3, <2>4, MaterializedPlaces DEF Track
  <2>8. \A x \in Lead(q, n) : x[1] = q
    BY DEF Lead
  <2>9. HeldFit'
    <3> SUFFICES ASSUME NEW x \in HeldPlaces(cache'), x[1] \in Registered
                 PROVE  x[2] < prefixes'[x[1]].count
      BY <1>1 DEF HeldFit
    <3>1. x \in HeldPlaces(cache) /\ x[1] # q
      BY <2>2, <2>7, <2>8
    <3>2. x[1] \in DOMAIN prefixes
      BY <1>1 DEF Track, SetUp, Registered, Order
    <3> QED
      BY <2>5, <3>1, <3>2 DEF Track, HeldFit
  <2>10. HeldInserted'
    <3>1. ~ experiment'.active /\ Made' > 2 * Len(Order')
      BY <1>1, <1>3, <2>1
    <3> QED
      BY <3>1 DEF HeldInserted
  <2> QED
    BY <1>1, <1>2, <2>6, <2>9, <2>10 DEF Track
<1>11. ASSUME NEW d, FillsActive(d) PROVE Track'
  <2> DEFINE p == ClaimedPrefix[Order[m]]
  <2>1. /\ m \in 1 .. m /\ Made = m + m - 1
        /\ p \in DOMAIN prefixes /\ d \in ActiveDecisions(p) /\ ActivePrefill(p, d)
    BY <1>3, <1>11 DEF FillsActive, LastPrefix
  <2>2. prefixes' = prefixes
    BY <2>1 DEF ActivePrefill
  <2>3. prefixes[p].count \in Nat
    BY <2>1 DEF Track, IInv, IsDict, Shape
  <2>4. d.blocks \in Nat /\ d.blocks <= prefixes[p].count /\ d.prio \in {-1, 0, 1, 2}
    BY <2>1, <2>3, DecisionTyped
  <2>5. CASE d.decision = "cache_no_admit"
    <3>1. HeldPlaces(cache') = HeldPlaces(cache)
      BY <2>1, <2>5 DEF ActivePrefill
    <3> QED
      BY <1>6, <2>2, <3>1
  <2>6. CASE d.decision # "cache_no_admit"
    <3>1. Materializes(p, d.blocks, d.prio)
      BY <2>1, <2>6 DEF ActivePrefill, Materializes
    <3> QED
      BY <1>7, <2>1, <2>2, <2>4, <3>1
  <2> QED
    BY <2>5, <2>6
<1>12. ASSUME NEW i, Returns(i) PROVE Track'
  <2>1. prefixes' = prefixes /\ cache' = cache
    BY <1>12 DEF Returns, ReturnPrefix
  <2> QED
    BY <1>6, <2>1
<1> QED
  BY <1>8, <1>9, <1>10, <1>11, <1>12

\* The runs of a report.
LEMMA RowsAre ==
  /\ \E S : Rows \in Seq(S)
  /\ Rows \in Seq(ToSet(Rows)) /\ Len(Rows) \in Nat /\ Len(Rows) > 0
  /\ \A i \in 1 .. Len(Rows) : Rows[i] # None
<1>1. /\ ComparedPolicies \in Seq(ToSet(ComparedPolicies)) /\ Len(ComparedPolicies) = 6
      /\ \A i \in 1 .. 6 : ComparedPolicies[i] \in ToSet(ComparedPolicies)
  BY DEF ComparedPolicies, ToSet
<1>2. /\ ComparedGates \in Seq(ToSet(ComparedGates)) /\ Len(ComparedGates) = 4
      /\ \A i \in 1 .. 4 : ComparedGates[i] \in ToSet(ComparedGates)
  BY DEF ComparedGates, ToSet
<1>3. \/ Rows = ComparedPolicies /\ Len(Rows) = 6 /\ \A i \in 1 .. 6 : Rows[i] \in ToSet(ComparedPolicies)
      \/ Rows = ComparedGates /\ Len(Rows) = 4 /\ \A i \in 1 .. 4 : Rows[i] \in ToSet(ComparedGates)
  BY <1>1, <1>2 DEF Rows
<1>4. Rows \in Seq(ToSet(Rows))
  BY <1>1, <1>2, <1>3
<1>5. \A i \in 1 .. Len(Rows) : Rows[i] # None
  BY <1>3, RowAssumption
<1> QED
  BY <1>3, <1>4, <1>5

LEMMA EmptyHolds == HeldPlaces(EmptyCache) = {} /\ Resident(EmptyCache) = {} /\ EmptyCache.events = << >>
<1>1. \A b \in BlockId : EmptyCache.blocks[b].state = "free"
  BY DEF EmptyCache, Cleared
<1>2. Resident(EmptyCache) = {}
  BY <1>1 DEF Resident
<1>3. EmptyCache.events = << >>
  BY DEF EmptyCache
<1> QED
  BY <1>2, <1>3 DEF HeldPlaces

\* A run starts on an empty pool, and with what the experiment says of its
\* prefixes.
LEMMA StartTrack ==
  ASSUME Track, Start
  PROVE  /\ Track' /\ Made' = 0 /\ Inserted' = {}
         /\ running' # None /\ plan' = PlanOf(running'.policy)
<1> DEFINE shapes == [p \in {ClaimedPrefix[k] : k \in ToSet(experiment.order)} |->
                        ShapeOf(experiment.of[CHOOSE k \in Claim : ClaimedPrefix[k] = p])]
<1>1. /\ running = None /\ agenda # << >> /\ running' = Head(agenda) /\ agenda' = Tail(agenda)
      /\ cache' = EmptyCache /\ step' = 0 /\ accepted' = EmptyDict /\ decisions' = EmptyDict
      /\ prefixes' = shapes /\ plan' = PlanOf(Head(agenda).policy) /\ todo' = Calls
      /\ experiment' = experiment /\ results' = results
  BY DEF Start
<1>2. /\ Order' = Order /\ Rows' = Rows /\ Calls' = Calls /\ Registered' = Registered
      /\ Batch' = Batch
  BY <1>1, ExperimentStays
<1>3. PICK S : Rows \in Seq(S)
  BY RowsAre
<1>4. /\ Suffix(Tail(agenda), Rows) /\ Len(agenda) \in Nat \ {0} /\ Len(Tail(agenda)) = Len(agenda) - 1
      /\ Head(agenda) = Rows[Len(Rows) - Len(agenda) + 1]
  BY <1>1, <1>3, TailSuffix DEF Track, RunsKept
<1>5. Len(Rows) \in Nat /\ Len(agenda) <= Len(Rows) /\ \A i \in 1 .. Len(Rows) : Rows[i] # None
  BY RowsAre DEF Track, RunsKept, Suffix
<1>6. /\ Begun' = Begun + 1 /\ Begun \in Nat /\ Begun' \in 1 .. Len(Rows)
      /\ running' = Rows'[Begun'] /\ running' # None
  <2>1. Begun' = Len(Rows) - Len(Tail(agenda))
    BY <1>1, <1>2 DEF Begun
  <2>2. Begun' = Len(Rows) - Len(agenda) + 1 /\ Begun' \in 1 .. Len(Rows)
    BY <1>4, <1>5, <2>1
  <2> QED
    BY <1>1, <1>2, <1>4, <1>5, <2>2 DEF Begun
<1>7. RunsKept'
  <2>1. DOMAIN results = {Rows[i].name : i \in 1 .. Begun}
    BY <1>1 DEF Track, RunsKept
  <2>2. Begun' - 1 = Begun
    BY <1>6
  <2>3. DOMAIN results' = {Rows'[i].name : i \in 1 .. Begun' - 1}
    BY <1>1, <1>2, <2>1, <2>2
  <2>4. Suffix(agenda', Rows')
    BY <1>1, <1>2, <1>4
  <2> QED
    BY <1>6, <2>3, <2>4 DEF RunsKept
<1>8. Made' = 0 /\ CallsKept'
  <2>1. PICK C : Calls \in Seq(C)
    BY CallsAre DEF Track
  <2>2. Suffix(Calls, Calls) /\ Len(Calls) \in Nat
    BY <2>1, WholeSuffix
  <2> QED
    BY <1>1, <1>2, <2>2 DEF Made, CallsKept
<1>9. Inserted' = {}
  <2>1. Len(Order) \in Nat
    BY ExperimentFacts DEF Track
  <2>2. {j \in 1 .. Len(Order') : Len(Order') + j <= Made'} = {}
    BY <1>2, <1>8, <2>1
  <2> QED
    BY <2>2 DEF Inserted
<1>10. /\ DOMAIN prefixes' = Registered
       /\ \A k \in ToSet(Order) : /\ ClaimedPrefix[k] \in Registered
                                  /\ prefixes'[ClaimedPrefix[k]] = ShapeOf(experiment.of[k])
  <2>1. DOMAIN prefixes' = Registered
    BY <1>1 DEF Registered
  <2>2. ASSUME NEW k \in ToSet(Order)
        PROVE  /\ ClaimedPrefix[k] \in Registered
               /\ prefixes'[ClaimedPrefix[k]] = ShapeOf(experiment.of[k])
    <3>1. k \in Claim /\ \A j \in Claim : ClaimedPrefix[j] = ClaimedPrefix[k] => j = k
      BY ExperimentFacts DEF Track
    <3>2. (CHOOSE j \in Claim : ClaimedPrefix[j] = ClaimedPrefix[k]) = k
      BY <3>1
    <3>3. ClaimedPrefix[k] \in Registered
      BY DEF Registered, Order
    <3> QED
      BY <1>1, <3>2, <3>3 DEF Registered
  <2> QED
    BY <2>1, <2>2
<1>11. SetUp'
  <2>1. plan' = PlanOf(Rows[Begun'].policy)
    BY <1>1, <1>2, <1>6
  <2>3. (plan = PlanOf(Rows[Begun].policy))'
    BY <1>2, <2>1 DEF PlanOf
  <2> QED
    BY <1>1, <1>2, <1>10, <2>3 DEF SetUp
<1>12. IInv'
  <2>1. \A K, V : IsDict(EmptyDict, K, V)
    BY DEF EmptyDict, IsDict
  <2>2. 0 \in 0 .. MaxStep
    BY StepAssumption
  <2>3. IsDict(prefixes', PrefixId, Shape)
    <3>1. ASSUME NEW p \in Registered PROVE p \in PrefixId /\ prefixes'[p] \in Shape
      <4>1. p \in Prefix /\ \E i \in 1 .. Len(Order) : p = ClaimedPrefix[Order[i]] /\ Order[i] \in ToSet(Order)
        BY <3>1, ExperimentFacts DEF Track
      <4> QED
        BY <1>10, <4>1, ShapesTyped DEF PrefixId, Track
    <3> HIDE DEF shapes
    <3>2. prefixes' = [p \in DOMAIN prefixes' |-> prefixes'[p]]
      BY <1>1 DEF shapes
    <3> QED
      BY <1>10, <3>1, <3>2 DEF IsDict
  <2> QED
    BY <1>1, <2>1, <2>2, <2>3, EmptyHolds, EmptyCacheInv DEF IInv
<1>13. HeldFit' /\ HeldInserted'
  BY <1>1, EmptyHolds DEF HeldFit, HeldInserted
<1> QED
  BY <1>1, <1>6, <1>7, <1>8, <1>9, <1>11, <1>12, <1>13 DEF Track

\* Scoring a run changes nothing but the results.
LEMMA ScoreTrack ==
  ASSUME Track, Score
  PROVE  Track' /\ Begun' = Begun /\ Begun \in 1 .. Len(Rows) /\ Rows' = Rows
<1>1. /\ running # None /\ todo = << >> /\ running' = None
      /\ results' = Put(results, running.name, [scores |-> Scores, plan |-> plan])
      /\ experiment' = experiment /\ agenda' = agenda /\ plan' = plan /\ todo' = todo
      /\ cache' = cache /\ step' = step /\ prefixes' = prefixes /\ accepted' = accepted
      /\ decisions' = decisions
  BY DEF Score, runtime
<1>2. /\ Order' = Order /\ Rows' = Rows /\ Calls' = Calls /\ Registered' = Registered
      /\ Batch' = Batch
  BY <1>1, ExperimentStays
<1>3. Begun' = Begun
  BY <1>1, <1>2 DEF Begun
<1>4. Len(agenda) \in Nat /\ Len(Rows) \in Nat /\ Begun > 0 /\ Begun \in 1 .. Len(Rows)
  BY <1>1, RowsAre DEF Track, RunsKept, Suffix, Begun
<1>5. RunsKept'
  <2>1. DOMAIN results = {Rows[i].name : i \in 1 .. Begun - 1} /\ running = Rows[Begun]
    BY <1>1, <1>4 DEF Track, RunsKept
  <2>2. 1 .. Begun = (1 .. Begun - 1) \cup {Begun}
    BY <1>4
  <2>3. DOMAIN results' = {Rows[i].name : i \in 1 .. Begun}
    BY <1>1, <2>1, <2>2 DEF Put
  <2> QED
    BY <1>1, <1>2, <1>3, <2>3 DEF Track, RunsKept
<1>6. SetUp'
  <2>1. PlanOf(Rows[Begun].policy)' = PlanOf(Rows[Begun].policy)
    BY <1>2, <1>3 DEF PlanOf
  <2> QED
    BY <1>1, <1>2, <1>3, <2>1 DEF SetUp, Track
<1>7. IInv' /\ HeldFit' /\ HeldInserted' /\ CallsKept'
  BY <1>1, <1>2 DEF Track, IInv, HeldFit, HeldInserted, CallsKept
<1> QED
  BY <1>1, <1>2, <1>3, <1>4, <1>5, <1>6, <1>7 DEF Track

LEMMA IdleTrack ==
  ASSUME Track, UNCHANGED allVars
  PROVE  Track'
<1>1. /\ running' = running /\ todo' = todo /\ results' = results
      /\ experiment' = experiment /\ agenda' = agenda /\ plan' = plan
      /\ cache' = cache /\ step' = step /\ prefixes' = prefixes /\ accepted' = accepted
      /\ decisions' = decisions
  BY DEF allVars, runtime, report
<1>2. /\ Order' = Order /\ Rows' = Rows /\ Calls' = Calls /\ Registered' = Registered
      /\ Batch' = Batch
  BY <1>1, ExperimentStays
<1>3. Begun' = Begun /\ Made' = Made
  BY <1>1, <1>2 DEF Begun, Made
<1>4. Inserted' = Inserted
  BY <1>2, <1>3 DEF Inserted
<1>5. SetUp'
  <2>1. PlanOf(Rows[Begun].policy)' = PlanOf(Rows[Begun].policy)
    BY <1>2, <1>3 DEF PlanOf
  <2> QED
    BY <1>1, <1>2, <1>3, <2>1 DEF SetUp, Track
<1>6. RunsKept'
  BY <1>1, <1>2, <1>3 DEF Track, RunsKept
<1>7. IInv' /\ HeldFit' /\ CallsKept'
  BY <1>1, <1>2 DEF Track, IInv, HeldFit, CallsKept
<1>8. HeldInserted'
  BY <1>1, <1>2, <1>3, <1>4 DEF Track, HeldInserted
<1> QED
  BY <1>1, <1>5, <1>6, <1>7, <1>8 DEF Track

LEMMA InitTrack == ReportInit => Track
<1> SUFFICES ASSUME ReportInit PROVE Track
  OBVIOUS
<1>1. /\ cache = EmptyCache /\ step = 0 /\ prefixes = EmptyDict
      /\ accepted = EmptyDict /\ decisions = EmptyDict /\ experiment \in Experiments
      /\ agenda = Rows /\ running = None /\ results = EmptyDict
  BY DEF ReportInit, Rows
<1>2. IInv
  <2>1. \A K, V : IsDict(EmptyDict, K, V)
    BY DEF EmptyDict, IsDict
  <2>2. 0 \in 0 .. MaxStep
    BY StepAssumption
  <2> QED
    BY <1>1, <2>1, <2>2, EmptyHolds, EmptyCacheInv DEF IInv
<1>3. Begun = 0 /\ Suffix(agenda, Rows)
  <2>1. PICK S : Rows \in Seq(S)
    BY RowsAre
  <2> QED
    BY <1>1, <2>1, WholeSuffix, RowsAre DEF Begun
<1>4. RunsKept
  <2>1. DOMAIN results = {} /\ 1 .. 0 = {}
    BY <1>1 DEF EmptyDict
  <2> QED
    BY <1>1, <1>3, <2>1 DEF RunsKept
<1>5. SetUp /\ CallsKept /\ HeldFit /\ HeldInserted
  BY <1>1, <1>3, EmptyHolds DEF SetUp, CallsKept, HeldFit, HeldInserted
<1> QED
  BY <1>1, <1>2, <1>4, <1>5 DEF Track

\* Every step of a report keeps the invariant.
LEMMA NextTrack == Track /\ [ReportNext]_allVars => Track'
<1> SUFFICES ASSUME Track, [ReportNext]_allVars PROVE Track'
  OBVIOUS
<1>1. CASE ReportNext
  BY <1>1, RunSteps, StartTrack, ScoreTrack, CallTrack
<1>2. CASE UNCHANGED allVars
  BY <1>2, IdleTrack
<1> QED
  BY <1>1, <1>2

LEMMA AlwaysTrack == ReportSpec => []Track
  BY InitTrack, NextTrack, PTL DEF ReportSpec

-----------------------------------------------------------------------------
(* What a prefill does to the pool.                                        *)

LEMMA EvictsOneMore ==
  ASSUME NEW S, NEW s \in Seq(S), NEW e
  PROVE  /\ Evicts(s) \in Nat
         /\ Evicts(Append(s, e)) = Evicts(s) + (IF e.event = "evict" THEN 1 ELSE 0)
<1> DEFINE old == {i \in 1 .. Len(s) : s[i].event = "evict"}
           t == Append(s, e)
           new == {i \in 1 .. Len(t) : t[i].event = "evict"}
           last == Len(s) + 1
<1>1. Len(s) \in Nat /\ Evicts(s) = Cardinality(old)
  <2>1. DOMAIN s = 1 .. Len(s) /\ Len(s) \in Nat
    OBVIOUS
  <2>2. {i \in DOMAIN s : s[i].event = "evict"} = old
    BY <2>1
  <2> QED
    BY <2>1, <2>2 DEF Evicts
<1>2. /\ Len(t) = last /\ DOMAIN t = 1 .. Len(t) /\ t[last] = e
      /\ \A i \in 1 .. Len(s) : t[i] = s[i]
  <2>1. s \in Seq(S \cup {e}) /\ e \in S \cup {e}
    OBVIOUS
  <2> QED
    BY <2>1, AppendProperties
<1> HIDE DEF t
<1>3. Evicts(t) = Cardinality(new)
  BY <1>2 DEF Evicts
<1>4. IsFiniteSet(old) /\ Cardinality(old) \in Nat /\ last \notin old
  <2>1. IsFiniteSet(1 .. Len(s))
    BY <1>1, FS_Interval
  <2>2. old \subseteq 1 .. Len(s)
    OBVIOUS
  <2>3. last \notin 1 .. Len(s)
    BY <1>1
  <2> QED
    BY <2>1, <2>2, <2>3, FS_Subset, FS_CardinalityType
<1>5. new = IF e.event = "evict" THEN old \cup {last} ELSE old
  BY <1>1, <1>2
<1> HIDE DEF old, new, last
<1>6. Cardinality(old \cup {last}) = Cardinality(old) + 1
  BY <1>4, FS_AddElement
<1> QED
  BY <1>1, <1>3, <1>4, <1>5, <1>6 DEF t

Used(c) == Cardinality(Resident(c))

\* The pool of d is that of c with n blocks more, as far as they fit, and as
\* many evictions as they do not.
Squeezes(d, c, n) ==
  /\ \E S : d.events \in Seq(S)
  /\ Used(d) = IF Used(c) + n < Capacity THEN Used(c) + n ELSE Capacity
  /\ Evicts(d.events) = Evicts(c.events) + AtLeast0(Used(c) + n - Capacity)

LEMMA UsedCounts ==
  ASSUME NEW c
  PROVE  /\ IsFiniteSet(Resident(c)) /\ Used(c) \in Nat /\ Used(c) <= Capacity
         /\ Resident(c) = BlockId <=> Used(c) = Capacity
         /\ Cardinality(BlockId \ Resident(c)) = Capacity - Used(c)
         /\ IsFiniteSet(BlockId \ Resident(c))
<1>1. IsFiniteSet(BlockId) /\ Cardinality(BlockId) = Capacity
  BY FS_Interval, CapacityAssumption DEF BlockId
<1>2. Resident(c) \in SUBSET BlockId
  BY DEF Resident
<1>3. IsFiniteSet(Resident(c)) /\ Used(c) \in Nat /\ Used(c) <= Capacity
  BY <1>1, <1>2, FS_Subset, FS_CardinalityType DEF Used
<1>4. /\ IsFiniteSet(BlockId \ Resident(c))
      /\ Cardinality(BlockId \ Resident(c)) = Cardinality(BlockId) - Cardinality(BlockId \cap Resident(c))
  BY <1>1, <1>2, FS_Difference, FS_Subset
<1>5. BlockId \cap Resident(c) = Resident(c)
  BY <1>2
<1>6. Cardinality(BlockId \ Resident(c)) = Capacity - Used(c)
  BY <1>1, <1>4, <1>5 DEF Used
<1>7. Used(c) = Capacity => Resident(c) = BlockId
  <2> SUFFICES ASSUME Used(c) = Capacity PROVE Resident(c) = BlockId
    OBVIOUS
  <2>1. Cardinality(BlockId \ Resident(c)) = 0
    BY <1>6, CapacityAssumption
  <2>2. BlockId \ Resident(c) = {}
    BY <1>4, <2>1, FS_EmptySet
  <2> QED
    BY <1>2, <2>2
<1> QED
  BY <1>1, <1>3, <1>4, <1>6, <1>7 DEF Used

LEMMA InsertPositionSqueezes ==
  ASSUME NEW c, CacheInv(c), NEW acc, AcceptedType(acc), Covered(c, acc),
         NEW p \in PrefixId, NEW i \in Nat, NEW prio \in {-1, 0, 1, 2}, NEW now \in Nat,
         <<p, i>> \notin HeldPlaces(c), NEW S, c.events \in Seq(S)
  PROVE  Squeezes(InsertPosition(c, acc, p, i, prio, now), c, 1)
<1> DEFINE m == MakeRoom(c, now)
           d == Fill(m, acc, p, i, prio, now)
<1>1. i \notin ResidentPositions(c, p)
  BY DEF ResidentPositions, HeldPlaces, Place, CacheInv, ResidentIndexed
<1>2. InsertPosition(c, acc, p, i, prio, now) = d
  BY <1>1 DEF InsertPosition
<1>3. /\ CacheInv(m) /\ Covered(m, acc) /\ m.freeBlocks # << >>
      /\ Resident(m) \subseteq Resident(c)
      /\ \A a \in Resident(m) : m.blocks[a] = c.blocks[a]
  BY MakeRoomInv
<1>4. IF Resident(c) = BlockId
        THEN /\ Used(m) = Capacity - 1 /\ Evicts(m.events) = Evicts(c.events) + 1
             /\ \E T : m.events \in Seq(T)
        ELSE m = c
  <2>1. CASE c.freeBlocks # << >>
    <3>1. Resident(c) # BlockId
      <4>1. Lists(c.freeBlocks, BlockId \ Resident(c))
        BY DEF CacheInv
      <4> DEFINE f == c.freeBlocks
      <4>2. f \in Seq(BlockId) /\ \A x : x \in BlockId \ Resident(c) <=> \E k \in 1 .. Len(f) : f[k] = x
        BY <4>1 DEF Lists
      <4>3. 1 \in 1 .. Len(f)
        BY <2>1, <4>2
      <4>4. f[1] \in BlockId \ Resident(c)
        BY <4>2, <4>3
      <4> QED
        BY <4>4
    <3>2. m = c
      BY <2>1 DEF MakeRoom
    <3> QED
      BY <3>1, <3>2
  <2>2. CASE c.freeBlocks = << >>
    <3>1. 0 \in BlockId
      BY CapacityAssumption DEF BlockId
    <3>2. Len(c.freeBlocks) = 0
      BY <2>2, EmptySeq
    <3>3. Resident(c) = BlockId /\ Resident(c) # {}
      BY <3>1, <3>2 DEF CacheInv, Lists, Resident
    <3>4. m = EvictOne(c, now)
      BY <2>2 DEF MakeRoom
    <3>5. PICK v \in Resident(c) : Resident(m) = Resident(c) \ {v}
      BY <3>3, <3>4, EvictOneInv
    <3>6. Used(m) = Capacity - 1
      <4>1. Cardinality(Resident(c) \ {v}) = Cardinality(Resident(c)) - 1
        BY UsedCounts, FS_RemoveElement
      <4>2. Cardinality(Resident(c)) = Capacity
        BY <3>3, UsedCounts DEF Used
      <4> QED
        BY <3>5, <4>1, <4>2 DEF Used
    <3>7. \E e : e.event = "evict" /\ m.events = Append(c.events, e)
      <4> DEFINE b == Victim(c)
                 f == FreeBlock(c, b, now)
                 e == EvictEvent(c, b)
      <4>1. b \in Resident(c)
        BY <3>3, VictimIsResident
      <4> HIDE DEF b
      <4>2. CacheInv(f)
        BY <4>1, FreeBlockInv
      <4>3. f.events = c.events /\ DOMAIN f = DOMAIN EmptyCache
        BY <4>2 DEF FreeBlock, EmptyCache, CacheInv, CacheType
      <4> HIDE DEF f
      <4>4. m.events = Append(c.events, e)
        BY <3>4, <4>3 DEF EvictOne, EmptyCache, f, b
      <4>5. e.event = "evict"
        BY DEF EvictEvent
      <4> QED
        BY <4>4, <4>5
    <3>8. PICK e : e.event = "evict" /\ m.events = Append(c.events, e)
      BY <3>7
    <3>9. Evicts(m.events) = Evicts(c.events) + 1
      BY <3>8, EvictsOneMore
    <3>10. m.events \in Seq(S \cup {e})
      BY <3>8
    <3> QED
      BY <3>3, <3>6, <3>9, <3>10
  <2> QED
    BY <2>1, <2>2
<1>5. \A a \in Resident(m) : Place(m, a) # <<p, i>>
  BY <1>3 DEF Place, HeldPlaces
<1> HIDE DEF m
<1>6. PICK b \in BlockId \ Resident(m) : Resident(d) = Resident(m) \cup {b}
  BY <1>3, <1>5, FillInv
<1>7. Used(d) = Used(m) + 1
  BY <1>6, UsedCounts, FS_AddElement DEF Used
<1>8. \E e : e.event = "insert" /\ d.events = Append(m.events, e)
  <2> DEFINE e == [event |-> "insert", block |-> Head(m.freeBlocks), prefix |-> p, pos |-> i,
                   claims |-> ClaimIdsFor(acc, p, i)]
  <2>1. DOMAIN m = DOMAIN EmptyCache
    BY <1>3 DEF CacheInv, CacheType
  <2>2. d.events = Append(m.events, e)
    BY <2>1 DEF Fill, EmptyCache
  <2> QED
    BY <2>2
<1>9. PICK T : m.events \in Seq(T)
  BY <1>4
<1> HIDE DEF d
<1>10. PICK e : e.event = "insert" /\ d.events = Append(m.events, e)
  BY <1>8
<1>11. Evicts(d.events) = Evicts(m.events) /\ Evicts(m.events) \in Nat
  BY <1>9, <1>10, EvictsOneMore
<1>12. d.events \in Seq(T \cup {e})
  BY <1>9, <1>10
<1>13. Evicts(c.events) \in Nat
  BY EvictsOneMore
<1>14. /\ Used(c) \in Nat /\ Used(m) \in Nat /\ Used(c) <= Capacity /\ Capacity \in Nat \ {0}
       /\ Resident(c) = BlockId <=> Used(c) = Capacity
  BY UsedCounts, CapacityAssumption
<1>15. CASE Resident(c) = BlockId
  <2>1. Used(d) = Capacity /\ Evicts(d.events) = Evicts(c.events) + 1
    BY <1>4, <1>7, <1>11, <1>13, <1>14, <1>15
  <2> QED
    BY <1>2, <1>12, <1>14, <1>15, <2>1 DEF Squeezes, AtLeast0
<1>16. CASE Resident(c) # BlockId
  <2>1. Used(d) = Used(c) + 1 /\ Used(c) < Capacity /\ Evicts(d.events) = Evicts(c.events)
    BY <1>4, <1>7, <1>11, <1>13, <1>14, <1>16
  <2> QED
    BY <1>2, <1>12, <1>13, <1>14, <1>16, <2>1 DEF Squeezes, AtLeast0
<1> QED
  BY <1>15, <1>16

\* None of the prefix being resident, every position takes a block.
LEMMA InsertLeadingSqueezes ==
  ASSUME NEW c, CacheInv(c), NEW acc, AcceptedType(acc), Covered(c, acc),
         NEW p \in PrefixId, NEW n \in Nat, NEW prio \in {-1, 0, 1, 2}, NEW now \in Nat,
         \A x \in HeldPlaces(c) : x[1] # p, c.events = << >>
  PROVE  Squeezes(InsertLeading(c, acc, p, n, prio, now), c, n)
<1>1. PICK g : Rounds(g, c, acc, p, n, prio, now)
  BY InsertLeadingRounds
<1>2. /\ g[0] = c /\ g[n] = InsertLeading(c, acc, p, n, prio, now)
      /\ \A i \in 0 .. n - 1 : g[i+1] = InsertPosition(g[i], acc, p, i, prio, now)
      /\ \A i \in 0 .. n : /\ CacheInv(g[i]) /\ Covered(g[i], acc)
                           /\ HeldPlaces(g[i]) \subseteq HeldPlaces(c) \cup Lead(p, i)
  BY <1>1 DEF Rounds, Brings
<1>3. /\ Used(c) \in Nat /\ Used(c) <= Capacity /\ Capacity \in Nat \ {0}
      /\ Evicts(c.events) \in Nat /\ c.events \in Seq({})
  <2>1. c.events \in Seq({})
    OBVIOUS
  <2>2. Evicts(c.events) \in Nat
    BY <2>1, EvictsOneMore
  <2> QED
    BY <2>1, <2>2, UsedCounts, CapacityAssumption
<1> DEFINE T == {i \in Nat : i <= n => Squeezes(g[i], c, i)}
<1>4. 0 \in T
  <2>1. Squeezes(c, c, 0)
    BY <1>3 DEF Squeezes, AtLeast0
  <2> QED
    BY <1>2, <2>1
<1>5. ASSUME NEW i \in T PROVE i + 1 \in T
  <2> SUFFICES ASSUME i + 1 <= n PROVE Squeezes(g[i+1], c, i + 1)
    OBVIOUS
  <2>1. i \in Nat /\ i \in 0 .. n - 1 /\ i \in 0 .. n
    OBVIOUS
  <2> DEFINE m == g[i]
             d == g[i+1]
  <2>2. Squeezes(m, c, i)
    BY <2>1
  <2>3. <<p, i>> \notin HeldPlaces(m)
    BY <1>2, <2>1 DEF Lead
  <2>4. CacheInv(m) /\ Covered(m, acc) /\ d = InsertPosition(m, acc, p, i, prio, now)
    BY <1>2, <2>1
  <2> HIDE DEF m, d
  <2>5. PICK S : m.events \in Seq(S)
    BY <2>2 DEF Squeezes
  <2>6. Squeezes(d, m, 1)
    BY <2>1, <2>3, <2>4, <2>5, InsertPositionSqueezes
  <2>7. Squeezes(d, c, i + 1)
    BY <1>3, <2>1, <2>2, <2>6 DEF Squeezes, AtLeast0
  <2> QED
    BY <2>7 DEF d
<1>6. T = Nat
  <2> HIDE DEF T
  <2> QED
    BY <1>4, <1>5, NatInductionOnSets DEF T
<1>7. Squeezes(g[n], c, n)
  BY <1>6
<1> QED
  BY <1>2, <1>7

-----------------------------------------------------------------------------
(* The pressure of a run is the number of its evictions.                   *)

LEMMA RegisteredFacts ==
  ASSUME Track
  PROVE  /\ IsFiniteSet(Registered) /\ Registered \subseteq Prefix
         /\ Inserted \subseteq Registered /\ IsFiniteSet(Inserted)
         /\ Begun > 0 =>
              \A p \in Registered :
                /\ p \in DOMAIN prefixes /\ prefixes[p] \in Shape /\ PrefillCounts[p] \in Nat
                /\ PrefillCounts[p] = prefixes[p].count
<1> DEFINE m == Len(Order)
           f == [i \in 1 .. m |-> ClaimedPrefix[Order[i]]]
<1>1. /\ m \in Nat /\ Registered \subseteq Prefix
      /\ \A i \in 1 .. m : ClaimedPrefix[Order[i]] \in Registered
      /\ \A p \in Registered : \E i \in 1 .. m : p = ClaimedPrefix[Order[i]] /\ Order[i] \in ToSet(Order)
  BY ExperimentFacts DEF Track
<1>2. IsFiniteSet(Registered)
  <2>1. IsFiniteSet(1 .. m)
    BY <1>1, FS_Interval
  <2>2. f \in [1 .. m -> Registered] /\ \A p \in Registered : \E i \in 1 .. m : f[i] = p
    BY <1>1
  <2>3. f \in Surjection(1 .. m, Registered)
    BY <2>2 DEF Surjection
  <2> QED
    BY <2>1, <2>3, FS_Surjection
<1>3. Inserted \subseteq Registered
  BY <1>1 DEF Inserted
<1>4. IsFiniteSet(Inserted)
  BY <1>2, <1>3, FS_Subset
<1>5. ASSUME Begun > 0, NEW p \in Registered
      PROVE  /\ p \in DOMAIN prefixes /\ prefixes[p] \in Shape /\ PrefillCounts[p] \in Nat
             /\ PrefillCounts[p] = prefixes[p].count
  <2>1. p \in DOMAIN prefixes
    BY <1>1, <1>5 DEF Track, SetUp
  <2>2. prefixes[p] \in Shape
    BY <2>1 DEF Track, IInv, IsDict
  <2> QED
    BY <2>1, <2>2 DEF Shape, PrefillCounts
<1> QED
  BY <1>1, <1>2, <1>3, <1>4, <1>5

LEMMA FilledTyped ==
  ASSUME Track, Begun > 0
  PROVE  Filled \in Nat /\ Total(PrefillCounts, Inserted) \in Nat
<1>1. Total(PrefillCounts, Inserted) \in Nat
  BY RegisteredFacts, TotalGrows
<1>2. experiment.pressure \in Nat
  <2> DEFINE n == experiment.pressure
  <2>1. n \in PressureSizes \cup {0}
    BY ExperimentAssumption DEF Track
  <2> HIDE DEF n
  <2>2. n \in Nat
    BY <2>1, SizeAssumption
  <2> QED
    BY <2>2 DEF n
<1> QED
  BY <1>1, <1>2 DEF Filled

\* A prefill of something that is not resident.
LEMMA FreshFill ==
  ASSUME IInv, NEW p \in PrefixId, NEW n \in Nat, \A x \in HeldPlaces(cache) : x[1] # p,
         Materializes(p, n, 0),
         runtimeEvents' = InsertLeading(cache, accepted, p, n, 0, Now).events,
         evictions' = evictions + Evicts(runtimeEvents'), NEW F \in Nat,
         Used(cache) = IF F < Capacity THEN F ELSE Capacity,
         evictions = AtLeast0(F - Capacity)
  PROVE  /\ Used(cache') = IF F + n < Capacity THEN F + n ELSE Capacity
         /\ evictions' = AtLeast0(F + n - Capacity)
<1> DEFINE d == InsertLeading(cache, accepted, p, n, 0, Now)
<1>1. /\ Now \in Nat /\ CacheInv(cache) /\ Covered(cache, accepted) /\ AcceptedType(accepted)
      /\ cache.events = << >> /\ 0 \in {-1, 0, 1, 2}
  BY AcceptedIsTyped DEF IInv, Now
<1>2. CacheInv(d) /\ Covered(d, accepted)
  BY <1>1, InsertLeadingInv
<1>3. Squeezes(d, cache, n)
  BY <1>1, InsertLeadingSqueezes
<1>4. cache' = Settled(d) /\ runtimeEvents' = d.events
  BY DEF Materializes
<1> HIDE DEF d
<1>5. Used(cache') = Used(d)
  BY <1>2, <1>4, SettledInv DEF Used
<1>6. Evicts(cache.events) = 0
  <2>1. {i \in DOMAIN << >> : << >>[i].event = "evict"} = {}
    OBVIOUS
  <2>2. Evicts(<< >>) = 0
    BY <2>1, FS_EmptySet DEF Evicts
  <2> QED
    BY <1>1, <2>2
<1>7. Capacity \in Nat \ {0}
  BY CapacityAssumption
<1> QED
  BY <1>3, <1>4, <1>5, <1>6, <1>7 DEF Squeezes, AtLeast0

LEMMA CallPressure ==
  ASSUME Track, PressureInv, running # None, todo # << >>, Called, ~ experiment.active,
         \/ \E i, c : Admits(i, c)
         \/ \E i : Prefills(i)
         \/ Presses
  PROVE  PressureInv'
<1> DEFINE m == Len(Order)
<1>1. /\ experiment' = experiment /\ Order' = Order /\ Registered' = Registered
      /\ Begun > 0 /\ Made' = Made + 1 /\ evictions' = evictions + Evicts(runtimeEvents')
      /\ (Begun > 0)'
  BY CalledKeeps DEF Called
<1>2. /\ m \in Nat /\ Made \in Nat /\ Registered \subseteq Prefix
      /\ \A j \in 1 .. m : /\ ClaimedPrefix[Order[j]] \in Registered
                           /\ ClaimedPrefix[Order[j]] \in PrefixId
  BY ExperimentFacts, NextCall DEF Track, PrefixId
<1>3. /\ IInv /\ Filled \in Nat /\ Total(PrefillCounts, Inserted) \in Nat
      /\ Used(cache) = (IF Filled < Capacity THEN Filled ELSE Capacity)
      /\ evictions = AtLeast0(Filled - Capacity)
  BY <1>1, FilledTyped DEF PressureInv, Used, Track
<1>4. /\ IsFiniteSet(Inserted) /\ Inserted \subseteq Registered
      /\ \A p \in Registered : PrefillCounts[p] \in Nat /\ PrefillCounts[p] = prefixes[p].count
                               /\ p \in DOMAIN prefixes
  BY <1>1, RegisteredFacts
<1>5. ASSUME NEW n \in Nat, Filled' = Filled + n,
             Used(cache') = IF Filled + n < Capacity THEN Filled + n ELSE Capacity,
             evictions' = AtLeast0(Filled + n - Capacity)
      PROVE  PressureInv'
  <2>1. Cardinality(Resident(cache')) = IF Filled' < Capacity THEN Filled' ELSE Capacity
    BY <1>5 DEF Used
  <2>2. evictions' = AtLeast0(Filled' - Capacity)
    <3>1. Filled \in Nat /\ Capacity \in Nat
      BY <1>3, CapacityAssumption
    <3>2. Filled + n - Capacity = Filled' - Capacity
      BY <1>5, <3>1
    <3> QED
      BY <1>5, <3>2
  <2> QED
    BY <2>1, <2>2 DEF PressureInv
<1>6. ASSUME NEW i, NEW c, Admits(i, c) PROVE PressureInv'
  <2>1. /\ i \in 1 .. m /\ Made = i - 1 /\ AdmitClaim(Order[i], GrantOf(c)) /\ Order[i] \in Claim
        /\ ClaimedPrefix[Order[i]] \in PrefixId
    BY <1>2, <1>6, ExperimentFacts DEF Admits, Track
  <2>2. prefixes' = prefixes
    BY <2>1 DEF AdmitClaim
  <2>3. Used(cache') = Used(cache)
    <3>1. GrantOf(c) \in Nat
      BY <2>1 DEF AdmitClaim, Track, IInv, IsDict, Shape
    <3>2. CASE GrantOf(c) = 0
      BY <2>1, <3>2 DEF AdmitClaim
    <3>3. CASE GrantOf(c) # 0
      <4>1. cache' = ProtectExisting(cache, Order[i], ClaimedPrefix[Order[i]], GrantOf(c))
        BY <2>1, <3>3 DEF AdmitClaim
      <4>2. Residency(cache') = Residency(cache)
        BY <2>1, <3>1, <4>1, AdmissionKeepsPlaces DEF Track, IInv
      <4>3. \A d : Resident(d) = {x[1] : x \in Residency(d)}
        <5> TAKE d
        <5> DEFINE x(b) == <<b, d.blocks[b].owner, d.blocks[b].pos>>
        <5>1. \A b \in Resident(d) : x(b)[1] = b
          OBVIOUS
        <5>2. Residency(d) = {x(b) : b \in Resident(d)}
          BY DEF Residency
        <5> HIDE DEF x
        <5> QED
          BY <5>1, <5>2
      <4>4. Resident(cache') = Resident(cache)
        BY <4>2, <4>3
      <4> QED
        BY <4>4 DEF Used
    <3> QED
      BY <3>2, <3>3
  <2>4. Evicts(runtimeEvents') = 0
    <3> DEFINE e == [event |-> "claim_decision", claim |-> Order[i], blocks |-> GrantOf(c)]
    <3>1. runtimeEvents' = <<e>> /\ e.event # "evict"
      BY <2>1 DEF AdmitClaim
    <3> HIDE DEF e
    <3>2. DOMAIN <<e>> = {1} /\ <<e>>[1] = e
      OBVIOUS
    <3>3. {j \in DOMAIN <<e>> : <<e>>[j].event = "evict"} = {}
      BY <3>1, <3>2
    <3> QED
      BY <3>1, <3>3, FS_EmptySet DEF Evicts
  <2>5. Inserted' = Inserted
    <3>1. Made + 1 - m \notin 1 .. m
      BY <1>2, <2>1
    <3> QED
      BY <3>1, InsertedGrows
  <2>6. Filled' = Filled
    <3>1. PrefillCounts' = PrefillCounts
      BY <1>1, <2>2 DEF PrefillCounts
    <3>2. ~ (Made > 2 * m) /\ ~ (Made' > 2 * m)
      BY <1>1, <1>2, <2>1
    <3> QED
      BY <1>1, <2>5, <3>1, <3>2 DEF Filled
  <2>7. evictions' = evictions
    BY <1>1, <1>3, <2>4, CapacityAssumption DEF AtLeast0
  <2> QED
    BY <1>3, <2>3, <2>6, <2>7 DEF PressureInv, Used
<1>7. ASSUME NEW i, Prefills(i) PROVE PressureInv'
  <2> DEFINE p == ClaimedPrefix[Order[i]]
             n == prefixes[p].count
  <2>1. i \in 1 .. m /\ Made = m + i - 1 /\ Prefill(p)
    BY <1>7 DEF Prefills
  <2>2. /\ prefixes' = prefixes /\ Materializes(p, n, 0)
        /\ runtimeEvents' = InsertLeading(cache, accepted, p, n, 0, Now).events
    BY <2>1 DEF Prefill, Materializes
  <2>3. p \in Registered /\ p \in PrefixId /\ n \in Nat /\ n = PrefillCounts[p]
    BY <1>2, <1>4, <2>1
  <2> HIDE DEF n
  <2>4. p \notin Inserted /\ Inserted' = Inserted \cup {p}
    <3>1. Made + 1 - m = i
      BY <1>2, <2>1
    <3> QED
      BY <2>1, <3>1, InsertedGrows
  <2> HIDE DEF p
  <2>5. \A x \in HeldPlaces(cache) : x[1] # p
    <3>1. ~ (Made > 2 * m)
      BY <1>2, <2>1
    <3> QED
      BY <2>4, <3>1 DEF Track, HeldInserted
  <2>6. Filled' = Filled + n
    <3>1. PrefillCounts' = PrefillCounts
      BY <1>1, <2>2 DEF PrefillCounts
    <3>2. ~ (Made > 2 * m) /\ ~ (Made' > 2 * m)
      BY <1>1, <1>2, <2>1
    <3>3. Total(PrefillCounts, Inserted \cup {p}) = PrefillCounts[p] + Total(PrefillCounts, Inserted)
      <4>1. \A y \in Inserted \cup {p} : PrefillCounts[y] \in Int
        BY <1>4, <2>3
      <4> QED
        BY <1>4, <2>4, <4>1, TotalAdd
    <3> QED
      BY <1>1, <1>3, <2>3, <2>4, <3>1, <3>2, <3>3 DEF Filled
  <2>7. /\ Used(cache') = IF Filled + n < Capacity THEN Filled + n ELSE Capacity
        /\ evictions' = AtLeast0(Filled + n - Capacity)
    BY <1>1, <1>3, <2>2, <2>3, <2>5, FreshFill
  <2> QED
    BY <1>5, <2>3, <2>6, <2>7
<1>8. ASSUME Presses PROVE PressureInv'
  <2> DEFINE q == <<"__pressure__", Now>>
             n == experiment.pressure
  <2>1. ~ experiment.active /\ Made = 2 * m /\ Pressure(n)
    BY <1>8 DEF Presses
  <2>2. q \in PrefixId /\ q \notin Registered
    BY <1>2, IdAssumption DEF PressureId, PrefixId, Now, Track, IInv
  <2>3. n \in Nat
    <3>1. n \in PressureSizes \cup {0}
      BY ExperimentAssumption DEF Track
    <3> HIDE DEF n
    <3> QED
      BY <3>1, SizeAssumption
  <2>4. /\ prefixes' = Put(prefixes, q, [count |-> n, threshold |-> n + 1, value |-> 0,
                                         curve |-> "threshold"])
        /\ Materializes(q, n, 0)
        /\ runtimeEvents' = InsertLeading(cache, accepted, q, n, 0, Now).events
    BY <2>1 DEF Pressure, Materializes
  <2> HIDE DEF q
  <2>5. \A p \in DOMAIN prefixes : p # q => prefixes'[p] = prefixes[p]
    BY <2>4 DEF Put
  <2>6. PrefillCounts' = PrefillCounts
    <3>1. \A p \in Registered : prefixes'[p] = prefixes[p]
      BY <1>4, <2>2, <2>5
    <3> QED
      BY <1>1, <3>1 DEF PrefillCounts
  <2>7. Inserted' = Inserted
    <3>1. Made + 1 - m \notin 1 .. m
      BY <1>2, <2>1
    <3> QED
      BY <3>1, InsertedGrows
  <2>8. Filled' = Filled + n
    <3>1. ~ (Made > 2 * m) /\ Made' > 2 * m
      BY <1>1, <1>2, <2>1
    <3>2. Filled = Total(PrefillCounts, Inserted) /\ Filled' = Total(PrefillCounts, Inserted) + n
      BY <1>1, <1>3, <2>6, <2>7, <3>1 DEF Filled
    <3> QED
      BY <3>2
  <2>9. \A x \in HeldPlaces(cache) : x[1] # q
    <3>1. ~ (Made > 2 * m)
      BY <1>2, <2>1
    <3> QED
      BY <1>4, <2>2, <3>1 DEF Track, HeldInserted
  <2> HIDE DEF n
  <2>10. /\ Used(cache') = IF Filled + n < Capacity THEN Filled + n ELSE Capacity
         /\ evictions' = AtLeast0(Filled + n - Capacity)
    BY <1>1, <1>3, <2>2, <2>3, <2>4, <2>9, FreshFill
  <2> QED
    BY <1>5, <2>3, <2>8, <2>10
<1> QED
  BY <1>6, <1>7, <1>8

LEMMA NextPressure == Track /\ PressureInv /\ [ReportNext]_allVars => PressureInv'
<1> SUFFICES ASSUME Track, PressureInv, [ReportNext]_allVars PROVE PressureInv'
  OBVIOUS
<1>1. CASE Start
  <2>1. /\ cache' = EmptyCache /\ Made' = 0 /\ Inserted' = {} /\ Track' /\ running' # None
        /\ evictions' = 0 /\ Order' = Order
    BY <1>1, StartTrack, ExperimentStays DEF Start
  <2>2. Used(cache') = 0
    BY <2>1, EmptyHolds, FS_EmptySet DEF Used
  <2>3. Filled' = 0
    <3>1. Len(Order) \in Nat
      BY ExperimentFacts DEF Track
    <3>2. ~ (Made' > 2 * Len(Order'))
      BY <2>1, <3>1
    <3> QED
      BY <2>1, <3>2, TotalNothing DEF Filled
  <2>4. /\ Cardinality(Resident(cache')) = IF Filled' < Capacity THEN Filled' ELSE Capacity
        /\ evictions' = AtLeast0(Filled' - Capacity)
    BY <2>1, <2>2, <2>3, CapacityAssumption DEF Used, AtLeast0
  <2> QED
    BY <2>4 DEF PressureInv
<1>2. CASE Score
  BY <1>2 DEF Score, PressureInv
<1>3. ASSUME running # None, todo # << >>, Called,
             \/ \E i, c : Admits(i, c)
             \/ \E i : Prefills(i)
             \/ Presses
             \/ \E d : FillsActive(d)
             \/ \E i : Returns(i)
      PROVE  PressureInv'
  <2>1. CASE experiment.active
    <3>1. experiment' = experiment
      BY <1>3 DEF Called
    <3> QED
      BY <2>1, <3>1 DEF PressureInv
  <2>2. CASE ~ experiment.active
    <3>1. ~ (\E d : FillsActive(d)) /\ ~ (\E i : Returns(i))
      BY <2>2 DEF FillsActive, Returns
    <3> QED
      BY <1>3, <2>2, <3>1, CallPressure
  <2> QED
    BY <2>1, <2>2
<1>4. CASE UNCHANGED allVars
  <2>1. /\ running' = running /\ experiment' = experiment /\ cache' = cache /\ evictions' = evictions
        /\ todo' = todo /\ prefixes' = prefixes
    BY <1>4 DEF allVars, runtime, report
  <2>2. Order' = Order /\ Made' = Made /\ Registered' = Registered
    BY <2>1, ExperimentStays DEF Made
  <2>3. Filled' = Filled
    BY <2>1, <2>2 DEF Filled, Inserted, PrefillCounts
  <2> QED
    BY <2>1, <2>3 DEF PressureInv
<1> QED
  BY <1>1, <1>2, <1>3, <1>4, RunSteps

LEMMA ListsCounts ==
  ASSUME NEW s, NEW S, Lists(s, S)
  PROVE  IsFiniteSet(S) /\ Cardinality(S) = Len(s)
<1> DEFINE I == 1 .. Len(s)
           f == [i \in I |-> s[i]]
<1>1. /\ Len(s) \in Nat
      /\ \A i, j \in I : s[i] = s[j] => i = j
      /\ \A x : x \in S <=> \E i \in I : s[i] = x
  BY DEF Lists
<1>2. IsFiniteSet(I) /\ Cardinality(I) = Len(s)
  <2> DEFINE n == Len(s)
  <2>1. n \in Nat /\ 1 \in Int /\ n \in Int
    BY <1>1
  <2> HIDE DEF n
  <2>2. IsFiniteSet(1 .. n) /\ Cardinality(1 .. n) = IF 1 > n THEN 0 ELSE n - 1 + 1
    BY <2>1, FS_Interval
  <2>3. Cardinality(1 .. n) = n
    BY <2>1, <2>2
  <2> QED
    BY <2>2, <2>3 DEF n
<1> HIDE DEF I
<1>3. f \in Bijection(I, S)
  <2>1. \A a, b \in I : f[a] = f[b] => a = b
    BY <1>1
  <2>2. f \in [I -> S] /\ \A x \in S : \E i \in I : f[i] = x
    BY <1>1
  <2> QED
    BY <2>1, <2>2 DEF Bijection, Injection, Surjection, IsInjective
<1>4. ExistsBijection(I, S)
  BY <1>3 DEF ExistsBijection
<1> QED
  BY <1>2, <1>4, FS_Bijection

\* The blocks that the prefills of a run insert, as the report adds them up.
LEMMA CountsTotal ==
  ASSUME IsFiniteSet(Registered)
  PROVE  MapThenSumSet(LAMBDA p : prefixes[p].count, Registered) = Total(PrefillCounts, Registered)
<1> DEFINE S == Registered
           f == PrefillCounts
           Is(g) == g = [s \in SUBSET S |->
               IF s = {} THEN 0
               ELSE prefixes[CHOOSE x \in s : TRUE].count + g[s \ {CHOOSE x \in s : TRUE}]]
           h == CHOOSE g : Is(g)
<1>1. ASSUME NEW g PROVE Is(g) <=> Sums(g, f, S)
  <2>1. \A s \in SUBSET S : s # {} =>
          prefixes[CHOOSE x \in s : TRUE].count = f[CHOOSE x \in s : TRUE]
    BY DEF PrefillCounts
  <2> HIDE DEF f, S
  <2> QED
    BY <2>1 DEF Sums, OneMore
<1>2. MapThenSumSet(LAMBDA p : prefixes[p].count, S) = h[S]
  BY DEF MapThenSumSet, MapThenFoldSet
<1> HIDE DEF Is, f, S
<1>3. PICK g : Sums(g, f, S)
  BY SumsExist DEF S
<1>4. \E l : Is(l)
  BY <1>1, <1>3
<1>5. Is(h)
  BY <1>4
<1> HIDE DEF h
<1>6. Sums(h, f, S)
  BY <1>1, <1>5
<1>7. h[S] = Total(f, S)
  BY <1>6, TotalIs DEF S
<1> QED
  BY <1>2, <1>7 DEF f, S

LEMMA PressureAddsUp == Track /\ PressureInv => PressureIsEvictions
<1> SUFFICES ASSUME Track, PressureInv, Finished, ~ experiment.active
             PROVE  /\ evictions = PressureDecomposition.total_pressure_blocks
                    /\ Len(cache.freeBlocks) = PressureDecomposition.capacity_headroom
  BY DEF PressureIsEvictions
<1> DEFINE m == Len(Order)
           n == experiment.pressure
           counted == Total(PrefillCounts, Registered)
<1>1. running # None /\ todo = << >> /\ Begun > 0
  BY DEF Finished, Track, RunsKept
<1>2. m \in Nat /\ n \in Nat
  <2>1. n \in PressureSizes \cup {0}
    BY ExperimentAssumption DEF Track
  <2> HIDE DEF n
  <2> QED
    BY <2>1, SizeAssumption, ExperimentFacts DEF Track
<1>3. Made = IF n > 0 THEN 2 * m + 1 ELSE 2 * m
  <2>1. Len(Calls) = IF n > 0 THEN 2 * m + 1 ELSE 2 * m
    BY CallsAre DEF Track
  <2> HIDE DEF n, m
  <2>2. Len(todo) = 0 /\ Len(Calls) \in Nat
    BY <1>1, <1>2, <2>1
  <2> QED
    BY <2>1, <2>2 DEF Made
<1>4. Inserted = Registered
  <2>1. ASSUME NEW p \in Registered PROVE p \in Inserted
    <3>1. PICK i \in 1 .. m : p = ClaimedPrefix[Order[i]]
      BY ExperimentFacts DEF Track
    <3>2. m + i <= Made
      BY <1>2, <1>3
    <3> QED
      BY <3>1, <3>2 DEF Inserted
  <2> QED
    BY <2>1, RegisteredFacts
<1>5. Filled = counted + n /\ counted \in Nat
  <2>1. counted \in Nat
    BY <1>1, <1>4, FilledTyped
  <2>2. Filled = counted + (IF Made > 2 * m THEN n ELSE 0)
    BY <1>4 DEF Filled
  <2> HIDE DEF counted, n, m
  <2>3. Filled = counted + n
    BY <1>2, <1>3, <2>1, <2>2
  <2> QED
    BY <2>1, <2>3
<1>6. MapThenSumSet(LAMBDA p : prefixes[p].count, Registered) = counted
  BY CountsTotal, RegisteredFacts
<1>7. /\ PressureDecomposition.total_pressure_blocks = AtLeast0(counted + n - Capacity)
      /\ PressureDecomposition.capacity_headroom =
           AtLeast0(Capacity - (IF counted + n < Capacity THEN counted + n ELSE Capacity))
  <2>1. (counted + n) - Capacity = counted + n - Capacity
    BY <1>2, <1>5, CapacityAssumption
  <2> HIDE DEF counted
  <2> QED
    BY <1>6, <2>1 DEF PressureDecomposition
<1>8. /\ Used(cache) = IF counted + n < Capacity THEN counted + n ELSE Capacity
      /\ evictions = AtLeast0(counted + n - Capacity)
  <2>1. /\ Used(cache) = IF Filled < Capacity THEN Filled ELSE Capacity
        /\ evictions = AtLeast0(Filled - Capacity)
    BY <1>1 DEF PressureInv, Used
  <2>2. (counted + n) - Capacity = counted + n - Capacity
    BY <1>2, <1>5, CapacityAssumption
  <2> HIDE DEF counted, n
  <2> QED
    BY <1>5, <2>1, <2>2
<1>9. Len(cache.freeBlocks) = Capacity - Used(cache)
  <2>1. Lists(cache.freeBlocks, BlockId \ Resident(cache))
    BY DEF Track, IInv, CacheInv
  <2> QED
    BY <2>1, ListsCounts, UsedCounts
<1> HIDE DEF counted, n
<1>10. Capacity - Used(cache) = AtLeast0(Capacity - Used(cache))
  <2> DEFINE u == Used(cache)
  <2>1. u \in Nat /\ u <= Capacity /\ Capacity \in Nat
    BY UsedCounts, CapacityAssumption
  <2> HIDE DEF u
  <2>2. Capacity - u = AtLeast0(Capacity - u)
    BY <2>1 DEF AtLeast0
  <2> QED
    BY <2>2 DEF u
<1> QED
  BY <1>7, <1>8, <1>9, <1>10

\* The pressure_decomposition of the hard seeds (export/vllm_seed.py) is what
\* happens: under every policy, a run of a regime evicts as many blocks as
\* its total pressure says, and leaves free what the headroom says.
THEOREM PressureIsWhatHappens == ReportSpec => []PressureIsEvictions
<1>1. ReportInit => PressureInv
  BY DEF ReportInit, PressureInv
<1>2. Track /\ PressureInv => PressureIsEvictions
  BY PressureAddsUp
<1> QED
  BY <1>1, <1>2, InitTrack, NextTrack, NextPressure, PTL DEF ReportSpec

-----------------------------------------------------------------------------
(* What the prefixes are worth.                                            *)

LEMMA ProductsTyped ==
  ASSUME NEW a \in Nat, NEW b \in Nat, NEW c \in Nat, b <= c
  PROVE  a * b \in Nat /\ a * c \in Nat /\ a * b <= a * c /\ b * a \in Nat /\ b * a <= c * a
<1> DEFINE d == c - b
<1>1. d \in Nat /\ c = b + d
  OBVIOUS
<1>2. a * b \in Nat /\ a * d \in Nat /\ b * a = a * b /\ c * a = a * c
  BY <1>1
<1> HIDE DEF d
<1>3. a * c = a * b + a * d
  BY <1>1
<1> QED
  BY <1>2, <1>3

LEMMA PartsTyped ==
  ASSUME NEW n \in Nat \ {0}
  PROVE  Unit \div n \in Nat
  BY UnitAssumption

\* A longer span is worth no less.
LEMMA ValueGrows ==
  ASSUME NEW shape \in Shape, NEW n \in Nat, NEW k \in Nat, n <= k
  PROVE  /\ ValueFor(shape, n) \in Nat /\ ValueFor(shape, k) \in Nat
         /\ ValueFor(shape, n) <= ValueFor(shape, k)
<1>1. /\ shape.count \in Nat /\ shape.threshold \in Nat /\ shape.value \in Nat
      /\ shape.curve \in Curves /\ Unit \in Nat
  BY UnitAssumption DEF Shape
<1> DEFINE Least(j) == IF j < shape.count THEN j ELSE shape.count
           a == Least(n)
           b == Least(k)
           V(j) == CASE shape.curve = "threshold" -> IF j >= shape.threshold THEN Unit * shape.value ELSE 0
                     [] shape.curve = "linear"    -> IF shape.count = 0 THEN 0
                                                     ELSE shape.value * j * (Unit \div shape.count)
                     [] OTHER                     -> Unit * j
<1>2. a \in Nat /\ b \in Nat /\ a <= b
  BY <1>1
<1>3. ValueFor(shape, n) = V(a) /\ ValueFor(shape, k) = V(b)
  BY DEF ValueFor
<1>4. V(a) \in Nat /\ V(b) \in Nat /\ V(a) <= V(b)
  <2> HIDE DEF a, b
  <2>1. CASE shape.curve = "threshold"
    <3>1. Unit * shape.value \in Nat
      BY <1>1
    <3> QED
      BY <1>1, <1>2, <2>1, <3>1
  <2>2. CASE shape.curve = "linear"
    <3>1. CASE shape.count = 0
      BY <2>2, <3>1
    <3>2. CASE shape.count # 0
      <4> DEFINE u == Unit \div shape.count
                 v == shape.value
      <4>1. u \in Nat /\ v \in Nat
        BY <1>1, <3>2, PartsTyped
      <4> HIDE DEF u, v
      <4>2. v * a \in Nat /\ v * b \in Nat /\ v * a <= v * b
        BY <1>2, <4>1, ProductsTyped
      <4> DEFINE x == v * a
                 y == v * b
      <4>3. x \in Nat /\ y \in Nat /\ x <= y
        BY <4>2
      <4> HIDE DEF x, y
      <4>4. x * u \in Nat /\ y * u \in Nat /\ x * u <= y * u
        BY <4>1, <4>3, ProductsTyped
      <4>5. V(a) = x * u /\ V(b) = y * u
        BY <2>2, <3>2 DEF u, v, x, y
      <4> QED
        BY <4>4, <4>5
    <3> QED
      BY <3>1, <3>2
  <2>3. CASE shape.curve # "threshold" /\ shape.curve # "linear"
    <3>1. Unit * a \in Nat /\ Unit * b \in Nat /\ Unit * a <= Unit * b
      BY <1>1, <1>2, ProductsTyped
    <3> QED
      BY <2>3, <3>1
  <2> QED
    BY <2>1, <2>2, <2>3
<1> QED
  BY <1>3, <1>4

LEMMA PositionsArePlaces ==
  ASSUME NEW c, CacheInv(c), NEW p \in PrefixId
  PROVE  \A i : i \in ResidentPositions(c, p) <=> <<p, i>> \in HeldPlaces(c)
  BY DEF ResidentPositions, HeldPlaces, Place, CacheInv, ResidentIndexed

\* What is not inserted can only lose blocks.
LEMMA SpansShrink ==
  ASSUME NEW c, CacheInv(c), NEW d, CacheInv(d), NEW q \in PrefixId,
         \A i : <<q, i>> \in HeldPlaces(d) => <<q, i>> \in HeldPlaces(c)
  PROVE  Contiguous(c, q) \in Nat /\ Contiguous(d, q) \in Nat /\ Contiguous(d, q) <= Contiguous(c, q)
<1> DEFINE x == Contiguous(c, q)
           y == Contiguous(d, q)
<1>1. x \in 0 .. Capacity /\ x \notin ResidentPositions(c, q)
  BY ContiguousIsHeld
<1>2. y \in 0 .. Capacity /\ \A i \in Nat : i < y => i \in ResidentPositions(d, q)
  BY ContiguousIsHeld
<1> HIDE DEF x, y
<1>3. x \notin ResidentPositions(d, q)
  BY <1>1, PositionsArePlaces
<1>4. x \in Nat /\ y \in Nat
  BY <1>1, <1>2, CapacityAssumption
<1>5. y <= x
  BY <1>2, <1>3, <1>4
<1> QED
  BY <1>4, <1>5 DEF x, y

\* What each of the prefixes ps realizes on c.
Values(c, ps) == [q \in ps |-> ValueFor(prefixes[q], Contiguous(c, q))]

LEMMA RealizedTotal ==
  ASSUME NEW ps, IsFiniteSet(ps)
  PROVE  RealizedValue(ps) = Total(Values(cache, ps), ps)
<1> DEFINE f == Values(cache, ps)
           v(p) == ValueFor(prefixes[p], Contiguous(cache, p))
<1> HIDE DEF v
<1> DEFINE Is(g) == g = [s \in SUBSET ps |->
               IF s = {} THEN 0
               ELSE v(CHOOSE x \in s : TRUE) + g[s \ {CHOOSE x \in s : TRUE}]]
           h == CHOOSE g : Is(g)
<1>1. ASSUME NEW g PROVE Is(g) <=> Sums(g, f, ps)
  <2>1. \A s \in SUBSET ps : s # {} =>
          v(CHOOSE x \in s : TRUE) = f[CHOOSE x \in s : TRUE]
    BY DEF Values, v
  <2> HIDE DEF f
  <2> QED
    BY <2>1 DEF Sums, OneMore
<1>2. RealizedValue(ps) = h[ps]
  BY DEF RealizedValue, MapThenSumSet, MapThenFoldSet, v
<1> HIDE DEF Is, f
<1>3. PICK g : Sums(g, f, ps)
  BY SumsExist
<1>4. \E l : Is(l)
  BY <1>1, <1>3
<1>5. Is(h)
  BY <1>4
<1> HIDE DEF h
<1>6. Sums(h, f, ps)
  BY <1>1, <1>5
<1>7. h[ps] = Total(f, ps)
  BY <1>6, TotalIs
<1> QED
  BY <1>2, <1>7 DEF f

LEMMA LostTotal ==
  ASSUME NEW ps, IsFiniteSet(ps), NEW c, NEW d
  PROVE  TotalValueLost(ps, c, d) = Total([q \in ps |-> ValueLost(q, c, d)], ps)
<1> DEFINE f == [q \in ps |-> ValueLost(q, c, d)]
           v(q) == ValueLost(q, c, d)
<1> HIDE DEF v
<1> DEFINE Is(g) == g = [s \in SUBSET ps |->
               IF s = {} THEN 0
               ELSE v(CHOOSE x \in s : TRUE) + g[s \ {CHOOSE x \in s : TRUE}]]
           h == CHOOSE g : Is(g)
<1>1. ASSUME NEW g PROVE Is(g) <=> Sums(g, f, ps)
  <2>1. \A s \in SUBSET ps : s # {} =>
          v(CHOOSE x \in s : TRUE) = f[CHOOSE x \in s : TRUE]
    BY DEF v
  <2> HIDE DEF f
  <2> QED
    BY <2>1 DEF Sums, OneMore
<1>2. TotalValueLost(ps, c, d) = h[ps]
  BY DEF TotalValueLost, MapThenSumSet, MapThenFoldSet, v
<1> HIDE DEF Is, f
<1>3. PICK g : Sums(g, f, ps)
  BY SumsExist
<1>4. \E l : Is(l)
  BY <1>1, <1>3
<1>5. Is(h)
  BY <1>4
<1> HIDE DEF h
<1>6. Sums(h, f, ps)
  BY <1>1, <1>5
<1>7. h[ps] = Total(f, ps)
  BY <1>6, TotalIs
<1> QED
  BY <1>2, <1>7 DEF f

\* What the harm report takes away is what is missing afterwards.
LEMMA LossAddsUp ==
  ASSUME NEW c, CacheInv(c), NEW d, CacheInv(d), NEW ps, IsFiniteSet(ps),
         \A q \in ps : /\ q \in PrefixId /\ prefixes[q] \in Shape
                       /\ \A i : <<q, i>> \in HeldPlaces(d) => <<q, i>> \in HeldPlaces(c)
  PROVE  /\ Total(Values(c, ps), ps) \in Int /\ TotalValueLost(ps, c, d) \in Int
         /\ Total(Values(d, ps), ps) = Total(Values(c, ps), ps) - TotalValueLost(ps, c, d)
<1> DEFINE before == Values(c, ps)
           after  == Values(d, ps)
           lost   == [q \in ps |-> ValueLost(q, c, d)]
<1>1. ASSUME NEW q \in ps
      PROVE  /\ before[q] \in Int /\ after[q] \in Int /\ lost[q] \in Int
             /\ after[q] = before[q] + (-1) * lost[q]
  <2> DEFINE x == Contiguous(c, q)
             y == Contiguous(d, q)
             v == ValueFor(prefixes[q], x)
             w == ValueFor(prefixes[q], y)
  <2>1. x \in Nat /\ y \in Nat /\ y <= x
    BY SpansShrink
  <2> HIDE DEF x, y
  <2>2. v \in Nat /\ w \in Nat /\ w <= v
    BY <2>1, ValueGrows
  <2>3. before[q] = v /\ after[q] = w /\ lost[q] = AtLeast0(v - w)
    BY DEF Values, ValueLost, x, y
  <2> HIDE DEF v, w, before, after, lost
  <2> QED
    BY <2>2, <2>3 DEF AtLeast0
<1> HIDE DEF before, after, lost
<1>2. -1 \in Int
  OBVIOUS
<1>3. /\ Total(before, ps) \in Int /\ Total(lost, ps) \in Int
      /\ Total(after, ps) = Total(before, ps) + (-1) * Total(lost, ps)
  BY <1>1, <1>2, TotalCombines
<1>4. TotalValueLost(ps, c, d) = Total(lost, ps)
  BY LostTotal DEF lost
<1> QED
  BY <1>3, <1>4 DEF before, after

-----------------------------------------------------------------------------
(* The harm report of an active prefill adds up with the returns after it. *)

\* The residents of the scenario, and those of them that have returned.
Others   == Registered \ {LastPrefix}
Returned ==
  {ClaimedPrefix[Order[i]] : i \in {j \in 1 .. Len(Order) - 1 : 2 * Len(Order) + j <= Made}}

HarmInv ==
  running # None /\ experiment.active =>
    /\ scenario \in [before : Int, delta : Int, residents : Int, active : Int]
    /\ Made >= 2 * Len(Order) =>
         scenario.before + scenario.delta = Total(Values(cache, Others), Others)
    /\ scenario.residents = Total(Values(cache, Returned), Returned)

LEMMA ScenarioFacts ==
  ASSUME Track, Begun > 0, experiment.active
  PROVE  /\ ResidentsOfScenario = Others /\ DOMAIN prefixes \ {LastPrefix} = Others
         /\ IsFiniteSet(Others) /\ Others \subseteq Registered
         /\ \A q \in Registered : q \in PrefixId /\ prefixes[q] \in Shape
<1>1. DOMAIN prefixes = Registered
  BY DEF Track, SetUp
<1>2. Last(experiment.order) = Order[Len(Order)]
  BY DEF Last, Order
<1>3. IsFiniteSet(Others) /\ Others \subseteq Registered
  BY RegisteredFacts, FS_Subset DEF Others
<1> QED
  BY <1>1, <1>2, <1>3, RegisteredFacts DEF Others, ResidentsOfScenario, LastPrefix, PrefixId

\* The active prefill is charged with what it takes.
LEMMA ActiveCharged ==
  ASSUME Track, HarmInv, running # None, todo # << >>, Called, NEW d, FillsActive(d)
  PROVE  /\ scenario' \in [before : Int, delta : Int, residents : Int, active : Int]
         /\ scenario'.residents = scenario.residents
         /\ scenario'.before + scenario'.delta = Total(Values(cache', Others), Others)
<1> DEFINE p == LastPrefix
           after == InsertLeading(cache, accepted, p, d.blocks, d.prio, Now)
           before == Total(Values(cache, Others), Others)
<1>1. /\ experiment.active /\ ActivePrefill(p, d) /\ Begun > 0
      /\ scenario' = [scenario EXCEPT !.before = RealizedValue(ResidentsOfScenario),
                                      !.delta  = Last(auditEvents').netValueDelta]
      /\ scenario \in [before : Int, delta : Int, residents : Int, active : Int]
  BY CalledKeeps DEF FillsActive, HarmInv
<1>2. /\ ResidentsOfScenario = Others /\ DOMAIN prefixes \ {p} = Others /\ IsFiniteSet(Others)
      /\ \A q \in Others : q \in PrefixId /\ prefixes[q] \in Shape /\ q # p
  BY <1>1, ScenarioFacts DEF Others
<1>3. RealizedValue(ResidentsOfScenario) = before
  BY <1>2, RealizedTotal
<1>4. CacheInv(cache) /\ Covered(cache, accepted) /\ AcceptedType(accepted) /\ Now \in Nat
  BY AcceptedIsTyped DEF Track, IInv, Now
<1>5. \A e, x, y : Last(<<Harm(p, e, x, y, Now)>>).netValueDelta = - TotalValueLost(Others, x, y)
  <2> TAKE e, x, y
  <2> DEFINE row == Harm(p, e, x, y, Now)
  <2>1. row.netValueDelta = - TotalValueLost(Others, x, y)
    BY <1>2 DEF Harm
  <2> HIDE DEF row
  <2>2. Last(<<row>>) = row
    BY DEF Last
  <2> QED
    BY <2>1, <2>2 DEF row
<1>6. ASSUME NEW x, before \in Int, x \in Int,
             Last(auditEvents').netValueDelta = - x,
             Total(Values(cache', Others), Others) = before - x
      PROVE  /\ scenario' \in [before : Int, delta : Int, residents : Int, active : Int]
             /\ scenario'.residents = scenario.residents
             /\ scenario'.before + scenario'.delta = Total(Values(cache', Others), Others)
  <2> HIDE DEF before
  <2>1. - x \in Int /\ before + (- x) = before - x
    BY <1>6
  <2> QED
    BY <1>1, <1>3, <1>6, <2>1
<1>7. CASE d.decision = "cache_no_admit"
  <2> DEFINE lost == TotalValueLost(Others, cache, cache)
  <2>1. cache' = cache /\ Last(auditEvents').netValueDelta = - lost
    BY <1>1, <1>5, <1>7 DEF ActivePrefill
  <2>2. before \in Int /\ lost \in Int /\ before = before - lost
    BY <1>2, <1>4, LossAddsUp
  <2> HIDE DEF lost
  <2> QED
    BY <1>6, <2>1, <2>2
<1>8. CASE d.decision # "cache_no_admit"
  <2> DEFINE lost == TotalValueLost(Others, cache, after)
  <2>1. cache' = Settled(after) /\ Last(auditEvents').netValueDelta = - lost
    BY <1>1, <1>5, <1>8 DEF ActivePrefill
  <2>2. d.blocks \in Nat /\ d.prio \in {-1, 0, 1, 2} /\ p \in PrefixId
    <3>1. p \in DOMAIN prefixes /\ d \in ActiveDecisions(p)
      BY <1>1 DEF ActivePrefill
    <3>2. prefixes[p].count \in Nat /\ p \in PrefixId
      BY <3>1 DEF Track, IInv, IsDict, Shape
    <3> QED
      BY <3>1, <3>2, DecisionTyped
  <2>3. CacheInv(after) /\ HeldPlaces(after) \subseteq HeldPlaces(cache) \cup Lead(p, d.blocks)
    BY <1>4, <2>2, InsertLeadingInv DEF Brings
  <2> HIDE DEF after
  <2>4. \A q \in Others : \A i : <<q, i>> \in HeldPlaces(after) => <<q, i>> \in HeldPlaces(cache)
    BY <1>2, <2>3 DEF Lead
  <2>5. /\ before \in Int /\ lost \in Int
        /\ Total(Values(after, Others), Others) = before - lost
    BY <1>2, <1>4, <2>3, <2>4, LossAddsUp
  <2>6. Values(cache', Others) = Values(after, Others)
    <3>1. cache'.blocks = after.blocks /\ cache'.residentByPrefix = after.residentByPrefix
      BY <2>1, <2>3 DEF Settled, CacheInv, CacheType, EmptyCache
    <3>2. \A q : Contiguous(cache', q) = Contiguous(after, q)
      BY <3>1 DEF Contiguous, ResidentPositions
    <3> QED
      BY <3>2 DEF Values
  <2> HIDE DEF lost, before
  <2> QED
    BY <1>6, <2>1, <2>5, <2>6 DEF before
<1> QED
  BY <1>7, <1>8

LEMMA CallHarm ==
  ASSUME Track, HarmInv, running # None, todo # << >>, Called, experiment.active,
         \/ \E i, c : Admits(i, c)
         \/ \E i : Prefills(i)
         \/ \E d : FillsActive(d)
         \/ \E i : Returns(i)
  PROVE  HarmInv'
<1> DEFINE m == Len(Order)
           S == [before : Int, delta : Int, residents : Int, active : Int]
<1>1. /\ experiment' = experiment /\ Order' = Order /\ Registered' = Registered
      /\ Begun > 0 /\ Made' = Made + 1 /\ todo' = Tail(todo) /\ Others' = Others
  BY CalledKeeps DEF Called, Others, LastPrefix
<1>2. /\ m \in Nat /\ m > 0 /\ Made \in Nat /\ Len(Calls) = 3 * m
      /\ \A j \in 1 .. m : /\ ClaimedPrefix[Order[j]] \in Registered
                           /\ ClaimedPrefix[Order[j]] \in Prefix
      /\ \A i, j \in 1 .. m : ClaimedPrefix[Order[i]] = ClaimedPrefix[Order[j]] => i = j
  BY ExperimentFacts, NextCall, CallsAre DEF Track
<1>3. scenario \in S /\ scenario.residents = Total(Values(cache, Returned), Returned)
  BY DEF HarmInv
<1>4. ASSUME Made <= 2 * m PROVE Returned = {}
  <2>1. {j \in 1 .. m - 1 : 2 * m + j <= Made} = {}
    BY <1>2, <1>4
  <2> QED
    BY <2>1 DEF Returned
<1>5. ASSUME Made' <= 2 * m PROVE Returned' = {}
  <2>1. {j \in 1 .. m - 1 : 2 * m + j <= Made'} = {}
    BY <1>1, <1>2, <1>5
  <2> QED
    BY <1>1, <2>1 DEF Returned
<1>6. ASSUME scenario' = scenario, Made' < 2 * m PROVE HarmInv'
  <2>1. Returned = {} /\ Returned' = {} /\ ~ (Made' >= 2 * m)
    BY <1>1, <1>2, <1>4, <1>5, <1>6
  <2>2. Total(Values(cache, Returned), Returned) = 0
    BY <2>1, TotalNothing
  <2>3. (Total(Values(cache, Returned), Returned))' = 0
    BY <2>1, TotalNothing
  <2> QED
    BY <1>1, <1>3, <1>6, <2>1, <2>2, <2>3 DEF HarmInv
<1>7. ASSUME NEW i, NEW c, Admits(i, c) PROVE HarmInv'
  <2>1. scenario' = scenario /\ i \in 1 .. m /\ Made = i - 1
    BY <1>7 DEF Admits
  <2>2. Made' < 2 * m
    BY <1>1, <1>2, <2>1
  <2> QED
    BY <1>6, <2>1, <2>2
<1>8. ASSUME NEW i, Prefills(i) PROVE HarmInv'
  <2>1. scenario' = scenario /\ i \in 1 .. m /\ Made = m + i - 1 /\ i < m
    BY <1>8 DEF Prefills
  <2>2. Made' < 2 * m
    BY <1>1, <1>2, <2>1
  <2> QED
    BY <1>6, <2>1, <2>2
<1>9. ASSUME NEW d, FillsActive(d) PROVE HarmInv'
  <2>1. /\ scenario' \in S /\ scenario'.residents = scenario.residents
        /\ scenario'.before + scenario'.delta = Total(Values(cache', Others), Others)
    BY <1>9, ActiveCharged
  <2>2. Made = 2 * m - 1 /\ prefixes' = prefixes
    BY <1>9 DEF FillsActive, ActivePrefill
  <2>3. Returned = {} /\ Returned' = {}
    BY <1>1, <1>2, <1>4, <1>5, <2>2
  <2>4. Total(Values(cache, Returned), Returned) = 0
    BY <2>3, TotalNothing
  <2>5. (Total(Values(cache, Returned), Returned))' = 0
    BY <2>3, TotalNothing
  <2>6. (Values(cache, Others))' = Values(cache', Others)
    BY <1>1, <2>2 DEF Values
  <2> QED
    BY <1>1, <1>3, <2>1, <2>4, <2>5, <2>6 DEF HarmInv
<1>10. ASSUME NEW i, Returns(i) PROVE HarmInv'
  <2> DEFINE p == ClaimedPrefix[Order[i]]
             v == ValueFor(prefixes[p], Contiguous(cache, p))
             R == Returned
             Q == R \cup {p}
  <2>1. /\ i \in 1 .. m /\ Made = 2 * m + i - 1
        /\ ReturnPrefix(p, FALSE)
        /\ scenario' = IF Len(todo) > 1
                         THEN [scenario EXCEPT !.residents = @ + runtimeEvents'[1].value]
                         ELSE [scenario EXCEPT !.active = runtimeEvents'[1].value]
    BY <1>10 DEF Returns
  <2>2. /\ prefixes' = prefixes /\ cache' = cache /\ runtimeEvents'[1].value = v
    BY <2>1 DEF ReturnPrefix
  <2>3. Len(todo) = m - i + 1
    <3>1. Made = Len(Calls) - Len(todo) /\ Len(todo) \in Nat
      BY DEF Made, Track, CallsKept, Suffix
    <3> QED
      BY <1>2, <2>1, <3>1
  <2>4. /\ \A q \in Registered : q \in PrefixId /\ prefixes[q] \in Shape
        /\ R \subseteq Registered /\ IsFiniteSet(R) /\ p \in Registered
    <3>1. R \subseteq Registered
      BY <1>2 DEF Returned
    <3> QED
      BY <1>1, <1>2, <2>1, <3>1, ScenarioFacts, RegisteredFacts, FS_Subset
  <2>5. \A q \in Registered : ValueFor(prefixes[q], Contiguous(cache, q)) \in Int
    <3> TAKE q \in Registered
    <3> DEFINE x == Contiguous(cache, q)
    <3>1. x \in Nat
      BY <2>4, ContiguousIsHeld, CapacityAssumption DEF Track, IInv
    <3> HIDE DEF x
    <3>2. ValueFor(prefixes[q], x) \in Nat
      BY <2>4, <3>1, ValueGrows
    <3> QED
      BY <3>2 DEF x
  <2>6. (Values(cache, Others))' = Values(cache, Others)
    BY <1>1, <2>2 DEF Values
  <2>7. scenario.before + scenario.delta = Total(Values(cache, Others), Others)
    <3>1. Made >= 2 * m
      BY <1>2, <2>1
    <3> QED
      BY <3>1 DEF HarmInv
  <2>8. CASE i < m
    <3>1. scenario' = [scenario EXCEPT !.residents = @ + v]
      BY <1>2, <2>1, <2>2, <2>3, <2>8
    <3>2. Returned' = Q /\ p \notin R
      <4> DEFINE done(n) == {j \in 1 .. m - 1 : 2 * m + j <= n}
      <4>1. done(Made + 1) = done(Made) \cup {i} /\ i \notin done(Made) /\ done(Made) \subseteq 1 .. m
        BY <1>2, <2>1, <2>8
      <4>2. R = {ClaimedPrefix[Order[j]] : j \in done(Made)}
        BY DEF Returned
      <4>3. Returned' = {ClaimedPrefix[Order[j]] : j \in done(Made + 1)}
        BY <1>1 DEF Returned
      <4> HIDE DEF done, R
      <4>4. Returned' = Q
        BY <4>1, <4>2, <4>3
      <4>5. p \notin R
        BY <1>2, <2>1, <4>1, <4>2
      <4> QED
        BY <4>4, <4>5 DEF R
    <3> DEFINE f == Values(cache, Q)
    <3>3. \A q \in Q : f[q] \in Int
      BY <2>4, <2>5 DEF Values
    <3>4. f[p] = v /\ Total(f, R) = Total(Values(cache, R), R)
      <4>1. \A q \in R : f[q] = Values(cache, R)[q]
        BY DEF Values
      <4>2. Total(f, R) = Total(Values(cache, R), R)
        BY <2>4, <4>1, TotalAgrees
      <4> QED
        BY <4>2 DEF Values
    <3>5. (Total(Values(cache, Returned), Returned))' = Total(f, Q)
      BY <2>2, <3>2 DEF Values
    <3> HIDE DEF f, p, v, R
    <3>6. Total(f, R) \in Int /\ Total(f, Q) = f[p] + Total(f, R)
      BY <2>4, <3>2, <3>3, TotalAdd
    <3>7. Total(f, R) = scenario.residents
      BY <1>3, <3>4 DEF R
    <3>8. v \in Int
      BY <3>3, <3>4
    <3>9. scenario' \in S /\ scenario'.residents = scenario.residents + v
          /\ scenario'.before = scenario.before /\ scenario'.delta = scenario.delta
      BY <1>3, <3>1, <3>8
    <3>10. scenario'.residents = (Total(Values(cache, Returned), Returned))'
      BY <3>4, <3>5, <3>6, <3>7, <3>8, <3>9
    <3> QED
      BY <2>6, <2>7, <1>1, <3>9, <3>10 DEF HarmInv
  <2>9. CASE i = m
    <3>1. scenario' = [scenario EXCEPT !.active = v]
      BY <1>2, <2>1, <2>2, <2>3, <2>9
    <3>2. Returned' = Returned
      <4>1. {j \in 1 .. m - 1 : 2 * m + j <= Made} = {j \in 1 .. m - 1 : 2 * m + j <= Made + 1}
        BY <1>2, <2>1, <2>9
      <4> QED
        BY <1>1, <4>1 DEF Returned
    <3>3. (Values(cache, Returned))' = Values(cache, Returned)
      BY <2>2, <3>2 DEF Values
    <3>4. v \in Int
      BY <2>4, <2>5
    <3> HIDE DEF v
    <3>5. scenario' \in S /\ scenario'.residents = scenario.residents
          /\ scenario'.before = scenario.before /\ scenario'.delta = scenario.delta
      BY <1>3, <3>1, <3>4
    <3> QED
      BY <1>1, <1>3, <2>6, <2>7, <3>2, <3>3, <3>5 DEF HarmInv
  <2> QED
    BY <1>2, <2>1, <2>8, <2>9
<1> QED
  BY <1>7, <1>8, <1>9, <1>10

LEMMA NextHarm == Track /\ HarmInv /\ [ReportNext]_allVars => HarmInv'
<1> SUFFICES ASSUME Track, HarmInv, [ReportNext]_allVars PROVE HarmInv'
  OBVIOUS
<1> DEFINE S == [before : Int, delta : Int, residents : Int, active : Int]
<1>1. CASE Start
  <2>1. /\ Made' = 0 /\ Order' = Order /\ Len(Order) \in Nat /\ scenario' = NothingSeen
        /\ experiment' = experiment /\ (experiment.active => Len(Order) > 0)
    BY <1>1, StartTrack, ExperimentStays, ExperimentFacts DEF Start, Track
  <2>2. scenario' \in S /\ scenario'.residents = 0
    BY <2>1 DEF NothingSeen
  <2>3. Returned' = {}
    <3>1. {j \in 1 .. Len(Order) - 1 : 2 * Len(Order) + j <= 0} = {}
      BY <2>1
    <3> QED
      BY <2>1, <3>1 DEF Returned
  <2>4. (Total(Values(cache, Returned), Returned))' = 0
    BY <2>3, TotalNothing
  <2>5. experiment'.active => ~ (Made' >= 2 * Len(Order'))
    BY <2>1
  <2> QED
    BY <2>2, <2>4, <2>5 DEF HarmInv
<1>2. CASE Score
  BY <1>2 DEF Score, HarmInv
<1>3. ASSUME running # None, todo # << >>, Called,
             \/ \E i, c : Admits(i, c)
             \/ \E i : Prefills(i)
             \/ Presses
             \/ \E d : FillsActive(d)
             \/ \E i : Returns(i)
      PROVE  HarmInv'
  <2>1. CASE ~ experiment.active
    <3>1. experiment' = experiment
      BY <1>3 DEF Called
    <3> QED
      BY <2>1, <3>1 DEF HarmInv
  <2>2. CASE experiment.active
    <3>1. ~ Presses
      BY <2>2 DEF Presses
    <3> QED
      BY <1>3, <2>2, <3>1, CallHarm
  <2> QED
    BY <2>1, <2>2
<1>4. CASE UNCHANGED allVars
  <2>1. /\ running' = running /\ experiment' = experiment /\ cache' = cache
        /\ scenario' = scenario /\ todo' = todo /\ prefixes' = prefixes
    BY <1>4 DEF allVars, runtime, report
  <2>2. Order' = Order /\ Made' = Made /\ Registered' = Registered
    BY <2>1, ExperimentStays DEF Made
  <2>3. Returned' = Returned /\ Others' = Others
    BY <2>2 DEF Returned, Others, LastPrefix
  <2>4. /\ (Values(cache, Returned))' = Values(cache, Returned)
        /\ (Values(cache, Others))' = Values(cache, Others)
    BY <2>1, <2>3 DEF Values
  <2> QED
    BY <2>1, <2>2, <2>3, <2>4 DEF HarmInv
<1> QED
  BY <1>1, <1>2, <1>3, <1>4, RunSteps

LEMMA HarmAddsUp == Track /\ HarmInv => HarmMatchesReturns
<1> SUFFICES ASSUME Track, HarmInv, Finished, experiment.active
             PROVE  scenario.residents = scenario.before + scenario.delta
  BY DEF HarmMatchesReturns
<1> DEFINE m == Len(Order)
<1>1. running # None /\ todo = << >>
  BY DEF Finished
<1>2. /\ m \in Nat /\ m > 0 /\ Len(Calls) = 3 * m
      /\ \A p \in Registered : \E i \in 1 .. m : p = ClaimedPrefix[Order[i]]
      /\ \A i \in 1 .. m : ClaimedPrefix[Order[i]] \in Registered
      /\ \A i, j \in 1 .. m : ClaimedPrefix[Order[i]] = ClaimedPrefix[Order[j]] => i = j
  BY ExperimentFacts, CallsAre DEF Track
<1>3. Made = 3 * m
  BY <1>1, <1>2 DEF Made
<1>4. Returned = Others
  <2>1. Returned = {ClaimedPrefix[Order[i]] : i \in 1 .. m - 1}
    <3>1. {j \in 1 .. m - 1 : 2 * m + j <= Made} = 1 .. m - 1
      BY <1>2, <1>3
    <3> QED
      BY <3>1 DEF Returned
  <2>2. ASSUME NEW p \in Others PROVE p \in Returned
    <3>1. PICK i \in 1 .. m : p = ClaimedPrefix[Order[i]]
      BY <1>2, <2>2 DEF Others
    <3>2. i # m
      BY <2>2, <3>1 DEF Others, LastPrefix
    <3>3. i \in 1 .. m - 1
      BY <1>2, <3>2
    <3> QED
      BY <2>1, <3>1, <3>3
  <2>3. ASSUME NEW p \in Returned PROVE p \in Others
    <3>1. PICK i \in 1 .. m - 1 : p = ClaimedPrefix[Order[i]]
      BY <2>1, <2>3
    <3>2. i \in 1 .. m /\ m \in 1 .. m /\ i # m
      BY <1>2
    <3> QED
      BY <1>2, <3>1, <3>2 DEF Others, LastPrefix
  <2> QED
    BY <2>2, <2>3
<1>5. Made >= 2 * m
  BY <1>2, <1>3
<1> QED
  BY <1>1, <1>4, <1>5 DEF HarmInv

\* The residents of a scenario realize, when they return, what they were worth
\* before the active prefill and the net_value_delta of its harm report,
\* whatever the curves of their values and whatever the gate decides.
THEOREM HarmReportsAddUp == ReportSpec => []HarmMatchesReturns
<1>1. ReportInit => HarmInv
  BY DEF ReportInit, HarmInv
<1>2. Track /\ HarmInv => HarmMatchesReturns
  BY HarmAddsUp
<1> QED
  BY <1>1, <1>2, InitTrack, NextTrack, NextHarm, PTL DEF ReportSpec

-----------------------------------------------------------------------------
(* The plans of the policies decide the claims of the batch.               *)

LEMMA PlanNames ==
  ASSUME NEW i \in 1 .. Len(Rows)
  PROVE  Rows[i].policy \in {"native", "value_density", "naive_fair_share",
                             "complete_prefix_fair_share", "complete_prefix_oracle",
                             "abstract_block_oracle"}
<1>1. \A name, policy, gate : Row(name, policy, gate).policy = policy
  BY DEF Row
<1>2. Len(ComparedPolicies) = 6 /\ Len(ComparedGates) = 4
  BY DEF ComparedPolicies, ComparedGates
<1>3. /\ ComparedPolicies[1].policy = "native" /\ ComparedPolicies[2].policy = "value_density"
      /\ ComparedPolicies[3].policy = "naive_fair_share"
      /\ ComparedPolicies[4].policy = "complete_prefix_fair_share"
      /\ ComparedPolicies[5].policy = "complete_prefix_oracle"
      /\ ComparedPolicies[6].policy = "abstract_block_oracle"
  BY <1>1 DEF ComparedPolicies
<1>4. /\ ComparedGates[1].policy = "value_density" /\ ComparedGates[2].policy = "value_density"
      /\ ComparedGates[3].policy = "value_density"
      /\ ComparedGates[4].policy = "complete_prefix_fair_share"
  BY <1>1 DEF ComparedGates
<1>5. CASE experiment.active
  <2>1. Rows = ComparedGates
    BY <1>5 DEF Rows
  <2>2. i \in 1 .. 4
    BY <1>2, <2>1
  <2>3. i = 1 \/ i = 2 \/ i = 3 \/ i = 4
    BY <2>2
  <2> QED
    BY <1>4, <2>1, <2>3
<1>6. CASE ~ experiment.active
  <2>1. Rows = ComparedPolicies
    BY <1>6 DEF Rows
  <2>2. i \in 1 .. 6
    BY <1>2, <2>1
  <2>3. i = 1 \/ i = 2 \/ i = 3 \/ i = 4 \/ i = 5 \/ i = 6
    BY <2>2
  <2> QED
    BY <1>3, <2>1, <2>3
<1> QED
  BY <1>5, <1>6

LEMMA PlanDomain ==
  ASSUME NEW i \in 1 .. Len(Rows)
  PROVE  DOMAIN PlanOf(Rows[i].policy) = ToSet(Batch)
<1>1. Policies!ToSet(Batch) = ToSet(Batch)
  BY DEF Policies!ToSet, ToSet
<1>2. DOMAIN Policies!Native(Batch) = ToSet(Batch)
  BY <1>1 DEF Policies!Native
<1>3. DOMAIN Policies!ValueDensity(Batch, Capacity) = ToSet(Batch)
  BY <1>1 DEF Policies!ValueDensity
<1>4. DOMAIN Policies!NaiveFairShare(Batch, Capacity) = ToSet(Batch)
  BY <1>1 DEF Policies!NaiveFairShare
<1>5. DOMAIN Policies!FairShare(Batch, Capacity) = ToSet(Batch)
  BY <1>1 DEF Policies!FairShare
<1>6. DOMAIN Policies!CompletePrefixOracle(Batch, Capacity) = ToSet(Batch)
  BY <1>1 DEF Policies!CompletePrefixOracle
<1>7. DOMAIN Policies!AbstractBlockOracle(Batch, Capacity) = ToSet(Batch)
  BY <1>1 DEF Policies!AbstractBlockOracle
<1> QED
  BY <1>2, <1>3, <1>4, <1>5, <1>6, <1>7, PlanNames DEF PlanOf

\* The claims of the batch, one to one with the list of the experiment.
LEMMA BatchIs ==
  ASSUME experiment \in Experiments
  PROVE  LET S == ToSet(Batch)
         IN  /\ IsFiniteSet(S)
             /\ \A c \in S : \E i \in 1 .. Len(Order) :
                               c.id = Order[i] /\ c = ForPrefix(Order[i], experiment.of[Order[i]])
             /\ \A i \in 1 .. Len(Order) : ForPrefix(Order[i], experiment.of[Order[i]]) \in S
             /\ \A c, d \in S : c.id = d.id => c = d
             /\ \A c, d \in S : ClaimedPrefix[c.id] = ClaimedPrefix[d.id] => c = d
             /\ \A c \in S : c.id \in Claim /\ c.id \in ToSet(Order)
<1> DEFINE S == ToSet(Batch)
           m == Len(Order)
           item(i) == ForPrefix(Order[i], experiment.of[Order[i]])
<1>1. /\ m \in Nat /\ DOMAIN Order = 1 .. m
      /\ \A i \in 1 .. m : Order[i] \in Claim /\ Order[i] \in ToSet(Order)
      /\ \A i, j \in 1 .. m : ClaimedPrefix[Order[i]] = ClaimedPrefix[Order[j]] => i = j
  BY ExperimentFacts
<1>2. Batch = [i \in 1 .. m |-> item(i)]
  BY <1>1 DEF Batch, BatchOf, Order
<1>3. \A i \in 1 .. m : item(i).id = Order[i]
  BY DEF ForPrefix
<1> HIDE DEF item, m
<1>4. S = {item(i) : i \in 1 .. m}
  BY <1>2 DEF ToSet
<1>5. IsFiniteSet(S)
  <2>1. IsFiniteSet(1 .. m)
    BY <1>1, FS_Interval
  <2> DEFINE f == [i \in 1 .. m |-> item(i)]
  <2>2. f \in Surjection(1 .. m, S)
    BY <1>4 DEF Surjection
  <2> QED
    BY <2>1, <2>2, FS_Surjection
<1>6. \A c \in S : \E i \in 1 .. m : c.id = Order[i] /\ c = item(i)
  BY <1>3, <1>4
<1>7. \A c, d \in S : ClaimedPrefix[c.id] = ClaimedPrefix[d.id] => c = d
  BY <1>1, <1>6
<1> QED
  BY <1>1, <1>4, <1>5, <1>6, <1>7 DEF m, item

Grants == [c \in DOMAIN plan |-> GrantOf(c)]

LEMMA GrantedTotal ==
  ASSUME IsFiniteSet(DOMAIN plan)
  PROVE  Granted(plan) = Total(Grants, DOMAIN plan)
<1> DEFINE S == DOMAIN plan
           f == Grants
           Is(g) == g = [s \in SUBSET S |->
               IF s = {} THEN 0
               ELSE GrantOf(CHOOSE x \in s : TRUE) + g[s \ {CHOOSE x \in s : TRUE}]]
           h == CHOOSE g : Is(g)
<1>1. ASSUME NEW g PROVE Is(g) <=> Sums(g, f, S)
  <2>1. \A s \in SUBSET S : s # {} =>
          GrantOf(CHOOSE x \in s : TRUE) = f[CHOOSE x \in s : TRUE]
    BY DEF Grants
  <2> HIDE DEF f, S
  <2> QED
    BY <2>1 DEF Sums, OneMore
<1>2. Granted(plan) = h[S]
  BY DEF Granted, MapThenSumSet, MapThenFoldSet, GrantOf
<1> HIDE DEF Is, f
<1>3. PICK g : Sums(g, f, S)
  BY SumsExist
<1>4. \E l : Is(l)
  BY <1>1, <1>3
<1>5. Is(h)
  BY <1>4
<1> HIDE DEF h
<1>6. Sums(h, f, S)
  BY <1>1, <1>5
<1>7. h[S] = Total(f, S)
  BY <1>6, TotalIs
<1> QED
  BY <1>2, <1>7 DEF f, S

-----------------------------------------------------------------------------
(* Accepted ranges survive.                                                *)

\* The places inside accepted ranges.
Promised(acc) == UNION {Lead(acc[k].prefix, acc[k].blocks) : k \in DOMAIN acc}

\* Only blocks of promised places rank above the prefills.
OnlyPromisedRank(c, acc) ==
  \A b \in Resident(c) : c.blocks[b].prio > 0 => Place(c, b) \in Promised(acc)

\* The claims are accepted in their order, with what the plan grants them.
AcceptedInOrder == \A k \in DOMAIN accepted : \E i \in 1 .. Len(Order) : i <= Made /\ k = Order[i]

AsGranted ==
  \A i \in 1 .. Len(Order) : i <= Made =>
    \E c \in DOMAIN plan :
      /\ c.id = Order[i] /\ GrantOf(c) \in Nat
      /\ Order[i] \in DOMAIN accepted =>
           /\ accepted[Order[i]] = [prefix |-> ClaimedPrefix[Order[i]], blocks |-> GrantOf(c)]
           /\ GrantOf(c) <= ShapeOf(experiment.of[Order[i]]).count

\* As long as the plan leaves a block of the pool to give up, no promised
\* place that was filled is given up.
PromisesKept ==
  Granted(plan) < Capacity =>
    /\ OnlyPromisedRank(cache, accepted)
    /\ \A k \in DOMAIN accepted : accepted[k].prefix \in Inserted =>
         Lead(accepted[k].prefix, accepted[k].blocks) \subseteq HeldPlaces(cache)

AcceptInv == running # None /\ ~ experiment.active => AcceptedInOrder /\ AsGranted /\ PromisesKept

LEMMA LeadCounts ==
  ASSUME NEW p, NEW n \in Nat
  PROVE  IsFiniteSet(Lead(p, n)) /\ Cardinality(Lead(p, n)) = n
<1> DEFINE f == [i \in 1 .. n |-> <<p, i - 1>>]
<1>1. f \in Bijection(1 .. n, Lead(p, n))
  <2>1. \A i, j \in 1 .. n : f[i] = f[j] => i = j
    OBVIOUS
  <2>2. \A i \in 1 .. n : f[i] \in Lead(p, n)
    BY DEF Lead
  <2>3. \A x \in Lead(p, n) : \E i \in 1 .. n : f[i] = x
    <3> SUFFICES ASSUME NEW j \in 0 .. n - 1 PROVE \E i \in 1 .. n : f[i] = <<p, j>>
      BY DEF Lead
    <3>1. j + 1 \in 1 .. n /\ (j + 1) - 1 = j
      OBVIOUS
    <3> QED
      BY <3>1
  <2> QED
    BY <2>1, <2>2, <2>3 DEF Bijection, Injection, Surjection, IsInjective
<1>2. IsFiniteSet(1 .. n) /\ Cardinality(1 .. n) = n
  BY FS_Interval
<1> DEFINE L == Lead(p, n)
           N == 1 .. n
<1>3. ExistsBijection(N, L)
  BY <1>1 DEF ExistsBijection
<1> HIDE DEF L, N
<1>4. IsFiniteSet(N) => IsFiniteSet(L) /\ Cardinality(L) = Cardinality(N)
  BY <1>3, FS_Bijection
<1> QED
  BY <1>2, <1>4 DEF L, N

\* Once all claims are admitted, what is promised is what the plan granted.
LEMMA PromisesFit ==
  ASSUME Track, AcceptInv, running # None, ~ experiment.active, Made \in Nat, Made >= Len(Order)
  PROVE  IsFiniteSet(Promised(accepted)) /\ Cardinality(Promised(accepted)) \in Nat
         /\ Cardinality(Promised(accepted)) <= Granted(plan) /\ Granted(plan) \in Nat
<1> DEFINE m == Len(Order)
           S == DOMAIN plan
           A == [c \in S |-> Lead(ClaimedPrefix[c.id], GrantOf(c))]
           U == UNION {A[c] : c \in S}
<1>1. S = ToSet(Batch)
  <2>1. Begun \in 1 .. Len(Rows)
    BY RowsAre DEF Track, RunsKept, Suffix, Begun
  <2>2. plan = PlanOf(Rows[Begun].policy)
    BY <2>1 DEF Track, SetUp
  <2> QED
    BY <2>1, <2>2, PlanDomain
<1>2. /\ IsFiniteSet(S)
      /\ \A c \in S : \E i \in 1 .. m : c.id = Order[i]
      /\ \A c, d \in S : c.id = d.id => c = d
      /\ \A c, d \in S : ClaimedPrefix[c.id] = ClaimedPrefix[d.id] => c = d
  BY <1>1, BatchIs DEF Track
<1>3. /\ \A k \in DOMAIN accepted : \E i \in 1 .. m : k = Order[i]
      /\ \A i \in 1 .. m :
           \E c \in S :
             /\ c.id = Order[i] /\ GrantOf(c) \in Nat
             /\ Order[i] \in DOMAIN accepted =>
                  accepted[Order[i]] = [prefix |-> ClaimedPrefix[Order[i]], blocks |-> GrantOf(c)]
  <2>1. m \in Nat /\ \A i \in 1 .. m : i <= Made
    BY ExperimentFacts DEF Track
  <2> QED
    BY <2>1 DEF AcceptInv, AcceptedInOrder, AsGranted
<1>4. ASSUME NEW c \in S PROVE GrantOf(c) \in Nat
  <2>1. PICK i \in 1 .. m : c.id = Order[i]
    BY <1>2
  <2>2. PICK d \in S : d.id = Order[i] /\ GrantOf(d) \in Nat
    BY <1>3
  <2>3. d = c
    BY <1>2, <2>1, <2>2
  <2> QED
    BY <2>2, <2>3
<1>5. \A c \in S : IsFiniteSet(A[c]) /\ Grants[c] = Cardinality(A[c])
  BY <1>4, LeadCounts DEF Grants
<1>6. ASSUME NEW c \in S, NEW d \in S, c # d PROVE A[c] \cap A[d] = {}
  BY <1>2, <1>6 DEF Lead
<1>7. IsFiniteSet(U) /\ Cardinality(U) = Total(Grants, S)
  <2> HIDE DEF A, S
  <2>1. \A c, d \in S : c # d => A[c] \cap A[d] = {}
    BY <1>6
  <2>2. (\A c \in S : IsFiniteSet(A[c])) /\ (\A c \in S : Grants[c] = Cardinality(A[c]))
    BY <1>5
  <2>3. U = UNION {A[c] : c \in S} /\ DOMAIN A = S
    BY DEF A
  <2> HIDE DEF U
  <2> QED
    BY <1>2, <2>1, <2>2, <2>3, UnionCounts
<1>8. Cardinality(U) = Granted(plan)
  BY <1>2, <1>7, GrantedTotal
<1>9. Promised(accepted) \subseteq U
  <2> SUFFICES ASSUME NEW k \in DOMAIN accepted
               PROVE  Lead(accepted[k].prefix, accepted[k].blocks) \subseteq U
    BY DEF Promised
  <2>1. PICK i \in 1 .. m : k = Order[i]
    BY <1>3
  <2>2. PICK c \in S : /\ c.id = k
                       /\ accepted[k] = [prefix |-> ClaimedPrefix[k], blocks |-> GrantOf(c)]
    BY <1>3, <2>1
  <2>3. Lead(accepted[k].prefix, accepted[k].blocks) = A[c]
    BY <2>2
  <2> QED
    BY <2>3
<1> HIDE DEF U
<1> QED
  BY <1>7, <1>8, <1>9, FS_Subset, FS_CardinalityType

\* One round of a prefill: the block it evicts holds no promised place.
LEMMA InsertPositionKeeps ==
  ASSUME NEW acc, AcceptedType(acc), NEW P, P = Promised(acc),
         IsFiniteSet(P), Cardinality(P) \in Nat, Cardinality(P) < Capacity,
         NEW m, CacheInv(m), Covered(m, acc), OnlyPromisedRank(m, acc),
         NEW p \in PrefixId, NEW i \in Nat, NEW now \in Nat
  PROVE  /\ OnlyPromisedRank(InsertPosition(m, acc, p, i, 0, now), acc)
         /\ HeldPlaces(m) \cap P \subseteq HeldPlaces(InsertPosition(m, acc, p, i, 0, now))
<1> DEFINE r == MakeRoom(m, now)
<1>1. \A k \in DOMAIN acc : acc[k].blocks \in Nat
  BY DEF AcceptedType, IsDict
<1>2. m.blocks \in [BlockId -> BlockType]
  BY DEF CacheInv, CacheType
<1>3. \A b \in Resident(m) : /\ b \in BlockId /\ m.blocks[b].prio \in Int /\ m.blocks[b].pos \in Nat
  BY <1>2 DEF CacheInv, BlocksMarked, Resident, BlockType
<1>4. ASSUME NEW b \in Resident(m), Place(m, b) \in P
      PROVE  m.blocks[b].prio > 0
  <2>1. PICK k \in DOMAIN acc : Place(m, b) \in Lead(acc[k].prefix, acc[k].blocks)
    BY <1>4 DEF Promised
  <2>2. PICK j \in 0 .. acc[k].blocks - 1 : Place(m, b) = <<acc[k].prefix, j>>
    BY <2>1 DEF Lead
  <2>3. m.blocks[b].owner = acc[k].prefix /\ m.blocks[b].pos = j /\ j < acc[k].blocks
    BY <1>1, <2>2 DEF Place
  <2>4. k \in m.blocks[b].claims
    BY <2>3 DEF Covered
  <2>5. m.blocks[b].prio >= 1
    BY <1>3, <2>4 DEF CacheInv, ClaimedRanked
  <2> QED
    BY <1>3, <2>5
<1>5. /\ CacheInv(r) /\ r.freeBlocks # << >>
      /\ Resident(r) \subseteq Resident(m)
      /\ \A a \in Resident(r) : r.blocks[a] = m.blocks[a]
  BY MakeRoomInv
<1>6. \A a \in Resident(m) : Place(m, a) \in P => a \in Resident(r)
  <2>1. CASE m.freeBlocks # << >>
    BY <2>1 DEF MakeRoom
  <2>2. CASE m.freeBlocks = << >>
    <3>1. 0 \in BlockId
      BY CapacityAssumption DEF BlockId
    <3>2. Len(m.freeBlocks) = 0
      BY <2>2, EmptySeq
    <3>3. Resident(m) = BlockId /\ Resident(m) # {}
      BY <3>1, <3>2 DEF CacheInv, Lists, Resident
    <3> DEFINE v == Victim(m)
    <3>4. v \in Resident(m) /\ \A o \in Resident(m) \ {v} : EvictsBefore(m, v, o)
      BY <3>3, VictimIsResident
    <3> HIDE DEF v
    <3>5. PICK o \in Resident(m) : Place(m, o) \notin P
      <4> DEFINE H == HeldPlaces(m)
      <4>1. Cardinality(H) = Capacity
        BY <3>3, HeldCounts
      <4> HIDE DEF H
      <4>2. H \subseteq P => Cardinality(H) <= Cardinality(P)
        BY FS_Subset
      <4>3. ~ (H \subseteq P)
        BY <4>1, <4>2, CapacityAssumption
      <4> QED
        BY <4>3 DEF H, HeldPlaces
    <3>6. ~ (m.blocks[o].prio > 0)
      BY <3>5 DEF OnlyPromisedRank
    <3>7. Place(m, v) \notin P
      <4>1. m.blocks[v].prio <= m.blocks[o].prio
        <5>1. CASE v = o
          BY <1>3, <5>1
        <5>2. CASE v # o
          <6>1. EvictsBefore(m, v, o)
            BY <3>4, <5>2
          <6> QED
            BY <1>3, <3>4, <6>1 DEF EvictsBefore
        <5> QED
          BY <5>1, <5>2
      <4> QED
        BY <1>3, <1>4, <3>4, <3>6, <4>1
    <3>8. Resident(r) = Resident(m) \ {v}
      <4> USE DEF v
      <4> DEFINE f == FreeBlock(m, v, now)
      <4>1. CacheInv(f)
        BY <3>4, FreeBlockInv
      <4>2. Resident(f) = Resident(m) \ {v}
        BY <3>4, FreeBlockCovered
      <4>3. r.blocks = f.blocks
        BY <2>2, <4>1 DEF MakeRoom, EvictOne, EmptyCache, CacheInv, CacheType
      <4> HIDE DEF f, r, v
      <4> QED
        BY <4>2, <4>3 DEF Resident
    <3> QED
      BY <3>7, <3>8
  <2> QED
    BY <2>1, <2>2
<1> HIDE DEF r
<1> DEFINE v  == Head(r.freeBlocks)
           ks == ClaimIdsFor(acc, p, i)
           e  == Entry(p, i, ks, 0, now)
           d  == Fill(r, acc, p, i, 0, now)
<1>7. v \in BlockId /\ v \notin Resident(r)
  <2> DEFINE free == BlockId \ Resident(r)
  <2>1. Lists(r.freeBlocks, free)
    BY <1>5 DEF CacheInv
  <2> HIDE DEF free
  <2>2. v \in BlockId /\ v \in free
    BY <1>5, <2>1, PopLists
  <2> QED
    BY <2>2 DEF free
<1>8. r.blocks \in [BlockId -> BlockType] /\ DOMAIN r = DOMAIN EmptyCache
  BY <1>5 DEF CacheInv, CacheType
<1>9. d.blocks = [r.blocks EXCEPT ![v] = e]
  BY <1>8 DEF Fill, EmptyCache
<1>10. /\ e.state = "resident" /\ e.owner = p /\ e.pos = i
       /\ e.prio > 0 => <<p, i>> \in P
  <2>1. e.prio > 0 => ks # {}
    <3> HIDE DEF ks
    <3> QED
      BY DEF Entry
  <2>2. \A k \in ks : k \in DOMAIN acc /\ <<p, i>> \in Lead(acc[k].prefix, acc[k].blocks)
    BY <1>1 DEF ClaimIdsFor, Lead
  <2>3. ks # {} => <<p, i>> \in P
    BY <2>2 DEF Promised
  <2> QED
    BY <2>1, <2>3 DEF Entry
<1> HIDE DEF v, ks, e, d
<1>11. \A a \in BlockId : d.blocks[a] = IF a = v THEN e ELSE r.blocks[a]
  BY <1>7, <1>8, <1>9
<1>12. Resident(d) = Resident(r) \cup {v}
  BY <1>7, <1>10, <1>11 DEF Resident
<1>13. \A a \in Resident(r) : a # v /\ a \in BlockId /\ d.blocks[a] = m.blocks[a]
  BY <1>5, <1>7, <1>11 DEF Resident
<1>14. OnlyPromisedRank(d, acc)
  <2> SUFFICES ASSUME NEW b \in Resident(d), d.blocks[b].prio > 0 PROVE Place(d, b) \in P
    BY DEF OnlyPromisedRank
  <2>1. CASE b = v
    BY <1>7, <1>10, <1>11, <2>1 DEF Place
  <2>2. CASE b # v
    BY <1>5, <1>12, <1>13, <2>2 DEF Place, OnlyPromisedRank
  <2> QED
    BY <2>1, <2>2
<1>15. HeldPlaces(m) \cap P \subseteq HeldPlaces(d)
  <2> SUFFICES ASSUME NEW a \in Resident(m), Place(m, a) \in P PROVE Place(m, a) \in HeldPlaces(d)
    BY DEF HeldPlaces
  <2>1. a \in Resident(d) /\ Place(d, a) = Place(m, a)
    BY <1>6, <1>12, <1>13 DEF Place
  <2> QED
    BY <2>1 DEF HeldPlaces
<1>16. CASE i \in ResidentPositions(m, p)
  <2>1. InsertPosition(m, acc, p, i, 0, now) = m
    BY <1>16 DEF InsertPosition
  <2> QED
    BY <2>1
<1>17. CASE i \notin ResidentPositions(m, p)
  <2>1. InsertPosition(m, acc, p, i, 0, now) = d
    BY <1>17 DEF InsertPosition, r, d
  <2> QED
    BY <1>14, <1>15, <2>1
<1> QED
  BY <1>16, <1>17

\* A prefill: every promised place that was held, or that it fills, is held.
LEMMA InsertLeadingKeeps ==
  ASSUME NEW acc, AcceptedType(acc), NEW P, P = Promised(acc),
         IsFiniteSet(P), Cardinality(P) \in Nat, Cardinality(P) < Capacity,
         NEW c, CacheInv(c), Covered(c, acc), OnlyPromisedRank(c, acc),
         NEW p \in PrefixId, NEW n \in Nat, NEW now \in Nat
  PROVE  LET d == InsertLeading(c, acc, p, n, 0, now)
         IN  /\ OnlyPromisedRank(d, acc)
             /\ (HeldPlaces(c) \cup Lead(p, n)) \cap P \subseteq HeldPlaces(d)
<1>1. PICK g : Rounds(g, c, acc, p, n, 0, now)
  BY InsertLeadingRounds
<1>2. /\ g[0] = c /\ g[n] = InsertLeading(c, acc, p, n, 0, now)
      /\ \A i \in 0 .. n - 1 : g[i+1] = InsertPosition(g[i], acc, p, i, 0, now)
      /\ \A i \in 0 .. n : /\ CacheInv(g[i]) /\ Covered(g[i], acc)
                           /\ i > 0 => <<p, i-1>> \in HeldPlaces(g[i])
  BY <1>1 DEF Rounds
<1> DEFINE Good(i) == /\ OnlyPromisedRank(g[i], acc)
                      /\ \A x \in P : x \in HeldPlaces(c) \/ x \in Lead(p, i) => x \in HeldPlaces(g[i])
           T == {i \in Nat : i <= n => Good(i)}
<1>3. 0 \in T
  <2>1. Lead(p, 0) = {}
    BY DEF Lead
  <2> QED
    BY <1>2, <2>1
<1>4. ASSUME NEW i \in T PROVE i + 1 \in T
  <2>1. SUFFICES ASSUME i + 1 <= n PROVE Good(i+1)
    OBVIOUS
  <2>2. Good(i) /\ i \in 0 .. n - 1 /\ i \in 0 .. n /\ i \in Nat /\ i + 1 \in 0 .. n /\ i + 1 > 0
    BY <2>1
  <2> DEFINE m == g[i]
             d == g[i+1]
  <2>3. /\ d = InsertPosition(m, acc, p, i, 0, now)
        /\ CacheInv(m) /\ Covered(m, acc) /\ OnlyPromisedRank(m, acc)
        /\ \A x \in P : x \in HeldPlaces(c) \/ x \in Lead(p, i) => x \in HeldPlaces(m)
    BY <1>2, <2>2
  <2>4. <<p, i>> \in HeldPlaces(d)
    <3>1. (i + 1) - 1 = i
      BY <2>2
    <3> QED
      BY <1>2, <2>2, <3>1
  <2> HIDE DEF m, d
  <2>5. OnlyPromisedRank(d, acc) /\ HeldPlaces(m) \cap P \subseteq HeldPlaces(d)
    BY <2>2, <2>3, InsertPositionKeeps
  <2>6. \A x \in Lead(p, i + 1) : x \in Lead(p, i) \/ x = <<p, i>>
    BY <2>2 DEF Lead
  <2>7. \A x \in P : x \in HeldPlaces(c) \/ x \in Lead(p, i + 1) => x \in HeldPlaces(d)
    BY <2>3, <2>4, <2>5, <2>6
  <2> QED
    BY <2>5, <2>7 DEF d
<1>5. T = Nat
  <2> HIDE DEF T
  <2> QED
    BY <1>3, <1>4, NatInductionOnSets DEF T
<1>6. Good(n)
  <2> HIDE DEF Good
  <2> QED
    BY <1>5
<1> QED
  BY <1>2, <1>6

\* An admission comes before anything is held.
LEMMA AdmitAccepts ==
  ASSUME Track, AcceptInv, running # None, todo # << >>, Called, ~ experiment.active,
         NEW i, NEW c, Admits(i, c)
  PROVE  AcceptInv'
<1> DEFINE m == Len(Order)
           k == Order[i]
           p == ClaimedPrefix[k]
           n == GrantOf(c)
<1>1. /\ i \in 1 .. m /\ Made = i - 1 /\ c \in DOMAIN plan /\ c.id = k /\ AdmitClaim(k, n)
  BY DEF Admits
<1>2. /\ Order' = Order /\ plan' = plan /\ experiment' = experiment /\ Made' = i
      /\ m \in Nat /\ i \in Nat
  BY <1>1, CalledKeeps, ExperimentFacts DEF Track
<1>3. /\ \A j \in 1 .. m : Order[j] \in Claim /\ Order[j] \in ToSet(Order)
      /\ \A j \in 1 .. m : Order[j] = k => j = i
      /\ k \in Claim /\ p \in Prefix
  BY <1>1, ExperimentFacts DEF Track
<1>4. /\ p \in DOMAIN prefixes /\ n \in 0 .. prefixes[p].count
      /\ prefixes[p] = ShapeOf(experiment.of[k]) /\ prefixes[p].count \in Nat
  <2>1. Begun > 0
    BY DEF Track, RunsKept
  <2>2. p \in DOMAIN prefixes /\ n \in 0 .. prefixes[p].count
    BY <1>1 DEF AdmitClaim
  <2>3. prefixes[p] = ShapeOf(experiment.of[k])
    BY <1>1, <1>3, <2>1 DEF Track, SetUp
  <2>4. prefixes[p].count \in Nat
    BY <2>2 DEF Track, IInv, IsDict, Shape
  <2> QED
    BY <2>2, <2>3, <2>4
<1>5. n \in Nat /\ n <= ShapeOf(experiment.of[k]).count
  BY <1>4
<1>6. IF n = 0 THEN accepted' = accepted /\ cache' = cache
               ELSE /\ accepted' = Put(accepted, k, [prefix |-> p, blocks |-> n])
                    /\ cache' = ProtectExisting(cache, k, p, n)
  BY <1>1 DEF AdmitClaim
<1>7. k \notin DOMAIN accepted
  <2>1. AcceptedInOrder
    BY DEF AcceptInv
  <2> QED
    BY <1>1, <1>2, <1>3, <2>1 DEF AcceptedInOrder
<1>8. /\ DOMAIN accepted' \subseteq DOMAIN accepted \cup {k}
      /\ \A j \in DOMAIN accepted : j \in DOMAIN accepted' /\ accepted'[j] = accepted[j]
      /\ k \in DOMAIN accepted' => accepted'[k] = [prefix |-> p, blocks |-> n]
  BY <1>6, <1>7 DEF Put
<1>9. \A d : GrantOf(d)' = GrantOf(d)
  BY <1>2 DEF GrantOf
<1> HIDE DEF n, p, k
<1>10. AcceptedInOrder'
  <2> SUFFICES ASSUME NEW j \in DOMAIN accepted' PROVE \E l \in 1 .. m : l <= i /\ j = Order[l]
    BY <1>2 DEF AcceptedInOrder
  <2>1. CASE j = k
    BY <1>1, <1>2, <2>1 DEF k
  <2>2. CASE j # k
    <3>1. PICK l \in 1 .. m : l <= Made /\ j = Order[l]
      BY <1>8, <2>2 DEF AcceptInv, AcceptedInOrder
    <3> QED
      BY <1>1, <1>2, <3>1
  <2> QED
    BY <2>1, <2>2
<1>11. AsGranted'
  <2> SUFFICES ASSUME NEW l \in 1 .. m, l <= i
               PROVE  \E d \in DOMAIN plan :
                        /\ d.id = Order[l] /\ GrantOf(d) \in Nat
                        /\ Order[l] \in DOMAIN accepted' =>
                             /\ accepted'[Order[l]] = [prefix |-> ClaimedPrefix[Order[l]],
                                                       blocks |-> GrantOf(d)]
                             /\ GrantOf(d) <= ShapeOf(experiment.of[Order[l]]).count
    BY <1>2, <1>9 DEF AsGranted
  <2>1. CASE l = i
    BY <1>1, <1>5, <1>8, <2>1 DEF k, n, p
  <2>2. CASE l # i
    <3>1. l <= Made /\ Order[l] # k
      BY <1>1, <1>2, <1>3, <2>2
    <3>2. PICK d \in DOMAIN plan :
            /\ d.id = Order[l] /\ GrantOf(d) \in Nat
            /\ Order[l] \in DOMAIN accepted =>
                 /\ accepted[Order[l]] = [prefix |-> ClaimedPrefix[Order[l]], blocks |-> GrantOf(d)]
                 /\ GrantOf(d) <= ShapeOf(experiment.of[Order[l]]).count
      BY <3>1 DEF AcceptInv, AsGranted
    <3>3. Order[l] \in DOMAIN accepted' =>
            Order[l] \in DOMAIN accepted /\ accepted'[Order[l]] = accepted[Order[l]]
      BY <1>8, <3>1
    <3> QED
      BY <3>2, <3>3
  <2> QED
    BY <2>1, <2>2
<1>12. PromisesKept'
  <2>1. Inserted = {} /\ Inserted' = {}
    <3>1. {j \in 1 .. m : m + j <= Made} = {} /\ {j \in 1 .. m : m + j <= i} = {}
      BY <1>1, <1>2
    <3> QED
      BY <1>2, <3>1 DEF Inserted
  <2>2. HeldPlaces(cache) = {}
    <3>1. ~ (Made > 2 * m)
      BY <1>1, <1>2
    <3> QED
      BY <2>1, <3>1 DEF Track, HeldInserted
  <2>3. HeldPlaces(cache') = {}
    <3>1. CASE n = 0
      BY <1>6, <2>2, <3>1
    <3>2. CASE n # 0
      <4>1. cache' = ProtectExisting(cache, k, p, n) /\ CacheInv(cache) /\ p \in PrefixId
        BY <1>3, <1>6, <3>2 DEF Track, IInv, PrefixId
      <4> QED
        BY <1>3, <1>5, <2>2, <4>1, AdmissionKeepsPlaces
    <3> QED
      BY <3>1, <3>2
  <2>4. Resident(cache') = {}
    BY <2>3 DEF HeldPlaces
  <2> QED
    BY <2>1, <2>4 DEF PromisesKept, OnlyPromisedRank
<1> QED
  BY <1>10, <1>11, <1>12 DEF AcceptInv

\* The prefills and the pressure come when all claims are admitted.
LEMMA FillAccepts ==
  ASSUME Track, AcceptInv, running # None, todo # << >>, Called, ~ experiment.active,
         Made \in Nat, Made >= Len(Order), accepted' = accepted,
         NEW p \in PrefixId, NEW n \in Nat, Materializes(p, n, 0),
         Inserted' \subseteq Inserted \cup {p},
         \A i \in 1 .. Len(Order) : ClaimedPrefix[Order[i]] = p =>
           n = ShapeOf(experiment.of[Order[i]]).count
  PROVE  AcceptInv'
<1> DEFINE m == Len(Order)
           P == Promised(accepted)
<1>1. /\ Order' = Order /\ plan' = plan /\ experiment' = experiment /\ Made' = Made + 1
      /\ m \in Nat
  BY CalledKeeps, ExperimentFacts DEF Track
<1>2. \A d : GrantOf(d)' = GrantOf(d)
  BY <1>1 DEF GrantOf
<1>3. AcceptedInOrder /\ AsGranted /\ PromisesKept
  BY DEF AcceptInv
<1>4. \A i \in 1 .. m : i <= Made /\ i <= Made + 1
  BY <1>1
<1>5. AcceptedInOrder'
  BY <1>1, <1>3, <1>4 DEF AcceptedInOrder
<1>6. AsGranted'
  BY <1>1, <1>2, <1>3, <1>4 DEF AsGranted
<1>7. PromisesKept'
  <2>1. SUFFICES ASSUME Granted(plan) < Capacity
                 PROVE  /\ OnlyPromisedRank(cache', accepted)
                        /\ \A k \in DOMAIN accepted : accepted[k].prefix \in Inserted' =>
                             Lead(accepted[k].prefix, accepted[k].blocks) \subseteq HeldPlaces(cache')
    BY <1>1 DEF PromisesKept
  <2>2. IsFiniteSet(P) /\ Cardinality(P) \in Nat /\ Cardinality(P) < Capacity
    BY <2>1, PromisesFit, CapacityAssumption
  <2>3. /\ CacheInv(cache) /\ Covered(cache, accepted) /\ AcceptedType(accepted) /\ Now \in Nat
    BY AcceptedIsTyped DEF Track, IInv, Now
  <2>4. OnlyPromisedRank(cache, accepted)
    BY <1>3, <2>1 DEF PromisesKept
  <2> DEFINE d == InsertLeading(cache, accepted, p, n, 0, Now)
  <2> HIDE DEF P
  <2>5. OnlyPromisedRank(d, accepted) /\ (HeldPlaces(cache) \cup Lead(p, n)) \cap P \subseteq HeldPlaces(d)
    BY <2>2, <2>3, <2>4, InsertLeadingKeeps DEF P
  <2>6. CacheInv(d) /\ Covered(d, accepted) /\ cache' = Settled(d)
    BY <2>3, InsertLeadingInv DEF Materializes
  <2> HIDE DEF d
  <2>7. /\ HeldPlaces(cache') = HeldPlaces(d) /\ Resident(cache') = Resident(d)
        /\ cache'.blocks = d.blocks
    BY <2>6, SettledInv DEF Settled, CacheInv, CacheType, EmptyCache
  <2>8. OnlyPromisedRank(cache', accepted)
    BY <2>5, <2>7 DEF OnlyPromisedRank, Place
  <2>9. ASSUME NEW k \in DOMAIN accepted, accepted[k].prefix \in Inserted'
        PROVE  Lead(accepted[k].prefix, accepted[k].blocks) \subseteq HeldPlaces(cache')
    <3> DEFINE L == Lead(accepted[k].prefix, accepted[k].blocks)
    <3>1. L \subseteq P
      BY DEF Promised, P
    <3>2. CASE accepted[k].prefix \in Inserted
      <4>1. L \subseteq HeldPlaces(cache)
        BY <1>3, <2>1, <3>2 DEF PromisesKept
      <4> QED
        BY <2>5, <2>7, <3>1, <4>1
    <3>3. CASE accepted[k].prefix = p
      <4>1. PICK i \in 1 .. m : k = Order[i]
        BY <1>3 DEF AcceptedInOrder
      <4>2. PICK c \in DOMAIN plan :
              /\ GrantOf(c) \in Nat
              /\ accepted[k] = [prefix |-> ClaimedPrefix[k], blocks |-> GrantOf(c)]
              /\ GrantOf(c) <= ShapeOf(experiment.of[k]).count
        BY <1>3, <1>4, <4>1 DEF AsGranted
      <4>3. accepted[k].blocks \in Nat /\ accepted[k].blocks <= n
        BY <3>3, <4>1, <4>2
      <4>4. L \subseteq Lead(p, n)
        BY <3>3, <4>3 DEF Lead
      <4> QED
        BY <2>5, <2>7, <3>1, <4>4
    <3> QED
      BY <2>9, <3>2, <3>3
  <2> QED
    BY <2>8, <2>9
<1> QED
  BY <1>5, <1>6, <1>7 DEF AcceptInv

LEMMA NextAccept == Track /\ AcceptInv /\ [ReportNext]_allVars => AcceptInv'
<1> SUFFICES ASSUME Track, AcceptInv, [ReportNext]_allVars PROVE AcceptInv'
  OBVIOUS
<1> DEFINE m == Len(Order)
<1>1. CASE Start
  <2>1. /\ cache' = EmptyCache /\ accepted' = EmptyDict /\ Made' = 0 /\ Order' = Order
        /\ m \in Nat
    BY <1>1, StartTrack, ExperimentStays, ExperimentFacts DEF Start, Track
  <2>2. DOMAIN accepted' = {} /\ Resident(cache') = {}
    BY <2>1, EmptyHolds DEF EmptyDict
  <2>3. AcceptedInOrder'
    BY <2>2 DEF AcceptedInOrder
  <2>4. AsGranted'
    BY <2>1 DEF AsGranted
  <2>5. PromisesKept'
    BY <2>2 DEF PromisesKept, OnlyPromisedRank
  <2> QED
    BY <2>3, <2>4, <2>5 DEF AcceptInv
<1>2. CASE Score
  BY <1>2 DEF Score, AcceptInv
<1>3. ASSUME running # None, todo # << >>, Called, ~ experiment.active, NEW i, Prefills(i)
      PROVE  AcceptInv'
  <2> DEFINE p == ClaimedPrefix[Order[i]]
             n == prefixes[p].count
  <2>1. /\ i \in 1 .. m /\ Made = m + i - 1 /\ Prefill(p) /\ m \in Nat
        /\ p \in PrefixId /\ Order[i] \in ToSet(Order)
        /\ \A j \in 1 .. m : ClaimedPrefix[Order[j]] = p => j = i
    BY <1>3, ExperimentFacts DEF Prefills, Track, PrefixId
  <2>2. /\ accepted' = accepted /\ Materializes(p, n, 0) /\ p \in DOMAIN prefixes
    BY <2>1 DEF Prefill, Materializes
  <2>3. n \in Nat
    BY <2>2 DEF Track, IInv, IsDict, Shape
  <2>4. n = ShapeOf(experiment.of[Order[i]]).count
    <3>1. Begun > 0
      BY <1>3 DEF Track, RunsKept
    <3> QED
      BY <2>1, <3>1 DEF Track, SetUp
  <2>5. Inserted' \subseteq Inserted \cup {p}
    <3>1. Made + 1 - m = i
      BY <2>1
    <3> QED
      BY <1>3, <2>1, <3>1, InsertedGrows
  <2>6. \A j \in 1 .. m : ClaimedPrefix[Order[j]] = p => n = ShapeOf(experiment.of[Order[j]]).count
    BY <2>1, <2>4
  <2>7. Made \in Nat /\ Made >= m
    BY <2>1
  <2> HIDE DEF p, n
  <2> QED
    BY <1>3, <2>1, <2>2, <2>3, <2>5, <2>6, <2>7, FillAccepts
<1>4. ASSUME running # None, todo # << >>, Called, ~ experiment.active, Presses
      PROVE  AcceptInv'
  <2> DEFINE p == <<"__pressure__", Now>>
             n == experiment.pressure
  <2>1. /\ Made = 2 * m /\ Pressure(n) /\ m \in Nat
        /\ \A j \in 1 .. m : ClaimedPrefix[Order[j]] \in Prefix
    BY <1>4, ExperimentFacts DEF Presses, Track
  <2>2. p \in PressureId /\ p \in PrefixId /\ p \notin Prefix
    BY IdAssumption DEF PressureId, PrefixId, Now, Track, IInv
  <2>3. n \in Nat
    <3>1. n \in PressureSizes \cup {0}
      BY ExperimentAssumption DEF Track
    <3> HIDE DEF n
    <3> QED
      BY <3>1, SizeAssumption
  <2>4. accepted' = accepted /\ Materializes(p, n, 0)
    BY <2>1 DEF Pressure, Materializes
  <2>5. Inserted' \subseteq Inserted \cup {p}
    <3>1. Made + 1 - m \notin 1 .. m
      BY <2>1
    <3> QED
      BY <1>4, <3>1, InsertedGrows
  <2>6. \A j \in 1 .. m : ClaimedPrefix[Order[j]] = p => n = ShapeOf(experiment.of[Order[j]]).count
    BY <2>1, <2>2
  <2>7. Made \in Nat /\ Made >= m
    BY <2>1
  <2> HIDE DEF p, n
  <2> QED
    BY <1>4, <2>2, <2>3, <2>4, <2>5, <2>6, <2>7, FillAccepts
<1>5. ASSUME running # None, todo # << >>, Called,
             \/ \E i, c : Admits(i, c)
             \/ \E i : Prefills(i)
             \/ Presses
             \/ \E d : FillsActive(d)
             \/ \E i : Returns(i)
      PROVE  AcceptInv'
  <2>1. CASE experiment.active
    <3>1. experiment' = experiment
      BY <1>5 DEF Called
    <3> QED
      BY <2>1, <3>1 DEF AcceptInv
  <2>2. CASE ~ experiment.active
    <3>1. ~ (\E d : FillsActive(d)) /\ ~ (\E i : Returns(i))
      BY <2>2 DEF FillsActive, Returns
    <3> QED
      BY <1>3, <1>4, <1>5, <2>2, <3>1, AdmitAccepts
  <2> QED
    BY <2>1, <2>2
<1>6. CASE UNCHANGED allVars
  <2>1. /\ running' = running /\ experiment' = experiment /\ cache' = cache /\ plan' = plan
        /\ todo' = todo /\ accepted' = accepted
    BY <1>6 DEF allVars, runtime, report
  <2>2. Order' = Order /\ Made' = Made
    BY <2>1, ExperimentStays DEF Made
  <2>3. Inserted' = Inserted /\ \A d : GrantOf(d)' = GrantOf(d)
    BY <2>1, <2>2 DEF Inserted, GrantOf
  <2>4. AcceptedInOrder' = AcceptedInOrder
    BY <2>1, <2>2 DEF AcceptedInOrder
  <2>5. AsGranted' = AsGranted
    BY <2>1, <2>2, <2>3 DEF AsGranted
  <2>6. PromisesKept' = PromisesKept
    BY <2>1, <2>3 DEF PromisesKept
  <2> QED
    BY <2>1, <2>4, <2>5, <2>6 DEF AcceptInv
<1> QED
  BY <1>1, <1>2, <1>5, <1>6, RunSteps

LEMMA AcceptedSurvive == Track /\ AcceptInv => AcceptedRangesSurvive
<1> SUFFICES ASSUME Track, AcceptInv, Finished, ~ experiment.active, Granted(plan) < Capacity,
                    NEW k \in DOMAIN accepted
             PROVE  Contiguous(cache, accepted[k].prefix) >= accepted[k].blocks
  BY DEF AcceptedRangesSurvive
<1> DEFINE m == Len(Order)
           p == accepted[k].prefix
           n == accepted[k].blocks
<1>1. running # None /\ todo = << >>
  BY DEF Finished
<1>2. m \in Nat /\ Len(Calls) >= 2 * m /\ Len(Calls) \in Nat
  BY ExperimentFacts, CallsAre DEF Track
<1>3. Made = Len(Calls)
  BY <1>1, <1>2 DEF Made
<1>4. AcceptedInOrder /\ AsGranted /\ PromisesKept
  BY <1>1 DEF AcceptInv
<1>5. PICK i \in 1 .. m : k = Order[i]
  BY <1>4 DEF AcceptedInOrder
<1>6. p = ClaimedPrefix[Order[i]] /\ n \in Nat
  <2>1. i <= Made
    BY <1>2, <1>3
  <2>2. PICK c \in DOMAIN plan :
          /\ GrantOf(c) \in Nat
          /\ accepted[k] = [prefix |-> ClaimedPrefix[k], blocks |-> GrantOf(c)]
    BY <1>4, <1>5, <2>1 DEF AsGranted
  <2> QED
    BY <1>5, <2>2
<1>7. p \in Inserted
  <2>1. m + i <= Made
    BY <1>2, <1>3
  <2> QED
    BY <1>6, <2>1 DEF Inserted
<1>8. Lead(p, n) \subseteq HeldPlaces(cache)
  BY <1>4, <1>7 DEF PromisesKept
<1>9. p \in PrefixId /\ CacheInv(cache)
  BY <1>6, ExperimentFacts DEF Track, IInv, PrefixId
<1> HIDE DEF p, n
<1>10. \A j \in Nat : j < n => <<p, j>> \in HeldPlaces(cache)
  BY <1>6, <1>8 DEF Lead
<1>11. Contiguous(cache, p) >= n
  BY <1>6, <1>9, <1>10, FilledIsContiguous
<1> QED
  BY <1>11 DEF p, n

\* Every accepted range is resident in full at the end of a run whose plan
\* leaves one block of the pool ungranted, whatever the policy that planned,
\* the prefills of the other prefixes and the pressure.
THEOREM AcceptedRangesOutlive == ReportSpec => []AcceptedRangesSurvive
<1>1. ReportInit => AcceptInv
  BY DEF ReportInit, AcceptInv
<1>2. Track /\ AcceptInv => AcceptedRangesSurvive
  BY AcceptedSurvive
<1> QED
  BY <1>1, <1>2, InitTrack, NextTrack, NextAccept, PTL DEF ReportSpec

-----------------------------------------------------------------------------
(* What the oracles plan, from the lemmas about plans.                     *)

\* The batches of the experiments, as those of PolicyPlans.
Plans == INSTANCE PolicyPlansProofs
           WITH Batches <- {BatchOf(e) : e \in Experiments}, Capacities <- {Capacity},
                batch <- Batch, capacity <- Capacity, policy <- None, plan <- None

LEMMA SameTotals ==
  ASSUME NEW f, NEW S
  PROVE  Plans!Total(f, S) = Total(f, S) /\ Plans!ToSet(f) = ToSet(f)
         /\ Plans!IsFiniteSet(S) = IsFiniteSet(S)
BY Zenon DEF Plans!IsFiniteSet, IsFiniteSet, Plans!Total, Total, Plans!Sums, Sums,
             Plans!OneMore, OneMore, Plans!ToSet, ToSet

\* The instance of ClaimPolicies in Harness and the one in PolicyPlans.
LEMMA SameOracle ==
  ASSUME NEW b, NEW cap
  PROVE  Policies!CompletePrefixOracle(b, cap) = Plans!CompletePrefixOracle(b, cap)
BY Zenon DEF Policies!CompletePrefixOracle, Plans!CompletePrefixOracle, Policies!Chosen, Plans!Chosen,
             Policies!Candidates, Plans!Candidates, Policies!BestMask, Plans!BestMask,
             Policies!TryMask, Plans!TryMask, Policies!Masks, Plans!Masks, Policies!TwoTo, Plans!TwoTo,
             Policies!Pass, Plans!Pass, Policies!Viable, Plans!Viable,
             Policies!Thresholds, Plans!Thresholds, Policies!Worth, Plans!Worth,
             Policies!Refuse, Plans!Refuse, Policies!AcceptLeading, Plans!AcceptLeading,
             Policies!Min, Plans!Min, Policies!ToSet, Plans!ToSet,
             Policies!MapThenSumSet, Plans!MapThenSumSet, Policies!MapThenFoldSet, Plans!MapThenFoldSet

LEMMA SameAbstract ==
  ASSUME NEW b, NEW cap
  PROVE  Policies!AbstractBlockOracle(b, cap) = Plans!AbstractBlockOracle(b, cap)
BY Zenon DEF Policies!AbstractBlockOracle, Plans!AbstractBlockOracle,
             Policies!ByBlockValue, Plans!ByBlockValue, Policies!AtLeast1, Plans!AtLeast1,
             Policies!Counts, Plans!Counts, Policies!Refuse, Plans!Refuse,
             Policies!AcceptLeading, Plans!AcceptLeading, Policies!Min, Plans!Min,
             Policies!ToSet, Plans!ToSet,
             Policies!MapThenSumSet, Plans!MapThenSumSet, Policies!MapThenFoldSet, Plans!MapThenFoldSet

LEMMA ForPrefixTyped ==
  ASSUME NEW k \in Nat \ {0}, NEW prefix, Described(prefix)
  PROVE  ForPrefix(k, prefix) \in Plans!ClaimType
<1>1. prefix.count \in Nat /\ prefix.value \in Nat /\ prefix.tenant \in Nat
  BY DEF Described
<1>2. ThresholdBlocks(prefix) \in Nat
  BY ThresholdTyped
<1> QED
  BY <1>1, <1>2 DEF ForPrefix, Plans!ClaimType

\* The lemmas about plans apply to the batches of the experiments.
LEMMA PlansApply == Plans!BatchAssumption /\ Plans!CapacityAssumption
<1>1. ASSUME NEW e \in Experiments
      PROVE  /\ BatchOf(e) \in Seq(Plans!ClaimType)
             /\ \A i, j \in DOMAIN BatchOf(e) : BatchOf(e)[i].id = BatchOf(e)[j].id => i = j
  <2> DEFINE o == e.order
             n == Len(o)
  <2>1. /\ o \in Seq(Claim) /\ IsInjective(o)
        /\ \A k \in ToSet(o) : Described(e.of[k])
    BY ExperimentAssumption
  <2> HIDE DEF o
  <2>2. n \in Nat /\ DOMAIN o = 1 .. n /\ \A i \in 1 .. n : o[i] \in Claim /\ o[i] \in ToSet(o)
    BY <2>1 DEF ToSet
  <2>3. \A i, j \in 1 .. n : o[i] = o[j] => i = j
    BY <2>1, <2>2 DEF IsInjective
  <2>4. \A i \in 1 .. n : o[i] \in Nat \ {0}
    BY <2>2, ClaimPerPrefix
  <2>5. BatchOf(e) = [i \in 1 .. n |-> ForPrefix(o[i], e.of[o[i]])]
    BY <2>2 DEF BatchOf, o
  <2>6. \A i \in 1 .. n : ForPrefix(o[i], e.of[o[i]]) \in Plans!ClaimType
    BY <2>1, <2>2, <2>4, ForPrefixTyped
  <2>7. \A i \in 1 .. n : ForPrefix(o[i], e.of[o[i]]).id = o[i]
    BY DEF ForPrefix
  <2> HIDE DEF n
  <2>8. BatchOf(e) \in Seq(Plans!ClaimType)
    BY <2>2, <2>5, <2>6
  <2> QED
    BY <2>3, <2>5, <2>7, <2>8
<1>2. Plans!BatchAssumption
  BY <1>1 DEF Plans!BatchAssumption
<1>3. Plans!CapacityAssumption
  BY CapacityAssumption DEF Plans!CapacityAssumption
<1> QED
  BY <1>2, <1>3

\* What the oracles answer to the batch of the experiment.
Whole    == PlanOf("complete_prefix_oracle")
Parts    == PlanOf("abstract_block_oracle")
Claims   == ToSet(Batch)
Selected == {c \in Claims : Whole[c].reason = "oracle_complete_prefix"}

\* The claims that can be served, what they need and what they are worth.
Servable == {c \in Claims : c.threshold <= c.count}
Needs    == [c \in Claims |-> c.threshold]
Gains    == [c \in Claims |-> c.worth]

LEMMA ClaimsTyped ==
  ASSUME experiment \in Experiments
  PROVE  /\ Batch \in {BatchOf(e) : e \in Experiments} /\ IsFiniteSet(Claims)
         /\ \A c \in Claims : /\ c \in Plans!ClaimType
                              /\ c.count \in Nat /\ c.threshold \in Nat /\ c.worth \in Nat
                              /\ c.reuse \in Nat /\ c.reuse = c.worth
<1>1. Batch \in {BatchOf(e) : e \in Experiments}
  BY DEF Batch
<1>2. IsFiniteSet(Claims)
  BY BatchIs DEF Claims
<1>3. Batch \in Seq(Plans!ClaimType)
  BY <1>1, PlansApply DEF Plans!BatchAssumption
<1>4. \A c \in Claims : c \in Plans!ClaimType
  BY <1>3 DEF Claims, ToSet
<1>5. \A c \in Plans!ClaimType : /\ c.count \in Nat /\ c.threshold \in Nat /\ c.worth \in Nat
                                 /\ c.reuse \in Nat
  BY DEF Plans!ClaimType
<1>6. \A c \in Claims : c.reuse = c.worth
  <2>1. \A k, prefix : ForPrefix(k, prefix).reuse = ForPrefix(k, prefix).worth
    BY DEF ForPrefix
  <2> QED
    BY <2>1, BatchIs DEF Claims
<1> QED
  BY <1>1, <1>2, <1>4, <1>5, <1>6

\* The complete prefix oracle takes the best of all sets of claims that fit.
LEMMA WholeIsBest ==
  ASSUME experiment \in Experiments
  PROVE  /\ Selected \in SUBSET Servable /\ Total(Needs, Selected) <= Capacity
         /\ \A c \in Claims : Whole[c].blocks = IF c \in Selected THEN c.threshold ELSE 0
         /\ \A c \in Selected : Whole[c].kind \in Policies!Accepting <=> Whole[c].blocks > 0
         /\ \A s \in SUBSET Servable :
              Total(Needs, s) <= Capacity => Total(Gains, s) <= Total(Gains, Selected)
<1> DEFINE b   == Batch
           sel == Plans!Chosen(Plans!Candidates(b), Plans!BestMask(Plans!Candidates(b), Capacity))
<1>1. /\ b \in {BatchOf(e) : e \in Experiments} /\ IsFiniteSet(Claims)
      /\ Capacity \in Nat /\ Plans!ToSet(b) = Claims
      /\ \A c \in Claims : c \in Plans!ClaimType
  BY ClaimsTyped, CapacityAssumption, SameTotals DEF Claims
<1>2. Whole = Plans!CompletePrefixOracle(b, Capacity)
  BY SameOracle DEF Whole, PlanOf
<1> HIDE DEF b
<1>3. /\ sel \in SUBSET Plans!Viables(b) /\ Plans!Thresholds(sel) <= Capacity
      /\ \A s \in SUBSET Plans!Viables(b) :
           Plans!Thresholds(s) <= Capacity => Plans!Worth(s) <= Plans!Worth(sel)
  BY <1>1, PlansApply, Plans!OracleSelects
<1>4. \A c \in Claims :
        /\ Whole[c].blocks = IF c \in sel THEN c.threshold ELSE 0
        /\ Whole[c].reason = "oracle_complete_prefix" <=> c \in sel
  BY <1>1, <1>2, PlansApply, Plans!OracleDecides
<1> DEFINE given(c) == Plans!AcceptLeading(c, c.threshold, "oracle_complete_prefix")
<1>5. \A c \in Claims : c \in sel => Whole[c] = given(c)
  BY <1>1, <1>2 DEF Plans!CompletePrefixOracle
<1>6. ASSUME NEW c \in Claims, c \in sel
       PROVE  Whole[c].kind \in Policies!Accepting <=> Whole[c].blocks > 0
  <2>1. c \in Plans!ClaimType /\ c.threshold \in Nat
    BY ClaimsTyped
  <2>2. given(c).kind \in Plans!Accepting <=> given(c).blocks > 0
    BY <2>1, PlansApply, Plans!AcceptFacts
  <2> HIDE DEF given, sel
  <2> QED
    BY <1>5, <1>6, <2>2 DEF Plans!Accepting, Policies!Accepting
<1> HIDE DEF given
<1>7. Plans!Viables(b) = Servable
  BY <1>1 DEF Plans!Viables, Plans!Viable, Servable
<1> HIDE DEF sel
<1>8. Selected = sel
  BY <1>3, <1>4, <1>7 DEF Selected, Servable
<1>9. ASSUME NEW s \in SUBSET Claims
      PROVE  Plans!Thresholds(s) = Total(Needs, s) /\ Plans!Worth(s) = Total(Gains, s)
  <2>1. s \in SUBSET Plans!ClaimType /\ IsFiniteSet(s)
    BY <1>1, FS_Subset
  <2>2. /\ Plans!Thresholds(s) = Total(Plans!ThresholdOf, s)
        /\ Plans!Worth(s) = Total(Plans!WorthOf, s)
    <3>1. /\ Plans!IsFiniteSet(s)
          /\ Plans!Total(Plans!ThresholdOf, s) = Total(Plans!ThresholdOf, s)
          /\ Plans!Total(Plans!WorthOf, s) = Total(Plans!WorthOf, s)
      BY <2>1, SameTotals
    <3>2. /\ Plans!Thresholds(s) = Plans!Total(Plans!ThresholdOf, s)
          /\ Plans!Worth(s) = Plans!Total(Plans!WorthOf, s)
      BY <2>1, <3>1, PlansApply, Plans!ClaimTotals
    <3> QED
      BY <3>1, <3>2
  <2>3. \A c \in s : Plans!ThresholdOf[c] = Needs[c] /\ Plans!WorthOf[c] = Gains[c]
    BY <2>1 DEF Plans!ThresholdOf, Plans!WorthOf, Needs, Gains
  <2>4. /\ Total(Plans!ThresholdOf, s) = Total(Needs, s)
        /\ Total(Plans!WorthOf, s) = Total(Gains, s)
    BY <2>1, <2>3, TotalAgrees
  <2> QED
    BY <2>2, <2>4
<1>10. \A s \in SUBSET Servable : s \in SUBSET Claims
  BY DEF Servable
<1>11. \A c \in Selected : Whole[c].kind \in Policies!Accepting <=> Whole[c].blocks > 0
  BY <1>8, <1>6 DEF Selected
<1> QED
  BY <1>3, <1>4, <1>7, <1>8, <1>9, <1>10, <1>11

\* What a block of each prefix is worth.
Rate == [c \in Claims |-> c.reuse * (Unit \div Policies!AtLeast1(c.count))]

LEMMA RateFacts ==
  ASSUME experiment \in Experiments
  PROVE  /\ \A c \in Claims : Rate[c] \in Nat
         /\ \A c, d \in Claims : Plans!ByBlockValue(c, d) => Rate[c] >= Rate[d]
<1> DEFINE a(c) == Policies!AtLeast1(c.count)
           u(c) == Unit \div a(c)
<1>1. \A c \in Claims : c.count \in Nat /\ c.reuse \in Nat
  BY ClaimsTyped
<1>2. \A c \in Claims : a(c) \in Nat \ {0} /\ (c.count > 0 => a(c) = c.count)
                        /\ (~ c.count > 0 => a(c) = 1)
  BY <1>1 DEF Policies!AtLeast1
<1>3. \A c \in Claims : c.count > 0 => Unit % c.count = 0
  <2> SUFFICES ASSUME NEW c \in Claims, c.count > 0 PROVE Unit % c.count = 0
    OBVIOUS
  <2>1. PICK i \in 1 .. Len(Order) : c = ForPrefix(Order[i], experiment.of[Order[i]])
    BY BatchIs DEF Claims
  <2>2. c.count = experiment.of[Order[i]].count
    BY <2>1 DEF ForPrefix
  <2>3. Order[i] \in ToSet(experiment.order)
    BY ExperimentFacts DEF Order
  <2> QED
    BY <2>2, <2>3, UnitAssumption
<1>4. ASSUME NEW c \in Claims PROVE u(c) \in Nat /\ Unit = u(c) * a(c)
  <2> DEFINE n == a(c)
  <2>1. n \in Nat \ {0} /\ Unit \in Nat
    BY <1>2, UnitAssumption
  <2>2. Unit % n = 0
    BY <1>2, <1>3, <2>1
  <2> HIDE DEF n
  <2>3. Unit \div n \in Nat /\ Unit = (Unit \div n) * n
    BY <2>1, <2>2
  <2> QED
    BY <2>3 DEF n
<1>5. \A c \in Claims : Rate[c] = c.reuse * u(c)
  BY DEF Rate
<1> HIDE DEF a, u
<1>6. \A c \in Claims : Rate[c] \in Nat
  BY <1>1, <1>4, <1>5
<1>7. ASSUME NEW c \in Claims, NEW d \in Claims, Plans!ByBlockValue(c, d)
      PROVE  Rate[c] >= Rate[d]
  <2> DEFINE p == u(c)
             q == u(d)
             x == a(c)
             y == a(d)
             v == c.reuse
             w == d.reuse
  <2>1. /\ p \in Nat /\ q \in Nat /\ x \in Nat \ {0} /\ y \in Nat \ {0} /\ v \in Nat /\ w \in Nat
        /\ Unit = p * x /\ Unit = q * y /\ Unit \in Nat
    BY <1>1, <1>2, <1>4, UnitAssumption
  <2>2. v * y >= w * x
    <3>1. v * y > w * x \/ v * y = w * x
      BY <1>7 DEF Plans!ByBlockValue, Plans!AtLeast1, Policies!AtLeast1, a
    <3> HIDE DEF x, y, v, w
    <3>2. v * y \in Int /\ w * x \in Int
      BY <2>1
    <3> QED
      BY <3>1, <3>2
  <2>3. Rate[c] = v * p /\ Rate[d] = w * q
    BY <1>5
  <2> HIDE DEF p, q, x, y, v, w
  <2>4. (v * p) * (x * y) >= (w * q) * (x * y)
    <3>1. v * y \in Nat /\ w * x \in Nat /\ w * x <= v * y
      BY <2>1, <2>2
    <3> DEFINE l == w * x
               r == v * y
    <3>2. l \in Nat /\ r \in Nat /\ l <= r
      BY <3>1
    <3> HIDE DEF l, r
    <3>3. Unit * l <= Unit * r
      BY <2>1, <3>2, ProductsTyped
    <3>4. Unit * r = (v * p) * (x * y)
      <4>1. Unit * r = (p * x) * (v * y)
        BY <2>1 DEF r
      <4> QED
        BY <2>1, <4>1
    <3>5. Unit * l = (w * q) * (x * y)
      <4>1. Unit * l = (q * y) * (w * x)
        BY <2>1 DEF l
      <4> QED
        BY <2>1, <4>1
    <3> QED
      BY <3>3, <3>4, <3>5
  <2>5. x * y \in Nat \ {0} /\ v * p \in Int /\ w * q \in Int
    BY <2>1
  <2>6. v * p >= w * q
    BY <2>4, <2>5, PlansApply, Plans!ProductsRise
  <2> QED
    BY <2>3, <2>6
<1> QED
  BY <1>6, <1>7

\* Block for block, the abstract oracle takes the best.
LEMMA PartsAreBest ==
  ASSUME experiment \in Experiments,
         NEW x, \A c \in Claims : x[c] \in Nat /\ x[c] <= c.count, Total(x, Claims) <= Capacity
  PROVE  /\ \A c \in Claims : Parts[c].blocks \in Nat /\ Parts[c].blocks <= c.count
         /\ Total([c \in Claims |-> Rate[c] * x[c]], Claims)
              <= Total([c \in Claims |-> Rate[c] * Parts[c].blocks], Claims)
<1> DEFINE b == Batch
           p == [c \in Claims |-> [blocks |-> x[c]]]
<1>1. /\ b \in {BatchOf(e) : e \in Experiments} /\ IsFiniteSet(Claims)
      /\ Capacity \in Nat /\ Plans!ToSet(b) = Claims
  BY ClaimsTyped, CapacityAssumption, SameTotals DEF Claims
<1>2. Parts = Plans!AbstractBlockOracle(b, Capacity)
  BY SameAbstract DEF Parts, PlanOf
<1> HIDE DEF b
<1>3. Plans!Fits(p, b, Capacity)
  <2>1. \A c \in Claims : p[c].blocks = x[c]
    OBVIOUS
  <2> HIDE DEF p
  <2>2. Total(Plans!BlocksOf(p, Claims), Claims) = Total(x, Claims)
    <3>1. \A c \in Claims : Plans!BlocksOf(p, Claims)[c] = x[c]
      BY <2>1 DEF Plans!BlocksOf
    <3> QED
      BY <1>1, <3>1, TotalAgrees
  <2> QED
    BY <1>1, <2>1, <2>2, SameTotals DEF Plans!Fits
<1>4. Plans!Fits(Parts, b, Capacity)
  BY <1>1, <1>2, PlansApply, Plans!AbstractFits
<1>5. Total(Plans!Valued(Rate, Plans!BlocksOf(p, Claims), Claims), Claims)
        <= Total(Plans!Valued(Rate, Plans!BlocksOf(Parts, Claims), Claims), Claims)
  <2> HIDE DEF p
  <2>1. /\ \A c \in Plans!ToSet(b) : Rate[c] \in Nat
        /\ \A c, d \in Plans!ToSet(b) : Plans!ByBlockValue(c, d) => Rate[c] >= Rate[d]
    BY <1>1, RateFacts
  <2> QED
    BY <1>1, <1>2, <1>3, <2>1, PlansApply, Plans!AbstractIsBest, SameTotals
<1>6. /\ Plans!Valued(Rate, Plans!BlocksOf(p, Claims), Claims) = [c \in Claims |-> Rate[c] * x[c]]
      /\ Plans!Valued(Rate, Plans!BlocksOf(Parts, Claims), Claims)
           = [c \in Claims |-> Rate[c] * Parts[c].blocks]
  BY DEF Plans!Valued, Plans!BlocksOf
<1>7. \A c \in Claims : Parts[c].blocks \in Nat /\ Parts[c].blocks <= c.count
  BY <1>1, <1>4 DEF Plans!Fits
<1> QED
  BY <1>5, <1>6, <1>7

-----------------------------------------------------------------------------
(* What is realized, claim by claim.                                       *)

PrefixOf == [c \in Claims |-> ClaimedPrefix[c.id]]
Kept     == [c \in Claims |-> TotalSurviving(cache, PrefixOf[c])]
Span     == [c \in Claims |-> Contiguous(cache, PrefixOf[c])]

\* The claims whose value is realized if every prefix is valued by its threshold.
Reached == {c \in Claims : c.count > 0 /\ Span[c] >= c.threshold}

ByThreshold == \A k \in ToSet(Order) : experiment.of[k].curve = "threshold"

\* A claim carries the shape of its prefix, and each prefix has one claim.
LEMMA ClaimShapes ==
  ASSUME Track, Begun > 0
  PROVE  /\ Registered = {PrefixOf[c] : c \in Claims}
         /\ \A c, d \in Claims : PrefixOf[c] = PrefixOf[d] => c = d
         /\ \A c \in Claims :
              /\ PrefixOf[c] \in PrefixId /\ PrefixOf[c] \in Registered
              /\ prefixes[PrefixOf[c]] \in Shape /\ prefixes[PrefixOf[c]].count = c.count
              /\ prefixes[PrefixOf[c]].threshold = c.threshold
              /\ prefixes[PrefixOf[c]].value = c.worth
              /\ ByThreshold => prefixes[PrefixOf[c]].curve = "threshold"
<1> DEFINE m == Len(Order)
           item(i) == ForPrefix(Order[i], experiment.of[Order[i]])
<1>1. /\ \A c \in Claims : \E i \in 1 .. m : c.id = Order[i] /\ c = item(i)
      /\ \A i \in 1 .. m : item(i) \in Claims
      /\ \A c, d \in Claims : ClaimedPrefix[c.id] = ClaimedPrefix[d.id] => c = d
  BY BatchIs DEF Track, Claims
<1>2. /\ \A i \in 1 .. m : /\ Order[i] \in ToSet(Order) /\ ClaimedPrefix[Order[i]] \in Prefix
                           /\ ClaimedPrefix[Order[i]] \in Registered
      /\ \A p \in Registered : \E i \in 1 .. m : p = ClaimedPrefix[Order[i]]
  BY ExperimentFacts DEF Track, Registered, Order
<1>3. \A i \in 1 .. m : prefixes[ClaimedPrefix[Order[i]]] = ShapeOf(experiment.of[Order[i]])
  BY <1>2 DEF Track, SetUp
<1>4. \A i \in 1 .. m : /\ item(i).id = Order[i]
                        /\ item(i).count = ShapeOf(experiment.of[Order[i]]).count
                        /\ item(i).threshold = ShapeOf(experiment.of[Order[i]]).threshold
                        /\ item(i).worth = ShapeOf(experiment.of[Order[i]]).value
                        /\ ShapeOf(experiment.of[Order[i]]).curve = experiment.of[Order[i]].curve
  BY DEF ForPrefix, ShapeOf
<1> HIDE DEF item, m
<1>5. \A c, d \in Claims : PrefixOf[c] = PrefixOf[d] => c = d
  BY <1>1 DEF PrefixOf
<1>6. ASSUME NEW c \in Claims
      PROVE  /\ PrefixOf[c] \in PrefixId /\ PrefixOf[c] \in Registered
             /\ prefixes[PrefixOf[c]] \in Shape /\ prefixes[PrefixOf[c]].count = c.count
             /\ prefixes[PrefixOf[c]].threshold = c.threshold
             /\ prefixes[PrefixOf[c]].value = c.worth
             /\ ByThreshold => prefixes[PrefixOf[c]].curve = "threshold"
  <2>1. PICK i \in 1 .. m : c.id = Order[i] /\ c = item(i)
    BY <1>1
  <2>2. PrefixOf[c] = ClaimedPrefix[Order[i]]
    BY <2>1 DEF PrefixOf
  <2>3. PrefixOf[c] \in Registered /\ PrefixOf[c] \in PrefixId
    BY <1>2, <2>2 DEF PrefixId
  <2>4. prefixes[PrefixOf[c]] \in Shape
    BY <2>3, RegisteredFacts
  <2>5. prefixes[PrefixOf[c]] = ShapeOf(experiment.of[Order[i]])
    BY <1>3, <2>2
  <2>6. ByThreshold => ShapeOf(experiment.of[Order[i]]).curve = "threshold"
    BY <1>2, <1>4 DEF ByThreshold
  <2> QED
    BY <1>4, <2>1, <2>3, <2>4, <2>5, <2>6
<1>7. Registered = {PrefixOf[c] : c \in Claims}
  <2>1. ASSUME NEW p \in Registered PROVE \E c \in Claims : p = PrefixOf[c]
    <3>1. PICK i \in 1 .. m : p = ClaimedPrefix[Order[i]]
      BY <1>2
    <3>2. item(i) \in Claims /\ PrefixOf[item(i)] = p
      BY <1>1, <1>4, <3>1 DEF PrefixOf
    <3> QED
      BY <3>2
  <2> QED
    BY <1>6, <2>1
<1> QED
  BY <1>5, <1>6, <1>7

\* What survives fits the prefixes and, together, the pool.
LEMMA KeptFits ==
  ASSUME Track, Begun > 0
  PROVE  /\ \A c \in Claims : /\ Kept[c] \in Nat /\ Kept[c] <= c.count /\ c.count \in Nat
                              /\ Span[c] \in Nat /\ Span[c] <= Kept[c]
         /\ Total(Kept, Claims) <= Capacity
<1>1. IsFiniteSet(Claims) /\ CacheInv(cache) /\ \A c \in Claims : c.count \in Nat
  BY ClaimsTyped DEF Track, IInv
<1>2. ASSUME NEW c \in Claims
      PROVE  /\ ResidentPositions(cache, PrefixOf[c]) \subseteq 0 .. c.count - 1
             /\ \A i : i \in ResidentPositions(cache, PrefixOf[c])
                         <=> <<PrefixOf[c], i>> \in HeldPlaces(cache)
  <2> DEFINE p == PrefixOf[c]
  <2>1. p \in PrefixId /\ p \in Registered /\ prefixes[p].count = c.count
    BY ClaimShapes
  <2> HIDE DEF p
  <2>2. \A i : i \in ResidentPositions(cache, p) <=> <<p, i>> \in HeldPlaces(cache)
    BY <1>1, <2>1, PositionsArePlaces
  <2>3. \A i \in ResidentPositions(cache, p) : i \in Nat /\ i < c.count
    <3> TAKE i \in ResidentPositions(cache, p)
    <3>1. <<p, i>> \in HeldPlaces(cache)
      BY <2>2
    <3>2. i < c.count
      BY <2>1, <3>1 DEF Track, HeldFit
    <3>3. i \in Nat
      <4>1. PICK b \in Resident(cache) : cache.blocks[b].pos = i
        BY <3>1 DEF HeldPlaces, Place
      <4> QED
        BY <1>1, <4>1 DEF CacheInv, BlocksMarked, Resident
    <3> QED
      BY <3>2, <3>3
  <2> QED
    BY <1>1, <2>2, <2>3 DEF p
<1>3. ASSUME NEW c \in Claims
      PROVE  /\ Kept[c] \in Nat /\ Kept[c] <= c.count
             /\ Span[c] \in Nat /\ Span[c] <= Kept[c]
             /\ IsFiniteSet(ResidentPositions(cache, PrefixOf[c]))
  <2> DEFINE p == PrefixOf[c]
             R == ResidentPositions(cache, p)
             N == 0 .. c.count - 1
             n == Contiguous(cache, p)
             I == 0 .. n - 1
  <2>1. c.count \in Nat /\ R \subseteq N
    BY <1>1, <1>2
  <2>2. IsFiniteSet(N) /\ Cardinality(N) = c.count
    <3> DEFINE k == c.count
    <3>1. k \in Nat /\ 0 \in Int /\ k - 1 \in Int
      BY <2>1
    <3> HIDE DEF k
    <3>2. IsFiniteSet(0 .. k - 1) /\ Cardinality(0 .. k - 1) = IF 0 > k - 1 THEN 0 ELSE (k - 1) - 0 + 1
      BY <3>1, FS_Interval
    <3>3. Cardinality(0 .. k - 1) = k
      BY <3>1, <3>2
    <3> QED
      BY <3>2, <3>3 DEF k
  <2>3. n \in Nat /\ \A i \in Nat : i < n => i \in R
    BY <1>1, ClaimShapes, ContiguousIsHeld, CapacityAssumption
  <2>4. Kept[c] = Cardinality(R) /\ Span[c] = n
    BY DEF Kept, Span, TotalSurviving
  <2> HIDE DEF R, N, n
  <2>5. IsFiniteSet(R) /\ Cardinality(R) \in Nat /\ Cardinality(R) <= c.count
    BY <2>1, <2>2, FS_Subset, FS_CardinalityType
  <2>6. I \subseteq R
    BY <2>3
  <2>7. IsFiniteSet(I) /\ Cardinality(I) = n
    <3>1. n \in Nat /\ 0 \in Int /\ n - 1 \in Int
      BY <2>3
    <3>2. IsFiniteSet(0 .. n - 1) /\ Cardinality(0 .. n - 1) = IF 0 > n - 1 THEN 0 ELSE (n - 1) - 0 + 1
      BY <3>1, FS_Interval
    <3> QED
      BY <3>1, <3>2
  <2> HIDE DEF I
  <2>8. n <= Cardinality(R)
    BY <2>5, <2>6, <2>7, FS_Subset
  <2> QED
    BY <2>3, <2>4, <2>5, <2>8 DEF R
<1>4. Total(Kept, Claims) <= Capacity
  <2> DEFINE A == [c \in Claims |-> {<<PrefixOf[c], i>> : i \in ResidentPositions(cache, PrefixOf[c])}]
             U == UNION {A[c] : c \in Claims}
  <2>1. ASSUME NEW c \in Claims PROVE IsFiniteSet(A[c]) /\ Cardinality(A[c]) = Kept[c]
    <3> DEFINE R == ResidentPositions(cache, PrefixOf[c])
               L == A[c]
               f == [i \in R |-> <<PrefixOf[c], i>>]
    <3>1. f \in Bijection(R, L)
      <4>1. L = {f[i] : i \in R}
        OBVIOUS
      <4>2. \A i, j \in R : f[i] = f[j] => i = j
        OBVIOUS
      <4> HIDE DEF f, L
      <4>3. f \in [R -> L]
        BY <4>1 DEF f
      <4> QED
        BY <4>1, <4>2, <4>3 DEF Bijection, Injection, Surjection, IsInjective
    <3>2. ExistsBijection(R, L)
      BY <3>1 DEF ExistsBijection
    <3>3. IsFiniteSet(R) /\ Kept[c] = Cardinality(R)
      BY <1>3 DEF Kept, TotalSurviving
    <3> HIDE DEF R, L
    <3>4. IsFiniteSet(L) /\ Cardinality(L) = Cardinality(R)
      BY <3>2, <3>3, FS_Bijection
    <3> QED
      BY <3>3, <3>4 DEF L
  <2>2. ASSUME NEW c \in Claims, NEW d \in Claims, c # d PROVE A[c] \cap A[d] = {}
    <3>1. PrefixOf[c] # PrefixOf[d]
      BY <2>2, ClaimShapes
    <3> QED
      BY <3>1
  <2>3. U \subseteq HeldPlaces(cache)
    BY <1>2
  <2>4. IsFiniteSet(U) /\ Cardinality(U) = Total(Kept, Claims)
    <3> HIDE DEF A
    <3>1. \A c, d \in Claims : c # d => A[c] \cap A[d] = {}
      BY <2>2
    <3>2. (\A c \in Claims : IsFiniteSet(A[c])) /\ (\A c \in Claims : Kept[c] = Cardinality(A[c]))
      BY <2>1
    <3>3. U = UNION {A[c] : c \in Claims} /\ DOMAIN A = Claims
      BY DEF A
    <3> HIDE DEF U
    <3> QED
      BY <1>1, <3>1, <3>2, <3>3, UnionCounts
  <2> HIDE DEF U
  <2>5. /\ IsFiniteSet(HeldPlaces(cache)) /\ Cardinality(HeldPlaces(cache)) <= Capacity
        /\ Cardinality(HeldPlaces(cache)) \in Nat
    BY <1>1, HeldCounts
  <2>6. Cardinality(U) <= Cardinality(HeldPlaces(cache)) /\ Cardinality(U) \in Nat
    BY <2>3, <2>5, FS_Subset, FS_CardinalityType
  <2> QED
    BY <2>4, <2>5, <2>6, CapacityAssumption
<1> QED
  BY <1>1, <1>3, <1>4

\* A sum of multiples.
LEMMA TotalTimes ==
  ASSUME NEW S, IsFiniteSet(S), NEW m \in Int, NEW e, NEW k,
         \A x \in S : e[x] \in Int /\ k[x] = m * e[x]
  PROVE  Total(e, S) \in Int /\ Total(k, S) = m * Total(e, S)
<1> DEFINE zero == [x \in S |-> 0]
<1>1. Total(zero, S) = 0
  <2>1. \A x \in S : zero[x] = 0
    OBVIOUS
  <2> HIDE DEF zero
  <2>2. {} \in SUBSET S /\ \A x \in S \ {} : zero[x] = 0
    BY <2>1
  <2>3. Total(zero, S) = Total(zero, {})
    BY <2>2, TotalOfPart
  <2> QED
    BY <2>3, TotalNothing
<1>2. \A x \in S : zero[x] \in Int /\ e[x] \in Int /\ k[x] = zero[x] + m * e[x]
  <2>1. \A x \in S : zero[x] = 0 /\ m * e[x] \in Int
    OBVIOUS
  <2> HIDE DEF zero
  <2> QED
    BY <2>1
<1> HIDE DEF zero
<1>3. /\ Total(zero, S) \in Int /\ Total(e, S) \in Int
      /\ Total(k, S) = Total(zero, S) + m * Total(e, S)
  BY <1>2, TotalCombines
<1>4. m * Total(e, S) \in Int
  BY <1>3
<1> QED
  BY <1>1, <1>3, <1>4

Shares == [p \in Registered |-> Share(p, TotalSurviving(cache, p))]

LEMMA SharesTotal ==
  ASSUME IsFiniteSet(Registered)
  PROVE  Scores.abstract_block_value = Total(Shares, Registered)
<1> DEFINE S == Registered
           f == Shares
           v(p) == Share(p, TotalSurviving(cache, p))
<1> HIDE DEF v
<1> DEFINE Is(g) == g = [s \in SUBSET S |->
               IF s = {} THEN 0
               ELSE v(CHOOSE x \in s : TRUE) + g[s \ {CHOOSE x \in s : TRUE}]]
           h == CHOOSE g : Is(g)
<1>1. ASSUME NEW g PROVE Is(g) <=> Sums(g, f, S)
  <2>1. \A s \in SUBSET S : s # {} =>
          v(CHOOSE x \in s : TRUE) = f[CHOOSE x \in s : TRUE]
    BY DEF Shares, v
  <2> HIDE DEF f, S
  <2> QED
    BY <2>1 DEF Sums, OneMore
<1>2. Scores.abstract_block_value = h[S]
  BY DEF Scores, MapThenSumSet, MapThenFoldSet, v
<1> HIDE DEF Is, f
<1>3. PICK g : Sums(g, f, S)
  BY SumsExist
<1>4. \E l : Is(l)
  BY <1>1, <1>3
<1>5. Is(h)
  BY <1>4
<1> HIDE DEF h
<1>6. Sums(h, f, S)
  BY <1>1, <1>5
<1>7. h[S] = Total(f, S)
  BY <1>6, TotalIs
<1> QED
  BY <1>2, <1>7 DEF f, S

\* The abstract surface is the value of what is kept, at the rates.
LEMMA AbstractScore ==
  ASSUME Track, Begun > 0
  PROVE  Scores.abstract_block_value = Total([c \in Claims |-> Rate[c] * Kept[c]], Claims)
<1> DEFINE f == [c \in Claims |-> Rate[c] * Kept[c]]
<1>1. IsFiniteSet(Claims) /\ IsFiniteSet(Registered)
  BY ClaimsTyped, RegisteredFacts DEF Track
<1>2. Scores.abstract_block_value = Total(Shares, Registered)
  BY <1>1, SharesTotal
<1>3. ASSUME NEW c \in Claims PROVE f[c] \in Int /\ Shares[PrefixOf[c]] = f[c]
  <2> DEFINE v == c.worth
             k == Kept[c]
             n == c.count
             u == Unit \div Policies!AtLeast1(n)
  <2>1. /\ v \in Nat /\ k \in Nat /\ n \in Nat /\ k <= n /\ c.reuse = v /\ Unit \in Nat
        /\ Rate[c] \in Nat
    BY ClaimsTyped, KeptFits, RateFacts, UnitAssumption DEF Track
  <2>2. f[c] = (v * u) * k /\ Rate[c] = v * u
    BY <2>1 DEF Rate
  <2>3. Shares[PrefixOf[c]] = IF n = 0 THEN 0 ELSE v * k * (Unit \div n)
    <3>1. /\ PrefixOf[c] \in Registered /\ prefixes[PrefixOf[c]].count = n
          /\ prefixes[PrefixOf[c]].value = v /\ TotalSurviving(cache, PrefixOf[c]) = k
      BY ClaimShapes DEF Kept
    <3> HIDE DEF n, v, k
    <3> QED
      BY <3>1 DEF Shares, Share, ShareOf
  <2>4. f[c] \in Int
    <3>1. f[c] = Rate[c] * k
      OBVIOUS
    <3> HIDE DEF f, k
    <3> QED
      BY <2>1, <3>1
  <2>5. CASE n = 0
    <3>1. k = 0
      BY <2>1, <2>5
    <3>2. f[c] = 0
      <4>1. f[c] = Rate[c] * k
        OBVIOUS
      <4> HIDE DEF f, k
      <4> QED
        BY <2>1, <3>1, <4>1
    <3> QED
      BY <2>3, <2>5, <3>2
  <2>6. CASE n # 0
    <3>1. u = Unit \div n
      BY <2>1, <2>6 DEF Policies!AtLeast1
    <3>2. u \in Nat
      <4> HIDE DEF n
      <4>1. Unit \div n \in Nat
        BY <2>1, <2>6
      <4> QED
        BY <3>1, <4>1
    <3> HIDE DEF f, v, k, n, u
    <3>3. (v * u) * k = v * k * u
      BY <2>1, <3>2
    <3> QED
      BY <2>2, <2>3, <2>4, <2>6, <3>1, <3>3
  <2> QED
    BY <2>4, <2>5, <2>6
<1>4. /\ Registered = {PrefixOf[c] : c \in Claims}
      /\ \A c, d \in Claims : PrefixOf[c] = PrefixOf[d] => c = d
  BY ClaimShapes
<1> HIDE DEF f
<1>5. Total(Shares, {PrefixOf[c] : c \in Claims}) = Total(f, Claims)
  BY <1>1, <1>3, <1>4, TotalOfImage
<1> QED
  BY <1>2, <1>4, <1>5 DEF f

Realizes == [p \in Registered |-> IF prefixes[p].count = 0 THEN 0
                                  ELSE ValueFor(prefixes[p], Contiguous(cache, p))]

LEMMA RealizesTotal ==
  ASSUME IsFiniteSet(Registered)
  PROVE  Scores.thresholded_contiguous_value = Total(Realizes, Registered)
<1> DEFINE S == Registered
           f == Realizes
           v(p) == IF prefixes[p].count = 0 THEN 0 ELSE ValueFor(prefixes[p], Contiguous(cache, p))
<1> HIDE DEF v
<1> DEFINE Is(g) == g = [s \in SUBSET S |->
               IF s = {} THEN 0
               ELSE v(CHOOSE x \in s : TRUE) + g[s \ {CHOOSE x \in s : TRUE}]]
           h == CHOOSE g : Is(g)
<1>1. ASSUME NEW g PROVE Is(g) <=> Sums(g, f, S)
  <2>1. \A s \in SUBSET S : s # {} =>
          v(CHOOSE x \in s : TRUE) = f[CHOOSE x \in s : TRUE]
    BY DEF Realizes, v
  <2> HIDE DEF f, S
  <2> QED
    BY <2>1 DEF Sums, OneMore
<1>2. Scores.thresholded_contiguous_value = h[S]
  BY DEF Scores, MapThenSumSet, MapThenFoldSet, v
<1> HIDE DEF Is, f
<1>3. PICK g : Sums(g, f, S)
  BY SumsExist
<1>4. \E l : Is(l)
  BY <1>1, <1>3
<1>5. Is(h)
  BY <1>4
<1> HIDE DEF h
<1>6. Sums(h, f, S)
  BY <1>1, <1>5
<1>7. h[S] = Total(f, S)
  BY <1>6, TotalIs
<1> QED
  BY <1>2, <1>7 DEF f, S

\* The thresholded surface is the worth of the claims whose threshold is
\* reached, and these are claims that fit the pool together.
LEMMA ThresholdedScore ==
  ASSUME Track, Begun > 0, ByThreshold
  PROVE  /\ Scores.thresholded_contiguous_value = Unit * Total(Gains, Reached)
         /\ Reached \in SUBSET Servable /\ Total(Needs, Reached) <= Capacity
<1> DEFINE f == [c \in Claims |-> IF c \in Reached THEN Unit * c.worth ELSE 0]
<1>1. /\ IsFiniteSet(Claims) /\ IsFiniteSet(Registered) /\ Unit \in Nat
      /\ \A c \in Claims : c.worth \in Nat /\ c.threshold \in Nat /\ c.count \in Nat
      /\ \A c \in Claims : Gains[c] = c.worth /\ Needs[c] = c.threshold
      /\ Reached \in SUBSET Claims /\ IsFiniteSet(Reached)
  <2>1. IsFiniteSet(Claims) /\ Reached \in SUBSET Claims
    BY ClaimsTyped DEF Track, Reached
  <2> QED
    BY <2>1, ClaimsTyped, RegisteredFacts, UnitAssumption, FS_Subset DEF Track, Gains, Needs
<1>2. \A c \in Claims : /\ Kept[c] \in Nat /\ Kept[c] <= c.count
                        /\ Span[c] \in Nat /\ Span[c] <= Kept[c]
  BY KeptFits
<1>3. ASSUME NEW c \in Claims PROVE f[c] \in Int /\ Realizes[PrefixOf[c]] = f[c]
  <2> DEFINE p == PrefixOf[c]
             n == Contiguous(cache, p)
             shape == prefixes[p]
  <2>1. /\ p \in Registered /\ shape.count = c.count /\ shape.value = c.worth
        /\ shape.threshold = c.threshold /\ shape.curve = "threshold"
    BY ClaimShapes
  <2>2. n = Span[c] /\ n \in Nat /\ n <= c.count
    BY <1>1, <1>2 DEF Span
  <2> HIDE DEF p, n, shape
  <2>3. ValueFor(shape, n) = IF n >= c.threshold THEN Unit * c.worth ELSE 0
    <3>1. (IF n < shape.count THEN n ELSE shape.count) = n
      BY <1>1, <2>1, <2>2
    <3> QED
      BY <2>1, <3>1 DEF ValueFor
  <2>4. Realizes[p] = IF c.count = 0 THEN 0 ELSE ValueFor(shape, n)
    BY <2>1 DEF Realizes, shape, n
  <2>5. c \in Reached <=> c.count # 0 /\ n >= c.threshold
    BY <1>1, <2>2 DEF Reached
  <2>6. f[c] = (IF c \in Reached THEN Unit * c.worth ELSE 0) /\ Unit * c.worth \in Int
    BY <1>1
  <2> HIDE DEF f
  <2> QED
    BY <2>3, <2>4, <2>5, <2>6 DEF p
<1>4. /\ Registered = {PrefixOf[c] : c \in Claims}
      /\ \A c, d \in Claims : PrefixOf[c] = PrefixOf[d] => c = d
  BY ClaimShapes
<1>5. \A c \in Reached : f[c] = Unit * Gains[c] /\ Gains[c] \in Int
  BY <1>1
<1>6. \A c \in Claims \ Reached : f[c] = 0
  OBVIOUS
<1>7. \A c \in Reached : f[c] \in Int
  BY <1>1, <1>3
<1> HIDE DEF f
<1>8. Total(Realizes, Registered) = Total(f, Claims)
  BY <1>1, <1>3, <1>4, TotalOfImage
<1>9. Total(f, Claims) = Total(f, Reached)
  BY <1>1, <1>6, <1>7, TotalOfPart
<1>10. Total(f, Reached) = Unit * Total(Gains, Reached)
  <2>1. Unit \in Int
    BY <1>1
  <2> QED
    BY <1>1, <1>5, <2>1, TotalTimes
<1>11. Reached \in SUBSET Servable
  <2>1. \A c \in Reached : Span[c] >= c.threshold
    BY DEF Reached
  <2> QED
    BY <1>1, <1>2, <2>1 DEF Servable
<1>12. Total(Needs, Reached) <= Capacity
  <2>1. \A c \in Reached : Needs[c] \in Int /\ Kept[c] \in Int /\ Needs[c] <= Kept[c]
    <3>1. \A c \in Reached : Span[c] >= c.threshold
      BY DEF Reached
    <3> QED
      BY <1>1, <1>2, <3>1
  <2>2. Total(Needs, Reached) <= Total(Kept, Reached)
    BY <1>1, <2>1, TotalLess
  <2>3. Total(Kept, Reached) <= Total(Kept, Claims) /\ Total(Kept, Reached) \in Nat
        /\ Total(Kept, Claims) \in Nat
    BY <1>1, <1>2, TotalGrows
  <2>4. Total(Kept, Claims) <= Capacity
    BY KeptFits
  <2>5. Total(Needs, Reached) \in Int
    BY <1>1, <2>1, TotalInt
  <2> QED
    BY <2>2, <2>3, <2>4, <2>5, CapacityAssumption
<1>13. Scores.thresholded_contiguous_value = Total(Realizes, Registered)
  BY <1>1, RealizesTotal
<1> QED
  BY <1>8, <1>9, <1>10, <1>11, <1>12, <1>13

-----------------------------------------------------------------------------
(* What the plans of the oracles are worth.                                *)

SelectedWorth(answer) ==
  [c \in DOMAIN answer |-> IF answer[c].reason = "oracle_complete_prefix" THEN Unit * c.worth ELSE 0]

LEMMA SelectedWorthTotal ==
  ASSUME NEW answer, IsFiniteSet(DOMAIN answer)
  PROVE  WorthOfSelected(answer) = Total(SelectedWorth(answer), DOMAIN answer)
<1> DEFINE S == DOMAIN answer
           f == SelectedWorth(answer)
           v(c) == IF answer[c].reason = "oracle_complete_prefix" THEN Unit * c.worth ELSE 0
<1> HIDE DEF v
<1> DEFINE Is(g) == g = [s \in SUBSET S |->
               IF s = {} THEN 0
               ELSE v(CHOOSE x \in s : TRUE) + g[s \ {CHOOSE x \in s : TRUE}]]
           h == CHOOSE g : Is(g)
<1>1. ASSUME NEW g PROVE Is(g) <=> Sums(g, f, S)
  <2>1. \A s \in SUBSET S : s # {} =>
          v(CHOOSE x \in s : TRUE) = f[CHOOSE x \in s : TRUE]
    BY DEF SelectedWorth, v
  <2> HIDE DEF f, S
  <2> QED
    BY <2>1 DEF Sums, OneMore
<1>2. WorthOfSelected(answer) = h[S]
  BY DEF WorthOfSelected, MapThenSumSet, MapThenFoldSet, v
<1> HIDE DEF Is, f
<1>3. PICK g : Sums(g, f, S)
  BY SumsExist
<1>4. \E l : Is(l)
  BY <1>1, <1>3
<1>5. Is(h)
  BY <1>4
<1> HIDE DEF h
<1>6. Sums(h, f, S)
  BY <1>1, <1>5
<1>7. h[S] = Total(f, S)
  BY <1>6, TotalIs
<1> QED
  BY <1>2, <1>7 DEF f, S

BlocksWorth(answer) == [c \in DOMAIN answer |-> ShareOf(c.reuse, c.count, answer[c].blocks)]

LEMMA BlocksWorthTotal ==
  ASSUME NEW answer, IsFiniteSet(DOMAIN answer)
  PROVE  WorthOfBlocks(answer) = Total(BlocksWorth(answer), DOMAIN answer)
<1> DEFINE S == DOMAIN answer
           f == BlocksWorth(answer)
           v(c) == ShareOf(c.reuse, c.count, answer[c].blocks)
<1> HIDE DEF v
<1> DEFINE Is(g) == g = [s \in SUBSET S |->
               IF s = {} THEN 0
               ELSE v(CHOOSE x \in s : TRUE) + g[s \ {CHOOSE x \in s : TRUE}]]
           h == CHOOSE g : Is(g)
<1>1. ASSUME NEW g PROVE Is(g) <=> Sums(g, f, S)
  <2>1. \A s \in SUBSET S : s # {} =>
          v(CHOOSE x \in s : TRUE) = f[CHOOSE x \in s : TRUE]
    BY DEF BlocksWorth, v
  <2> HIDE DEF f, S
  <2> QED
    BY <2>1 DEF Sums, OneMore
<1>2. WorthOfBlocks(answer) = h[S]
  BY DEF WorthOfBlocks, MapThenSumSet, MapThenFoldSet, v
<1> HIDE DEF Is, f
<1>3. PICK g : Sums(g, f, S)
  BY SumsExist
<1>4. \E l : Is(l)
  BY <1>1, <1>3
<1>5. Is(h)
  BY <1>4
<1> HIDE DEF h
<1>6. Sums(h, f, S)
  BY <1>1, <1>5
<1>7. h[S] = Total(f, S)
  BY <1>6, TotalIs
<1> QED
  BY <1>2, <1>7 DEF f, S

LEMMA OracleDomains ==
  DOMAIN Whole = Claims /\ DOMAIN Parts = Claims
<1>1. Policies!ToSet(Batch) = Claims
  BY DEF Policies!ToSet, ToSet, Claims
<1>2. DOMAIN Policies!CompletePrefixOracle(Batch, Capacity) = Claims
  BY <1>1 DEF Policies!CompletePrefixOracle
<1>3. DOMAIN Policies!AbstractBlockOracle(Batch, Capacity) = Claims
  BY <1>1 DEF Policies!AbstractBlockOracle
<1> QED
  BY <1>2, <1>3 DEF Whole, Parts, PlanOf

LEMMA OracleWorth ==
  ASSUME experiment \in Experiments
  PROVE  /\ WorthOfSelected(Whole) = Unit * Total(Gains, Selected)
         /\ WorthOfBlocks(Parts) = Total([c \in Claims |-> Rate[c] * Parts[c].blocks], Claims)
<1>1. /\ IsFiniteSet(Claims) /\ Selected \in SUBSET Claims /\ IsFiniteSet(Selected) /\ Unit \in Nat
      /\ \A c \in Claims : c.worth \in Nat /\ c.count \in Nat /\ c.reuse = c.worth
  <2>1. IsFiniteSet(Claims) /\ Selected \in SUBSET Claims
    BY ClaimsTyped DEF Selected
  <2> QED
    BY <2>1, ClaimsTyped, UnitAssumption, FS_Subset
<1>2. WorthOfSelected(Whole) = Unit * Total(Gains, Selected)
  <2> DEFINE f == SelectedWorth(Whole)
  <2>1. \A c \in Claims : f[c] = IF c \in Selected THEN Unit * c.worth ELSE 0
    BY OracleDomains DEF SelectedWorth, Selected
  <2>2. WorthOfSelected(Whole) = Total(f, Claims)
    BY <1>1, OracleDomains, SelectedWorthTotal
  <2> HIDE DEF f
  <2>3. \A c \in Selected : Gains[c] \in Int /\ f[c] = Unit * Gains[c]
    BY <1>1, <2>1 DEF Gains
  <2>4. \A c \in Selected : f[c] \in Int
    <3>1. \A n \in Nat : Unit * n \in Int
      BY <1>1
    <3>2. \A c \in Selected : Gains[c] \in Nat
      BY <1>1 DEF Gains
    <3> QED
      BY <2>3, <3>1, <3>2
  <2>5. \A c \in Claims \ Selected : f[c] = 0
    BY <2>1
  <2>6. Total(f, Claims) = Total(f, Selected)
    BY <1>1, <2>4, <2>5, TotalOfPart
  <2>7. Unit \in Int
    BY <1>1
  <2>8. Total(Gains, Selected) \in Int /\ Total(f, Selected) = Unit * Total(Gains, Selected)
    BY <1>1, <2>3, <2>7, TotalTimes
  <2> QED
    BY <2>2, <2>6, <2>8
<1>3. WorthOfBlocks(Parts) = Total([c \in Claims |-> Rate[c] * Parts[c].blocks], Claims)
  <2> DEFINE f == BlocksWorth(Parts)
             e == [c \in Claims |-> Rate[c] * Parts[c].blocks]
  <2>1. WorthOfBlocks(Parts) = Total(f, Claims)
    BY <1>1, OracleDomains, BlocksWorthTotal
  <2>2. \A c \in Claims : Parts[c].blocks \in Nat /\ Parts[c].blocks <= c.count
    <3> DEFINE none == [c \in Claims |-> 0]
    <3>1. \A c \in Claims : none[c] = 0
      OBVIOUS
    <3> HIDE DEF none
    <3>2. Total(none, Claims) = Total(none, {})
      BY <1>1, <3>1, TotalOfPart
    <3>3. Total(none, Claims) <= Capacity
      BY <3>2, TotalNothing, CapacityAssumption
    <3>4. \A c \in Claims : none[c] \in Nat /\ none[c] <= c.count
      BY <1>1, <3>1
    <3> QED
      BY <3>3, <3>4, PartsAreBest
  <2>3. ASSUME NEW c \in Claims PROVE f[c] = e[c]
    <3> DEFINE v == c.worth
               k == Parts[c].blocks
               n == c.count
               u == Unit \div Policies!AtLeast1(n)
    <3>1. v \in Nat /\ k \in Nat /\ n \in Nat /\ k <= n /\ Unit \in Nat /\ Rate[c] \in Nat
      BY <1>1, <2>2, RateFacts
    <3>2. e[c] = Rate[c] * k /\ Rate[c] = v * u
      BY <1>1 DEF Rate
    <3>3. f[c] = IF n = 0 THEN 0 ELSE v * k * (Unit \div n)
      <4>1. c.reuse = v /\ c \in DOMAIN Parts
        BY <1>1, OracleDomains
      <4> HIDE DEF n, v, k
      <4> QED
        BY <4>1 DEF BlocksWorth, ShareOf, n, k
    <3> HIDE DEF f, e, k
    <3>4. CASE n = 0
      <4>1. k = 0
        BY <3>1, <3>4
      <4>2. Rate[c] * k = 0
        BY <3>1, <4>1
      <4> QED
        BY <3>2, <3>3, <3>4, <4>2
    <3>5. CASE n # 0
      <4>1. u = Unit \div n
        BY <3>1, <3>5 DEF Policies!AtLeast1
      <4>2. u \in Nat
        <5> HIDE DEF n
        <5>1. Unit \div n \in Nat
          BY <3>1, <3>5
        <5> QED
          BY <4>1, <5>1
      <4> HIDE DEF v, n, u
      <4>3. (v * u) * k = v * k * u
        BY <3>1, <4>2
      <4> QED
        BY <3>2, <3>3, <3>5, <4>1, <4>3
    <3> QED
      BY <3>4, <3>5
  <2> HIDE DEF f, e
  <2>4. Total(f, Claims) = Total(e, Claims)
    BY <1>1, <2>3, TotalAgrees
  <2> QED
    BY <2>1, <2>4 DEF e
<1> QED
  BY <1>2, <1>3

-----------------------------------------------------------------------------
(* What is realized stays within the plans of the oracles.                 *)

\* Every grant of the plan is accepted when its claim is admitted.
GrantsAdmitted ==
  running # None /\ ~ experiment.active =>
    \A i \in 1 .. Len(Order) : i <= Made =>
      \A c \in DOMAIN plan :
        c.id = Order[i] /\ GrantOf(c) > 0 => Order[i] \in DOMAIN accepted

\* The selected claims whose prefixes have blocks: only these can realize value.
Fillable == {c \in Selected : c.count > 0}

\* What a run realizes is what some claims that fit the pool are worth: for the
\* oracle these are all it selected, if it left a block of the pool ungranted.
WithinPlans(name) ==
  /\ results[name].scores.abstract_block_value <= WorthOfBlocks(Parts)
  /\ ByThreshold =>
       \E s \in SUBSET Servable :
         /\ Total(Needs, s) <= Capacity /\ \A c \in s : c.count > 0
         /\ Thresholded(name) = Unit * Total(Gains, s)
         /\ name = "oracle" /\ Granted(Whole) < Capacity => Fillable \subseteq s

ResultsInv ==
  ~ experiment.active =>
    /\ \A name \in DOMAIN results : WithinPlans(name)
    /\ "oracle" \in DOMAIN results =>
         /\ results["oracle"].plan = Whole
         /\ Granted(Whole) \in Nat /\ Granted(Whole) <= Capacity
    /\ "abstract_block_oracle" \in DOMAIN results =>
         results["abstract_block_oracle"].plan = Parts

LEMMA AdmitGrants ==
  ASSUME Track, AcceptInv, GrantsAdmitted, running # None, todo # << >>, Called,
         ~ experiment.active, NEW i, NEW c, Admits(i, c)
  PROVE  GrantsAdmitted'
<1> DEFINE m == Len(Order)
           k == Order[i]
<1>1. /\ i \in 1 .. m /\ Made = i - 1 /\ c \in DOMAIN plan /\ c.id = k /\ AdmitClaim(k, GrantOf(c))
  BY DEF Admits
<1>2. /\ Order' = Order /\ plan' = plan /\ experiment' = experiment /\ Made' = i
      /\ m \in Nat /\ i \in Nat
  BY <1>1, CalledKeeps, ExperimentFacts DEF Track
<1>3. \A d : GrantOf(d)' = GrantOf(d)
  BY <1>2 DEF GrantOf
<1>4. \A d, e \in DOMAIN plan : d.id = e.id => d = e
  <2>1. Begun \in 1 .. Len(Rows)
    BY RowsAre DEF Track, RunsKept, Suffix, Begun
  <2>2. plan = PlanOf(Rows[Begun].policy)
    BY <2>1 DEF Track, SetUp
  <2>3. DOMAIN plan = ToSet(Batch)
    BY <2>1, <2>2, PlanDomain
  <2> QED
    BY <2>3, BatchIs DEF Track
<1>5. /\ DOMAIN accepted \subseteq DOMAIN accepted'
      /\ GrantOf(c) > 0 => k \in DOMAIN accepted'
  <2> DEFINE n == GrantOf(c)
  <2>1. IF n = 0 THEN accepted' = accepted
        ELSE accepted' = Put(accepted, k, [prefix |-> ClaimedPrefix[k], blocks |-> n])
    BY <1>1 DEF AdmitClaim
  <2> HIDE DEF n
  <2>2. CASE n = 0
    BY <2>1, <2>2 DEF n
  <2>3. CASE n # 0
    BY <2>1, <2>3 DEF Put
  <2> QED
    BY <2>2, <2>3
<1> SUFFICES ASSUME NEW j \in 1 .. m, j <= i, NEW d \in DOMAIN plan, d.id = Order[j], GrantOf(d) > 0
             PROVE  Order[j] \in DOMAIN accepted'
  BY <1>2, <1>3 DEF GrantsAdmitted
<1>6. CASE j = i
  <2>1. d = c
    BY <1>1, <1>4, <1>6
  <2> QED
    BY <1>5, <1>6, <2>1
<1>7. CASE j # i
  <2>1. j <= Made
    BY <1>1, <1>2, <1>7
  <2> QED
    BY <1>5, <2>1 DEF GrantsAdmitted
<1> QED
  BY <1>6, <1>7

LEMMA NextAdmitted == Track /\ AcceptInv /\ GrantsAdmitted /\ [ReportNext]_allVars => GrantsAdmitted'
<1> SUFFICES ASSUME Track, AcceptInv, GrantsAdmitted, [ReportNext]_allVars PROVE GrantsAdmitted'
  OBVIOUS
<1> DEFINE m == Len(Order)
<1>1. CASE Start
  <2>1. Made' = 0 /\ Order' = Order
    BY <1>1, StartTrack, ExperimentStays DEF Start
  <2> QED
    BY <2>1 DEF GrantsAdmitted
<1>2. CASE Score
  BY <1>2 DEF Score, GrantsAdmitted
<1>3. ASSUME running # None, todo # << >>, Called, ~ experiment.active,
             (\E i : Prefills(i)) \/ Presses
      PROVE  GrantsAdmitted'
  <2>1. /\ Order' = Order /\ plan' = plan /\ experiment' = experiment /\ Made' = Made + 1
        /\ m \in Nat
    BY <1>3, CalledKeeps, ExperimentFacts DEF Track
  <2>2. Made \in Nat /\ Made >= m /\ accepted' = accepted
    <3>1. CASE \E i : Prefills(i)
      <4>1. PICK i : Prefills(i)
        BY <3>1
      <4> QED
        BY <2>1, <4>1 DEF Prefills, Prefill
    <3>2. CASE Presses
      BY <2>1, <3>2 DEF Presses, Pressure
    <3> QED
      BY <1>3, <3>1, <3>2
  <2>3. \A d : GrantOf(d)' = GrantOf(d)
    BY <2>1 DEF GrantOf
  <2>4. \A i \in 1 .. m : i <= Made
    BY <2>1, <2>2
  <2> QED
    BY <1>3, <2>1, <2>2, <2>3, <2>4 DEF GrantsAdmitted
<1>4. ASSUME running # None, todo # << >>, Called,
             \/ \E i, c : Admits(i, c)
             \/ \E i : Prefills(i)
             \/ Presses
             \/ \E d : FillsActive(d)
             \/ \E i : Returns(i)
      PROVE  GrantsAdmitted'
  <2>1. CASE experiment.active
    <3>1. experiment' = experiment
      BY <1>4 DEF Called
    <3> QED
      BY <2>1, <3>1 DEF GrantsAdmitted
  <2>2. CASE ~ experiment.active
    <3>1. ~ (\E d : FillsActive(d)) /\ ~ (\E i : Returns(i))
      BY <2>2 DEF FillsActive, Returns
    <3> QED
      BY <1>3, <1>4, <2>2, <3>1, AdmitGrants
  <2> QED
    BY <2>1, <2>2
<1>5. CASE UNCHANGED allVars
  <2>1. /\ running' = running /\ experiment' = experiment /\ plan' = plan
        /\ todo' = todo /\ accepted' = accepted
    BY <1>5 DEF allVars, runtime, report
  <2>2. Order' = Order /\ Made' = Made /\ \A d : GrantOf(d)' = GrantOf(d)
    BY <2>1, ExperimentStays DEF Made, GrantOf
  <2> QED
    BY <2>1, <2>2 DEF GrantsAdmitted
<1> QED
  BY <1>1, <1>2, <1>4, <1>5, RunSteps

\* The oracle's plan grants the thresholds of what it selected.
LEMMA OracleGrants ==
  ASSUME experiment \in Experiments, plan = Whole
  PROVE  /\ Granted(plan) \in Nat /\ Granted(plan) <= Capacity
         /\ \A c \in Selected : GrantOf(c) = c.threshold
<1>1. /\ IsFiniteSet(Claims) /\ DOMAIN plan = Claims /\ Selected \in SUBSET Claims
      /\ \A c \in Claims : c.threshold \in Nat
      /\ \A c \in Claims : plan[c].blocks = IF c \in Selected THEN c.threshold ELSE 0
      /\ \A c \in Selected : plan[c].kind \in Policies!Accepting <=> plan[c].blocks > 0
      /\ Total(Needs, Selected) <= Capacity
  BY ClaimsTyped, OracleDomains, WholeIsBest DEF Servable
<1>2. \A c \in Claims : GrantOf(c) = IF c \in Selected THEN c.threshold ELSE 0
  BY <1>1 DEF GrantOf
<1>3. \A c \in Claims : Grants[c] = IF c \in Selected THEN c.threshold ELSE 0
  BY <1>1, <1>2 DEF Grants
<1>4. /\ \A c \in Selected : Grants[c] \in Int /\ Grants[c] = Needs[c] /\ Needs[c] \in Nat
      /\ \A c \in Claims \ Selected : Grants[c] = 0
  BY <1>1, <1>3 DEF Needs
<1>5. IsFiniteSet(Selected)
  BY <1>1, FS_Subset
<1>6. Total(Grants, Claims) = Total(Grants, Selected)
  BY <1>1, <1>4, TotalOfPart
<1>7. Total(Grants, Selected) = Total(Needs, Selected)
  BY <1>4, <1>5, TotalAgrees
<1>8. Total(Needs, Selected) \in Nat
  BY <1>4, <1>5, TotalGrows
<1>9. Granted(plan) = Total(Grants, Claims)
  BY <1>1, GrantedTotal
<1> QED
  BY <1>1, <1>2, <1>6, <1>7, <1>8, <1>9

\* What the oracle selected is realized, if it left a block ungranted.
LEMMA SelectedReached ==
  ASSUME Track, AcceptInv, GrantsAdmitted, Finished, ~ experiment.active,
         plan = Whole, Granted(plan) < Capacity
  PROVE  Fillable \subseteq Reached
<1> DEFINE m == Len(Order)
<1> SUFFICES ASSUME NEW c \in Fillable PROVE c \in Reached
  OBVIOUS
<1>1. running # None /\ todo = << >> /\ Begun > 0
  BY DEF Finished, Track, RunsKept
<1>2. m \in Nat /\ Len(Calls) >= 2 * m /\ Len(Calls) \in Nat
  BY ExperimentFacts, CallsAre DEF Track
<1>3. Made = Len(Calls)
  BY <1>1, <1>2 DEF Made
<1>4. /\ c \in Claims /\ c \in Selected /\ c.count > 0 /\ c.threshold \in Nat
      /\ GrantOf(c) = c.threshold /\ DOMAIN plan = Claims
      /\ Span[c] \in Nat /\ Span[c] = Contiguous(cache, ClaimedPrefix[c.id])
  <2>1. c \in Claims /\ c \in Selected /\ c.count > 0
    BY DEF Fillable, Selected
  <2> QED
    BY <1>1, <2>1, ClaimsTyped, OracleGrants, OracleDomains, KeptFits DEF Track, Span, PrefixOf
<1>5. CASE c.threshold = 0
  BY <1>4, <1>5 DEF Reached
<1>6. CASE c.threshold # 0
  <2>1. PICK i \in 1 .. m : c.id = Order[i]
    BY <1>4, BatchIs DEF Claims, Track
  <2> DEFINE k == Order[i]
  <2>2. i <= Made
    BY <1>2, <1>3
  <2>3. k \in DOMAIN accepted
    <3>1. GrantOf(c) > 0
      BY <1>4, <1>6
    <3> QED
      BY <1>1, <1>4, <2>1, <2>2, <3>1 DEF GrantsAdmitted
  <2>4. AsGranted
    BY <1>1 DEF AcceptInv
  <2>5. PICK d \in DOMAIN plan :
          d.id = k /\ accepted[k] = [prefix |-> ClaimedPrefix[k], blocks |-> GrantOf(d)]
    BY <2>2, <2>3, <2>4 DEF AsGranted
  <2>6. d = c
    BY <1>4, <2>1, <2>5, BatchIs DEF Claims, Track
  <2>7. Contiguous(cache, accepted[k].prefix) >= accepted[k].blocks
    BY <2>3, AcceptedSurvive DEF AcceptedRangesSurvive
  <2>8. accepted[k].prefix = ClaimedPrefix[c.id] /\ accepted[k].blocks = c.threshold
    BY <1>4, <2>1, <2>5, <2>6
  <2> QED
    BY <1>4, <2>7, <2>8 DEF Reached
<1> QED
  BY <1>5, <1>6

\* Where the oracles are among the rows.
LEMMA RowNames ==
  ASSUME ~ experiment.active
  PROVE  /\ Len(Rows) = 6 /\ Rows[5].name = "oracle" /\ Rows[6].name = "abstract_block_oracle"
         /\ \A i \in 1 .. Len(Rows) :
              /\ Rows[i].name = "oracle" => Rows[i].policy = "complete_prefix_oracle"
              /\ Rows[i].name = "abstract_block_oracle" => Rows[i].policy = "abstract_block_oracle"
<1>1. \A name, policy, gate : Row(name, policy, gate).name = name /\ Row(name, policy, gate).policy = policy
  BY DEF Row
<1>2. Rows = ComparedPolicies /\ Len(ComparedPolicies) = 6
  BY DEF Rows, ComparedPolicies
<1>3. /\ ComparedPolicies[1].name = "native" /\ ComparedPolicies[2].name = "value_density"
      /\ ComparedPolicies[3].name = "naive_fair_share"
      /\ ComparedPolicies[4].name = "complete_prefix_fair_share"
      /\ ComparedPolicies[5].name = "oracle" /\ ComparedPolicies[6].name = "abstract_block_oracle"
      /\ ComparedPolicies[5].policy = "complete_prefix_oracle"
      /\ ComparedPolicies[6].policy = "abstract_block_oracle"
  BY <1>1 DEF ComparedPolicies
<1>4. \A i \in 1 .. 6 : i = 1 \/ i = 2 \/ i = 3 \/ i = 4 \/ i = 5 \/ i = 6
  OBVIOUS
<1> QED
  BY <1>2, <1>3, <1>4

\* The plans of the oracles depend on the experiment alone.
LEMMA PlansStay ==
  ASSUME experiment' = experiment
  PROVE  /\ Whole' = Whole /\ Parts' = Parts /\ Claims' = Claims /\ Selected' = Selected
         /\ Servable' = Servable /\ Needs' = Needs /\ Gains' = Gains /\ Fillable' = Fillable
         /\ ByThreshold' = ByThreshold
         /\ WorthOfBlocks(Parts)' = WorthOfBlocks(Parts) /\ Granted(Whole)' = Granted(Whole)
<1>1. Batch' = Batch /\ Order' = Order
  BY ExperimentStays
<1>2. Whole' = Whole /\ Parts' = Parts
  BY <1>1 DEF Whole, Parts, PlanOf
<1>3. Claims' = Claims
  BY <1>1 DEF Claims
<1>4. Selected' = Selected /\ Servable' = Servable /\ Needs' = Needs /\ Gains' = Gains
  BY <1>2, <1>3 DEF Selected, Servable, Needs, Gains
<1>5. Fillable' = Fillable
  BY <1>4 DEF Fillable
<1>6. ByThreshold' = ByThreshold
  BY <1>1 DEF ByThreshold
<1>7. WorthOfBlocks(Parts)' = WorthOfBlocks(Parts)
  BY <1>2 DEF WorthOfBlocks, MapThenSumSet, MapThenFoldSet
<1>8. Granted(Whole)' = Granted(Whole)
  BY <1>2 DEF Granted, MapThenSumSet, MapThenFoldSet
<1> QED
  BY <1>1, <1>2, <1>3, <1>4, <1>5, <1>6, <1>7, <1>8

\* A step that scores no run keeps what was scored.
LEMMA ResultsStay ==
  ASSUME experiment' = experiment, results' = results, ResultsInv
  PROVE  ResultsInv'
<1>1. \A name : WithinPlans(name)' <=> WithinPlans(name)
  BY PlansStay DEF WithinPlans, Thresholded
<1> QED
  BY <1>1, PlansStay DEF ResultsInv

LEMMA ScoreResults ==
  ASSUME Track, AcceptInv, GrantsAdmitted, ResultsInv, Score
  PROVE  ResultsInv'
<1> PICK n : n = running.name
  OBVIOUS
<1> DEFINE record == [scores |-> Scores, plan |-> plan]
           pays == Scores.abstract_block_value
           earns == Scores.thresholded_contiguous_value
<1>1. /\ running # None /\ todo = << >> /\ experiment' = experiment
      /\ results' = Put(results, n, record) /\ experiment \in Experiments
  BY DEF Score, Track
<1>2. CASE experiment.active
  BY <1>1, <1>2 DEF ResultsInv
<1>3. CASE ~ experiment.active
  <2>1. /\ Begun \in 1 .. Len(Rows) /\ Begun > 0 /\ running = Rows[Begun]
        /\ plan = PlanOf(Rows[Begun].policy) /\ n = Rows[Begun].name
    BY <1>1, ScoreTrack DEF Track, RunsKept, SetUp
  <2>2. /\ n = "oracle" => plan = Whole
        /\ n = "abstract_block_oracle" => plan = Parts
    BY <1>3, <2>1, RowNames DEF Whole, Parts
  <2>3. record.scores = Scores /\ record.plan = plan
    OBVIOUS
  <2> HIDE DEF record
  <2>4. /\ DOMAIN results' = DOMAIN results \cup {n} /\ results'[n] = record
        /\ \A name \in DOMAIN results \ {n} : results'[name] = results[name]
    BY <1>1 DEF Put
  <2>5. ASSUME NEW name \in DOMAIN results \ {n} PROVE WithinPlans(name)'
    <3>1. WithinPlans(name) /\ results'[name] = results[name]
      BY <1>3, <2>4 DEF ResultsInv
    <3> QED
      BY <1>1, <3>1, PlansStay DEF WithinPlans, Thresholded
  <2>6. pays <= WorthOfBlocks(Parts)
    <3>1. /\ \A c \in Claims : Kept[c] \in Nat /\ Kept[c] <= c.count
          /\ Total(Kept, Claims) <= Capacity
      BY <2>1, KeptFits
    <3>2. Total([c \in Claims |-> Rate[c] * Kept[c]], Claims)
            <= Total([c \in Claims |-> Rate[c] * Parts[c].blocks], Claims)
      BY <1>1, <3>1, PartsAreBest
    <3>3. pays = Total([c \in Claims |-> Rate[c] * Kept[c]], Claims)
      BY <2>1, AbstractScore
    <3>4. WorthOfBlocks(Parts) = Total([c \in Claims |-> Rate[c] * Parts[c].blocks], Claims)
      BY <1>1, OracleWorth
    <3> QED
      BY <3>2, <3>3, <3>4
  <2>7. ASSUME ByThreshold
        PROVE  \E s \in SUBSET Servable :
                 /\ Total(Needs, s) <= Capacity /\ \A c \in s : c.count > 0
                 /\ earns = Unit * Total(Gains, s)
                 /\ n = "oracle" /\ Granted(Whole) < Capacity => Fillable \subseteq s
    <3>1. /\ earns = Unit * Total(Gains, Reached)
          /\ Reached \in SUBSET Servable /\ Total(Needs, Reached) <= Capacity
      BY <2>1, <2>7, ThresholdedScore
    <3>2. \A c \in Reached : c.count > 0
      BY DEF Reached
    <3>3. n = "oracle" /\ Granted(Whole) < Capacity => Fillable \subseteq Reached
      BY <1>1, <1>3, <2>2, SelectedReached DEF Finished
    <3> HIDE DEF earns
    <3> QED
      BY <3>1, <3>2, <3>3
  <2>8. WithinPlans(n)'
    <3>1. results'[n].scores.abstract_block_value = pays
      BY <2>3, <2>4
    <3>2. results'[n].scores.thresholded_contiguous_value = earns
      BY <2>3, <2>4
    <3> HIDE DEF pays, earns
    <3> QED
      BY <1>1, <2>6, <2>7, <3>1, <3>2, PlansStay DEF WithinPlans, Thresholded
  <2>9. \A name \in DOMAIN results' : WithinPlans(name)'
    BY <2>4, <2>5, <2>8
  <2>10. "oracle" \in DOMAIN results' =>
           /\ results'["oracle"].plan = Whole
           /\ Granted(Whole) \in Nat /\ Granted(Whole) <= Capacity
    <3>1. CASE n = "oracle"
      BY <1>1, <2>2, <2>3, <2>4, <3>1, OracleGrants
    <3>2. CASE n # "oracle"
      BY <1>3, <2>4, <3>2 DEF ResultsInv
    <3> QED
      BY <3>1, <3>2
  <2>11. "abstract_block_oracle" \in DOMAIN results' =>
           results'["abstract_block_oracle"].plan = Parts
    BY <1>3, <2>2, <2>3, <2>4 DEF ResultsInv
  <2> QED
    BY <1>1, <2>9, <2>10, <2>11, PlansStay DEF ResultsInv
<1> QED
  BY <1>2, <1>3

LEMMA NextResults ==
  Track /\ AcceptInv /\ GrantsAdmitted /\ ResultsInv /\ [ReportNext]_allVars => ResultsInv'
<1> SUFFICES ASSUME Track, AcceptInv, GrantsAdmitted, ResultsInv, [ReportNext]_allVars
             PROVE  ResultsInv'
  OBVIOUS
<1>1. CASE Start
  BY <1>1, ResultsStay DEF Start
<1>2. CASE Score
  BY <1>2, ScoreResults
<1>3. CASE Called
  BY <1>3, ResultsStay DEF Called
<1>4. CASE UNCHANGED allVars
  BY <1>4, ResultsStay DEF allVars, report
<1> QED
  BY <1>1, <1>2, <1>3, <1>4, RunSteps

LEMMA InitResults == ReportInit => AcceptInv /\ GrantsAdmitted /\ ResultsInv
<1> SUFFICES ASSUME ReportInit PROVE AcceptInv /\ GrantsAdmitted /\ ResultsInv
  OBVIOUS
<1>1. running = None /\ results = EmptyDict
  BY DEF ReportInit
<1>2. DOMAIN results = {}
  BY <1>1 DEF EmptyDict
<1> QED
  BY <1>1, <1>2 DEF AcceptInv, GrantsAdmitted, ResultsInv

\* A report that is done has the runs of the oracles.
LEMMA OraclesReported ==
  ASSUME Track, Reported, ~ experiment.active
  PROVE  /\ "oracle" \in DOMAIN results /\ "abstract_block_oracle" \in DOMAIN results
         /\ AllByThreshold => ByThreshold
<1>1. running = None /\ Len(agenda) = 0
  BY DEF Reported
<1>2. /\ Len(Rows) = 6 /\ Rows[5].name = "oracle" /\ Rows[6].name = "abstract_block_oracle"
  BY RowNames
<1>3. Begun = 6
  BY <1>1, <1>2 DEF Begun
<1>4. DOMAIN results = {Rows[i].name : i \in 1 .. 6}
  BY <1>1, <1>3 DEF Track, RunsKept
<1>5. Rows[5].name \in DOMAIN results /\ Rows[6].name \in DOMAIN results
  BY <1>4
<1>6. ASSUME AllByThreshold, NEW k \in ToSet(Order) PROVE experiment.of[k].curve = "threshold"
  <2>1. /\ ClaimedPrefix[k] \in DOMAIN prefixes
        /\ prefixes[ClaimedPrefix[k]] = ShapeOf(experiment.of[k])
    BY <1>3 DEF Track, SetUp
  <2>2. ShapeOf(experiment.of[k]).curve = experiment.of[k].curve
    BY DEF ShapeOf
  <2> QED
    BY <1>6, <2>1, <2>2 DEF AllByThreshold
<1> QED
  BY <1>2, <1>5, <1>6 DEF ByThreshold

LEMMA WithinOracles == Track /\ ResultsInv => RealizedWithinOraclePlans
<1> SUFFICES ASSUME Track, ResultsInv, Reported, ~ experiment.active, NEW name \in DOMAIN results
             PROVE  /\ AllByThreshold =>
                         Thresholded(name) <= WorthOfSelected(results["oracle"].plan)
                    /\ results[name].scores.abstract_block_value
                         <= WorthOfBlocks(results["abstract_block_oracle"].plan)
  BY DEF RealizedWithinOraclePlans
<1>1. /\ experiment \in Experiments /\ IsFiniteSet(Claims)
      /\ \A c \in Claims : Gains[c] \in Nat
  BY ClaimsTyped DEF Track, Gains
<1>2. /\ WithinPlans(name) /\ results["oracle"].plan = Whole
      /\ results["abstract_block_oracle"].plan = Parts
  BY OraclesReported DEF ResultsInv
<1>3. ASSUME AllByThreshold PROVE Thresholded(name) <= WorthOfSelected(Whole)
  <2>1. PICK s \in SUBSET Servable :
          Total(Needs, s) <= Capacity /\ Thresholded(name) = Unit * Total(Gains, s)
    BY <1>2, <1>3, OraclesReported DEF WithinPlans
  <2>2. Total(Gains, s) <= Total(Gains, Selected) /\ Selected \in SUBSET Servable
    BY <1>1, <2>1, WholeIsBest
  <2>3. s \in SUBSET Claims /\ Selected \in SUBSET Claims
    BY <2>2 DEF Servable
  <2>4. Total(Gains, s) \in Nat /\ Total(Gains, Selected) \in Nat
    BY <1>1, <2>3, TotalGrows
  <2>5. Unit * Total(Gains, s) <= Unit * Total(Gains, Selected)
    BY <2>2, <2>4, UnitAssumption, ProductsTyped
  <2>6. WorthOfSelected(Whole) = Unit * Total(Gains, Selected)
    BY <1>1, OracleWorth
  <2> QED
    BY <2>1, <2>5, <2>6
<1> QED
  BY <1>2, <1>3 DEF WithinPlans

\* What realizes no more than the selected claims realizes no more than those
\* of them that have blocks: the others need none.
LEMMA FillableIsBest ==
  ASSUME experiment \in Experiments, NEW s \in SUBSET Servable,
         Total(Needs, s) <= Capacity, \A c \in s : c.count > 0
  PROVE  Total(Gains, s) <= Total(Gains, Fillable)
<1> DEFINE Z == Selected \ Fillable
           U == s \cup Z
<1>1. /\ IsFiniteSet(Claims) /\ Selected \in SUBSET Servable /\ Servable \in SUBSET Claims
      /\ \A c \in Claims : c.count \in Nat /\ c.threshold \in Nat
      /\ \A c \in Claims : Gains[c] \in Nat /\ Needs[c] = c.threshold
      /\ \A t \in SUBSET Servable :
           Total(Needs, t) <= Capacity => Total(Gains, t) <= Total(Gains, Selected)
  BY ClaimsTyped, WholeIsBest DEF Servable, Gains, Needs
<1>2. \A c \in Z : c.count = 0 /\ Needs[c] = 0
  <2>1. \A c \in Z : c \in Claims /\ c \in Servable /\ ~ (c.count > 0)
    BY <1>1 DEF Fillable
  <2>2. \A c \in Z : c.threshold <= c.count
    BY <2>1 DEF Servable
  <2> QED
    BY <1>1, <2>1, <2>2
<1>3. /\ U \in SUBSET Servable /\ s \in SUBSET U /\ Z \in SUBSET U /\ U \ s = Z
      /\ Fillable \in SUBSET Selected /\ IsFiniteSet(U) /\ IsFiniteSet(Selected)
  <2>1. U \in SUBSET Claims /\ Selected \in SUBSET Claims
    BY <1>1
  <2>2. IsFiniteSet(U) /\ IsFiniteSet(Selected)
    BY <1>1, <2>1, FS_Subset
  <2>3. \A c \in s : c \notin Z
    <3>1. \A c \in s : c.count # 0
      BY <1>1
    <3> QED
      BY <1>2, <3>1
  <2> QED
    BY <1>1, <2>2, <2>3 DEF Fillable
<1>4. Total(Gains, U) <= Total(Gains, Selected)
  <2>1. \A c \in s : Needs[c] \in Int
    BY <1>1
  <2>2. \A c \in U \ s : Needs[c] = 0
    BY <1>2
  <2> HIDE DEF U
  <2>3. Total(Needs, U) = Total(Needs, s)
    BY <1>3, <2>1, <2>2, TotalOfPart
  <2> QED
    BY <1>1, <1>3, <2>3
<1> HIDE DEF U
<1>5. /\ Total(Gains, s) \in Int /\ Total(Gains, U \ s) \in Int
      /\ Total(Gains, U) = Total(Gains, s) + Total(Gains, U \ s)
  <2>1. \A c \in U : Gains[c] \in Int
    BY <1>1, <1>3
  <2> QED
    BY <1>3, <2>1, TotalSplit
<1>6. /\ Total(Gains, Fillable) \in Int /\ Total(Gains, Selected \ Fillable) \in Int
      /\ Total(Gains, Selected) = Total(Gains, Fillable) + Total(Gains, Selected \ Fillable)
  <2>1. \A c \in Selected : Gains[c] \in Int
    BY <1>1
  <2> QED
    BY <1>3, <2>1, TotalSplit
<1>7. Total(Gains, U \ s) = Total(Gains, Selected \ Fillable)
  BY <1>3
<1> QED
  BY <1>4, <1>5, <1>6, <1>7

LEMMA RegretExplained == Track /\ ResultsInv => NegativeRegretNeedsFullPool
<1> SUFFICES ASSUME Track, ResultsInv, Reported, ~ experiment.active, AllByThreshold,
                    NEW name \in DOMAIN results, Thresholded(name) > Thresholded("oracle"),
                    Granted(Whole) # Capacity
             PROVE  FALSE
  BY OraclesReported DEF NegativeRegretNeedsFullPool, ResultsInv
<1>1. /\ experiment \in Experiments /\ IsFiniteSet(Claims)
      /\ \A c \in Claims : Gains[c] \in Nat
  BY ClaimsTyped DEF Track, Gains
<1>2. /\ WithinPlans(name) /\ WithinPlans("oracle") /\ ByThreshold
      /\ Granted(Whole) \in Nat /\ Granted(Whole) <= Capacity
  BY OraclesReported DEF ResultsInv
<1>3. Granted(Whole) < Capacity
  BY <1>2, CapacityAssumption
<1>4. PICK s \in SUBSET Servable :
        /\ Total(Needs, s) <= Capacity /\ \A c \in s : c.count > 0
        /\ Thresholded(name) = Unit * Total(Gains, s)
  BY <1>2 DEF WithinPlans
<1>5. PICK o \in SUBSET Servable :
        Fillable \subseteq o /\ Thresholded("oracle") = Unit * Total(Gains, o)
  BY <1>2, <1>3 DEF WithinPlans
<1>6. s \in SUBSET Claims /\ o \in SUBSET Claims /\ Fillable \in SUBSET o /\ IsFiniteSet(o)
  BY <1>1, <1>5, FS_Subset DEF Servable
<1>7. Total(Gains, s) \in Nat
  BY <1>1, <1>6, TotalGrows
<1>8. /\ Total(Gains, Fillable) \in Nat /\ Total(Gains, o) \in Nat
      /\ Total(Gains, Fillable) <= Total(Gains, o)
  <2>1. \A c \in o : Gains[c] \in Nat
    BY <1>1, <1>6
  <2> QED
    BY <1>6, <2>1, TotalGrows
<1>9. Total(Gains, s) <= Total(Gains, Fillable)
  BY <1>1, <1>4, FillableIsBest
<1>10. Total(Gains, s) <= Total(Gains, o)
  BY <1>7, <1>8, <1>9
<1>11. Unit * Total(Gains, s) <= Unit * Total(Gains, o)
  BY <1>7, <1>8, <1>10, UnitAssumption, ProductsTyped
<1>12. Unit * Total(Gains, s) \in Int /\ Unit * Total(Gains, o) \in Int
  BY <1>7, <1>8, UnitAssumption, ProductsTyped
<1> QED
  BY <1>4, <1>5, <1>11, <1>12

\* surfaces.py scores what a run left in its pool, oracle.py answers for the
\* whole pool before anything is inserted: whatever any policy realizes of a
\* batch of threshold values stays within the worth of what the complete
\* prefix oracle selects, and block for block within what the abstract oracle
\* plans, through all admissions, prefills and pressure.
THEOREM RealizedStaysWithinPlans == ReportSpec => []RealizedWithinOraclePlans
<1>1. ReportInit => AcceptInv /\ GrantsAdmitted /\ ResultsInv
  BY InitResults
<1>2. Track /\ ResultsInv => RealizedWithinOraclePlans
  BY WithinOracles
<1> QED
  BY <1>1, <1>2, InitTrack, NextTrack, NextAccept, NextAdmitted, NextResults, PTL DEF ReportSpec

\* normalized_regret of regret.py measures the oracle by the run of its plan,
\* not by the plan: a policy beats it (a negative regret) only if the plan
\* granted every block of the pool.
THEOREM RegretIsExplained == ReportSpec => []NegativeRegretNeedsFullPool
<1>1. ReportInit => AcceptInv /\ GrantsAdmitted /\ ResultsInv
  BY InitResults
<1>2. Track /\ ResultsInv => NegativeRegretNeedsFullPool
  BY RegretExplained
<1> QED
  BY <1>1, <1>2, InitTrack, NextTrack, NextAccept, NextAdmitted, NextResults, PTL DEF ReportSpec
================================================================================
