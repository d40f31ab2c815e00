------------------------------ MODULE RunProofs ------------------------------
(* Proofs about what a run goes through: the messages of a thread, under the   *)
(* middleware's budget (PlanningBudget); the items and events the sources of a *)
(* report answer with (WorkCollection); and, at the end, the confirmed         *)
(* memories the agent reads (MemoryCache).  Lists and budgets may have any     *)
(* length.  The components share no variable: each theorem is about the        *)
(* specification it names.                                                     *)
EXTENDS PlanningBudget, WorkCollection, MemoryCache,
        FiniteSetTheorems, WellFoundedInduction, TLAPS

-----------------------------------------------------------------------------
(* Numbers and loops.                                                          *)

(* A set of numbers that has a member has a smallest.                          *)
LEMMA Smallest ==
    ASSUME NEW T, T \subseteq Nat, T # {}
    PROVE  \E x \in T : \A y \in T : x <= y
  <1> DEFINE R == {ss \in Nat \X Nat : ss[1] < ss[2]}
  <1>1. IsWellFoundedOn(R, Nat)
    BY NatLessThanWellFounded DEF OpToRel
  <1>2. PICK x \in T : \A y \in T : ~(<<y, x>> \in R)
    <2> HIDE DEF R
    <2> QED
      BY <1>1, WFMin, Zenon
  <1>3. ASSUME NEW y \in T PROVE x <= y
    <2>1. x \in Nat /\ y \in Nat /\ <<y, x>> \in Nat \X Nat
      BY <1>2
    <2>2. ~(y < x)
      BY <1>2, <2>1
    <2> QED
      BY <2>1, <2>2
  <1> QED
    BY <1>3

(* One that is bounded has a largest, which is its Max.                        *)
LEMMA Largest ==
    ASSUME NEW S \in SUBSET Nat, S # {}, NEW n \in Nat, \A x \in S : x <= n
    PROVE  Max(S) \in S /\ \A y \in S : y <= Max(S)
  <1> DEFINE U == {n - x : x \in S}
  <1>1. U \in SUBSET Nat /\ U # {}
    <2>1. PICK x : x \in S
      OBVIOUS
    <2>2. n - x \in U
      BY <2>1
    <2>3. \A y \in S : n - y \in Nat
      OBVIOUS
    <2> QED
      BY <2>2, <2>3
  <1>2. PICK u \in U : \A v \in U : u <= v
    <2> HIDE DEF U
    <2> QED
      BY <1>1, Smallest
  <1>3. PICK x \in S : u = n - x
    BY <1>2
  <1>4. ASSUME NEW y \in S PROVE x >= y
    <2>1. n - y \in U
      OBVIOUS
    <2>2. u <= n - y
      BY <1>2, <2>1
    <2> QED
      BY <1>3, <2>2
  <1>5. \E z \in S : \A y \in S : z >= y
    BY <1>4
  <1>6. Max(S) \in S /\ \A y \in S : Max(S) >= y
    BY <1>5 DEF Max
  <1> QED
    BY <1>6

(* Induction up to a bound.                                                    *)
LEMMA Upwards ==
    ASSUME NEW T, NEW L \in Nat, 0 \in T, \A n \in 1..L : n - 1 \in T => n \in T
    PROVE  0..L \subseteq T
  <1> SUFFICES ASSUME (0..L) \ T # {} PROVE FALSE
    OBVIOUS
  <1>1. PICK x \in (0..L) \ T : \A y \in (0..L) \ T : x <= y
    <2>1. (0..L) \ T \subseteq Nat
      OBVIOUS
    <2> QED
      BY <2>1, Smallest
  <1>2. x \in 1..L /\ x - 1 \in 0..L
    BY <1>1
  <1>3. x - 1 \in T
    BY <1>1, <1>2
  <1> QED
    BY <1>1, <1>2, <1>3

(* A loop of L rounds over accumulators in A computes a function.              *)
Rounds(g, m, A, b, step) ==
    /\ g \in [0..m -> A]
    /\ g[0] = b
    /\ \A n \in 1..m : g[n] = step[<<g[n - 1], n>>]

LEMMA Loop ==
    ASSUME NEW A, NEW b \in A, NEW L \in Nat, NEW step \in [A \X (1..L) -> A]
    PROVE  \E g : Rounds(g, L, A, b, step)
  <1> DEFINE Runs(g, m) == Rounds(g, m, A, b, step)
             T == {m \in 0..L : \E g : Runs(g, m)}
  <1>1. 0 \in T
    <2>1. Runs([n \in 0..0 |-> b], 0)
      BY DEF Rounds
    <2>2. 0 \in 0..L
      OBVIOUS
    <2> HIDE DEF Runs
    <2> QED
      BY <2>1, <2>2
  <1>2. ASSUME NEW m \in 1..L, m - 1 \in T PROVE m \in T
    <2>0. PICK g : Runs(g, m - 1)
      BY <1>2
    <2>1. /\ g \in [0..(m - 1) -> A]
          /\ g[0] = b
          /\ \A n \in 1..(m - 1) : g[n] = step[<<g[n - 1], n>>]
      BY <2>0 DEF Rounds
    <2>2. PICK h : h = [n \in 0..m |-> IF n < m THEN g[n] ELSE step[<<g[m - 1], m>>]]
      OBVIOUS
    <2>3. g[m - 1] \in A /\ step[<<g[m - 1], m>>] \in A
      BY <2>1
    <2>4. \A n \in 0..m : n < m => n \in 0..(m - 1) /\ h[n] = g[n] /\ g[n] \in A
      BY <2>1, <2>2
    <2>5. h \in [0..m -> A] /\ h[m] = step[<<g[m - 1], m>>]
      BY <2>2, <2>3, <2>4
    <2>6. h[0] = b
      BY <2>1, <2>4
    <2>7. ASSUME NEW n \in 1..m PROVE h[n] = step[<<h[n - 1], n>>]
      <3>1. n - 1 \in 0..m /\ n - 1 < m
        OBVIOUS
      <3>2. h[n - 1] = g[n - 1]
        BY <2>4, <3>1
      <3>3. CASE n = m
        BY <2>5, <3>2, <3>3
      <3>4. CASE n # m
        <4>1. n < m /\ n \in 0..m /\ n \in 1..(m - 1)
          BY <3>4
        <4> QED
          BY <2>1, <2>4, <3>2, <4>1
      <3> QED
        BY <3>3, <3>4
    <2>8. Runs(h, m)
      BY <2>5, <2>6, <2>7 DEF Rounds
    <2> QED
      BY <2>8
  <1>3. L \in T
    <2> HIDE DEF T
    <2>1. 0..L \subseteq T
      BY <1>1, <1>2, Upwards
    <2> QED
      BY <2>1
  <1> QED
    BY <1>3

-----------------------------------------------------------------------------
(* PlanningBudget                                                              *)

Message == [kind : {"human", "ai", "tool"}, calls : Calls, failed : BOOLEAN]

HistoryTyped == messages \in Seq(Message)

(* What a limited tool can come to between two summaries.                      *)
Most(tool) == Budget(tool) - 1 + MaxParallel

(* The calls in sight can be counted; those of a limited tool exceed its       *)
(* budget at most by what one answer can call, and each summary took no more   *)
(* than that out of sight.                                                     *)
Within(tool) ==
    /\ IsFiniteSet(CallsOf(messages, tool))
    /\ CountToolCalls(messages, tool) <= Most(tool)
    /\ spent[tool] <= summaries * Most(tool) + CountToolCalls(messages, tool)

BudgetInv == /\ HistoryTyped
             /\ summaries \in Nat
             /\ spent \in [Limited -> Nat]
             /\ \A tool \in Limited : Within(tool)

-----------------------------------------------------------------------------
(* A message adds its own calls to the count and takes none away.              *)
LEMMA CountAppend ==
    ASSUME NEW ms \in Seq(Message), NEW m \in Message, NEW tool \in Tools,
           IsFiniteSet(CallsOf(ms, tool))
    PROVE  /\ IsFiniteSet(CallsOf(Append(ms, m), tool))
           /\ CountToolCalls(Append(ms, m), tool) =
                  CountToolCalls(ms, tool) + m.calls[tool]
  <1> DEFINE n == Len(ms) + 1
             k == m.calls[tool]
             new == {n} \X (1..k)
  <1>1. k \in Nat
    BY PlanningBudgetAssumption DEF Message, Calls
  <1>2. CallsOf(Append(ms, m), tool) = CallsOf(ms, tool) \cup new
    <2>1. DOMAIN Append(ms, m) = DOMAIN ms \cup {n}
      OBVIOUS
    <2>2. Append(ms, m)[n] = m /\ \A i \in DOMAIN ms : Append(ms, m)[i] = ms[i]
      OBVIOUS
    <2> QED
      BY <2>1, <2>2 DEF CallsOf
  <1>3. CallsOf(ms, tool) \cap new = {}
    <2>1. n \notin DOMAIN ms
      OBVIOUS
    <2> QED
      BY <2>1 DEF CallsOf
  <1>4. IsFiniteSet(new) /\ Cardinality(new) = k
    <2>1. IsFiniteSet({n}) /\ Cardinality({n}) = 1
      BY FS_Singleton
    <2>2. IsFiniteSet(1..k) /\ Cardinality(1..k) = k
      <3> HIDE DEF k
      <3>1. /\ IsFiniteSet(1..k)
            /\ Cardinality(1..k) = IF 1 > k THEN 0 ELSE k - 1 + 1
        BY <1>1, FS_Interval
      <3> QED
        BY <1>1, <3>1
    <2>3. IsFiniteSet(new) /\ Cardinality(new) = Cardinality({n}) * Cardinality(1..k)
      BY <2>1, <2>2, FS_Product
    <2> QED
      BY <1>1, <2>1, <2>2, <2>3
  <1> HIDE DEF new
  <1>5. /\ IsFiniteSet(CallsOf(ms, tool) \cup new)
        /\ Cardinality(CallsOf(ms, tool) \cup new) =
              Cardinality(CallsOf(ms, tool)) + Cardinality(new)
                - Cardinality(CallsOf(ms, tool) \cap new)
    BY <1>4, FS_Union
  <1>6. Cardinality(CallsOf(ms, tool) \cap new) = 0
    BY <1>3, FS_EmptySet
  <1>7. Cardinality(CallsOf(ms, tool)) \in Nat
    BY FS_CardinalityType
  <1> QED
    BY <1>1, <1>2, <1>4, <1>5, <1>6, <1>7 DEF CountToolCalls

LEMMA CountEmpty ==
    ASSUME NEW tool
    PROVE  IsFiniteSet(CallsOf(<<>>, tool)) /\ CountToolCalls(<<>>, tool) = 0
  <1>1. CallsOf(<<>>, tool) = {}
    BY DEF CallsOf
  <1> QED
    BY <1>1, FS_EmptySet DEF CountToolCalls

(* A summary leaves no more calls than there were: those of the messages kept  *)
(* are calls of the history, at another place.                                 *)
LEMMA CountSummary ==
    ASSUME NEW ms \in Seq(Message), NEW k \in 2..Len(ms), NEW tool \in Tools,
           IsFiniteSet(CallsOf(ms, tool)),
           NEW new, new = <<Human>> \o SubSeq(ms, k, Len(ms))
    PROVE  /\ IsFiniteSet(CallsOf(new, tool))
           /\ CountToolCalls(new, tool) <= CountToolCalls(ms, tool)
  <1> DEFINE S == CallsOf(new, tool)
             T == CallsOf(ms, tool)
             f == [c \in S |-> <<c[1] + (k - 2), c[2]>>]
  <1>1. /\ k \in Nat /\ Len(ms) \in Nat /\ k >= 2
        /\ DOMAIN new \subseteq Nat
        /\ new[1] = Human
        /\ \A i \in DOMAIN new : i # 1 => /\ i + (k - 2) \in DOMAIN ms
                                         /\ new[i] = ms[i + (k - 2)]
    <2>1. Len(ms) \in Nat /\ k \in Nat /\ k >= 2 /\ k <= Len(ms) /\ DOMAIN ms = 1..Len(ms)
      OBVIOUS
    <2>2. PICK tail : tail = SubSeq(ms, k, Len(ms))
      OBVIOUS
    <2>3. /\ tail \in Seq(Message)
          /\ Len(tail) = Len(ms) - k + 1
          /\ \A j \in 1..(Len(ms) - k + 1) : tail[j] = ms[k + j - 1]
      BY <2>1, <2>2
    <2>4. PICK head : head = <<Human>>
      OBVIOUS
    <2>5. head \in Seq(Message) /\ Len(head) = 1 /\ head[1] = Human
      <3>1. Human \in Message
        BY PlanningBudgetAssumption DEF Human, Message, NoCalls, Calls
      <3> QED
        BY <2>4, <3>1
    <2>6. PICK n : n = Len(tail)
      OBVIOUS
    <2>7. n \in Nat
      BY <2>3, <2>6
    <2>8. new = head \o tail
      BY <2>2, <2>4
    <2>9. /\ DOMAIN new = 1..(1 + n)
          /\ new[1] = Human
          /\ \A i \in 2..(1 + n) : new[i] = tail[i - 1]
      <3>1. new \in Seq(Message) /\ Len(new) = Len(head) + Len(tail)
        BY <2>3, <2>5, <2>8
      <3>2. DOMAIN new = 1..(1 + n)
        <4>1. Len(new) = 1 + n
          BY <2>5, <2>6, <3>1
        <4> QED
          BY <3>1, <4>1
      <3>3. new[1] = Human
        BY <2>3, <2>5, <2>8
      <3>4. \A i \in 2..(1 + n) : new[i] = tail[i - 1]
        BY <2>3, <2>5, <2>6, <2>7, <2>8
      <3> QED
        BY <3>2, <3>3, <3>4
    <2>10. ASSUME NEW i \in DOMAIN new, i # 1
           PROVE  i + (k - 2) \in DOMAIN ms /\ new[i] = ms[i + (k - 2)]
      <3>1. i \in Nat /\ i >= 2 /\ i <= 1 + n
        BY <2>7, <2>9, <2>10
      <3>2. n = Len(ms) - k + 1
        BY <2>3, <2>6
      <3>3. i - 1 \in 1..(Len(ms) - k + 1)
        BY <2>1, <2>7, <3>1, <3>2
      <3>4. k + (i - 1) - 1 = i + (k - 2)
        BY <2>1, <3>1
      <3>5. new[i] = tail[i - 1]
        <4>1. i \in 2..(1 + n)
          BY <2>7, <3>1
        <4> QED
          BY <2>9, <4>1
      <3>6. tail[i - 1] = ms[i + (k - 2)]
        BY <2>3, <3>3, <3>4
      <3>7. i + (k - 2) \in 1..Len(ms)
        BY <2>1, <2>7, <3>1, <3>2
      <3> QED
        BY <2>1, <3>5, <3>6, <3>7
    <2>11. DOMAIN new \subseteq Nat
      BY <2>7, <2>9
    <2> QED
      BY <2>1, <2>9, <2>10, <2>11
  <1>2. ASSUME NEW c \in S
        PROVE  /\ c = <<c[1], c[2]>> /\ c[1] \in Nat
               /\ <<c[1] + (k - 2), c[2]>> \in T
    <2>1. PICK i \in DOMAIN new : c \in {i} \X (1..new[i].calls[tool])
      BY DEF CallsOf
    <2>2. c = <<i, c[2]>> /\ c[1] = i /\ c[2] \in 1..new[i].calls[tool]
      BY <2>1
    <2>3. i # 1
      <3>1. Human.calls[tool] = 0
        BY DEF Human, NoCalls
      <3> QED
        BY <1>1, <2>2, <3>1
    <2>4. i + (k - 2) \in DOMAIN ms /\ new[i] = ms[i + (k - 2)]
      BY <1>1, <2>3
    <2>5. <<i + (k - 2), c[2]>> \in {i + (k - 2)} \X (1..ms[i + (k - 2)].calls[tool])
      BY <2>2, <2>4
    <2>6. <<i + (k - 2), c[2]>> \in T
      BY <2>4, <2>5 DEF CallsOf
    <2> QED
      BY <1>1, <2>2, <2>6
  <1> HIDE DEF S, T
  <1>3. f \in [S -> T]
    BY <1>2
  <1>4. ASSUME NEW c \in S, NEW d \in S, f[c] = f[d] PROVE c = d
    <2>1. c[1] + (k - 2) = d[1] + (k - 2) /\ c[2] = d[2]
      <3>1. <<c[1] + (k - 2), c[2]>> = <<d[1] + (k - 2), d[2]>>
        BY <1>4
      <3> QED
        BY <3>1
    <2>2. c[1] = d[1]
      <3>1. c[1] \in Nat /\ d[1] \in Nat
        BY <1>2
      <3>2. k - 2 \in Int
        BY <1>1
      <3> QED
        BY <2>1, <3>1, <3>2
    <2> QED
      BY <1>2, <2>1, <2>2
  <1>5. f \in Injection(S, T)
    <2>1. DOMAIN f = S
      OBVIOUS
    <2> HIDE DEF f
    <2> QED
      BY <1>3, <1>4, <2>1 DEF Injection, IsInjective
  <1>6. IsFiniteSet(T)
    BY DEF T
  <1>7. IsFiniteSet(S) /\ Cardinality(S) <= Cardinality(T)
    <2> HIDE DEF f
    <2> QED
      BY <1>5, <1>6, FS_Injection
  <1> QED
    BY <1>7 DEF S, T, CountToolCalls

(* A tool that is offered has budget left.                                     *)
LEMMA OfferedWithinBudget ==
    ASSUME NEW ms, NEW tool \in Limited, tool \in Offer(ms),
           CountToolCalls(ms, tool) \in Nat
    PROVE  CountToolCalls(ms, tool) < Budget(tool)
  <1>1. tool \notin Exhausted(ms)
    BY DEF Offer
  <1>2. Budget(tool) \in Nat
    BY PlanningBudgetAssumption DEF Budget
  <1> QED
    BY <1>1, <1>2 DEF Exhausted

(* What a step puts at the end of the messages, if it does not summarise them  *)
(* or leave them alone; only the model calls tools, and only those it was      *)
(* offered.                                                                    *)
LEMMA HistoryGrows ==
    ASSUME HistoryTyped, spent \in [Limited -> Nat], [AgentNext]_agentVars
    PROVE  \/ UNCHANGED <<messages, summaries, spent>>
           \/ Summarise
           \/ /\ UNCHANGED summaries
              /\ \E m \in Message :
                    /\ messages' = Append(messages, m)
                    /\ spent' = [tool \in Limited |-> spent[tool] + m.calls[tool]]
                    /\ \A tool \in Tools \ Offer(messages) : m.calls[tool] = 0
  <1>0. 0 \in 0..MaxParallel
    BY PlanningBudgetAssumption
  <1>1. ASSUME NEW m \in Message, UNCHANGED <<summaries, spent>>,
               messages' = Append(messages, m), m.calls = NoCalls
        PROVE  /\ spent' = [tool \in Limited |-> spent[tool] + m.calls[tool]]
               /\ \A tool \in Tools \ Offer(messages) : m.calls[tool] = 0
    <2>1. \A tool \in Tools : m.calls[tool] = 0
      BY <1>1 DEF NoCalls
    <2>2. \A tool \in Limited : spent[tool] + m.calls[tool] = spent[tool]
      BY <2>1 DEF Tools
    <2> QED
      BY <1>1, <2>1, <2>2
  <1>2. CASE Invoke
    <2>1. Human \in Message /\ Human.calls = NoCalls
      BY <1>0 DEF Human, Message, NoCalls, Calls
    <2> QED
      BY <1>1, <1>2, <2>1 DEF Invoke
  <1>3. CASE CallModel
    <2>1. PICK c \in Calls : /\ \A tool \in Tools \ Offer(messages) : c[tool] = 0
                             /\ messages' = Append(messages, AI(c))
                             /\ spent' = [tool \in Limited |-> spent[tool] + c[tool]]
      BY <1>3 DEF CallModel
    <2>2. AI(c) \in Message /\ AI(c).calls = c
      BY DEF AI, Message
    <2>3. UNCHANGED summaries
      BY <1>3 DEF CallModel
    <2> QED
      BY <2>1, <2>2, <2>3
  <1>4. CASE RunTools
    <2>1. PICK f \in BOOLEAN : messages' = Append(messages, Tool(f))
      BY <1>4 DEF RunTools
    <2>2. Tool(f) \in Message /\ Tool(f).calls = NoCalls
      BY <1>0 DEF Tool, Message, NoCalls, Calls
    <2> QED
      BY <1>1, <1>4, <2>1, <2>2 DEF RunTools
  <1>5. CASE CutOff \/ UNCHANGED agentVars
    BY <1>5 DEF CutOff, agentVars
  <1> QED
    BY <1>2, <1>3, <1>4, <1>5 DEF AgentNext

LEMMA InitBudgetInv == AgentInit => BudgetInv
  <1> SUFFICES ASSUME AgentInit PROVE BudgetInv
    OBVIOUS
  <1>1. messages = <<>> /\ summaries = 0 /\ spent = [tool \in Limited |-> 0]
    BY DEF AgentInit
  <1>2. ASSUME NEW tool \in Limited PROVE Within(tool)
    <2>1. IsFiniteSet(CallsOf(messages, tool)) /\ CountToolCalls(messages, tool) = 0
      BY <1>1, CountEmpty
    <2>2. Most(tool) \in Nat
      BY PlanningBudgetAssumption DEF Most, Budget
    <2>3. summaries * Most(tool) = 0 /\ spent[tool] = 0
      BY <1>1, <2>2
    <2> QED
      BY <2>1, <2>2, <2>3 DEF Within
  <1> QED
    BY <1>1, <1>2 DEF BudgetInv, HistoryTyped

LEMMA NextBudgetInv == BudgetInv /\ [AgentNext]_agentVars => BudgetInv'
  <1> SUFFICES ASSUME BudgetInv, [AgentNext]_agentVars PROVE BudgetInv'
    OBVIOUS
  <1>1. HistoryTyped /\ summaries \in Nat /\ spent \in [Limited -> Nat]
    BY DEF BudgetInv
  <1>2. CASE UNCHANGED <<messages, summaries, spent>>
    <2>1. ASSUME NEW tool \in Limited PROVE Within(tool)'
      <3>1. Within(tool)
        BY DEF BudgetInv
      <3>2. /\ CallsOf(messages, tool)' = CallsOf(messages, tool)
            /\ CountToolCalls(messages, tool)' = CountToolCalls(messages, tool)
            /\ Most(tool)' = Most(tool)
        BY <1>2 DEF Most, Budget, CallsOf, CountToolCalls
      <3> QED
        BY <1>2, <3>1, <3>2 DEF Within
    <2> QED
      BY <1>1, <1>2, <2>1 DEF BudgetInv, HistoryTyped
  <1>3. ASSUME NEW tool \in Limited
        PROVE  /\ tool \in Tools
               /\ IsFiniteSet(CallsOf(messages, tool))
               /\ CountToolCalls(messages, tool) \in Nat
               /\ CountToolCalls(messages, tool) <= Most(tool)
               /\ spent[tool] <= summaries * Most(tool) + CountToolCalls(messages, tool)
               /\ Budget(tool) \in Nat /\ Most(tool) \in Nat
               /\ summaries * Most(tool) \in Nat
               /\ spent[tool] \in Nat
    <2>1. Within(tool)
      BY DEF BudgetInv
    <2>2. CountToolCalls(messages, tool) \in Nat
      BY <2>1, FS_CardinalityType DEF Within, CountToolCalls
    <2>3. Budget(tool) \in Nat /\ Most(tool) \in Nat
      BY PlanningBudgetAssumption DEF Most, Budget
    <2>4. summaries * Most(tool) \in Nat
      BY <1>1, <2>3
    <2> QED
      BY <1>1, <2>1, <2>2, <2>3, <2>4 DEF Within, Tools
  <1>4. CASE Summarise
    <2>1. PICK k \in 2..Len(messages) :
             messages' = <<Human>> \o SubSeq(messages, k, Len(messages))
      BY <1>4 DEF Summarise
    <2>2. summaries' = summaries + 1 /\ spent' = spent
      BY <1>4 DEF Summarise
    <2>3. HistoryTyped'
      <3>1. Human \in Message
        BY PlanningBudgetAssumption DEF Human, Message, NoCalls, Calls
      <3>2. SubSeq(messages, k, Len(messages)) \in Seq(Message)
        BY <1>1 DEF HistoryTyped
      <3> QED
        BY <2>1, <3>1, <3>2 DEF HistoryTyped
    <2>4. ASSUME NEW tool \in Limited PROVE Within(tool)'
      <3>1. /\ IsFiniteSet(CallsOf(messages', tool))
            /\ CountToolCalls(messages', tool) <= CountToolCalls(messages, tool)
        <4>1. PICK new : new = messages'
          OBVIOUS
        <4>2. /\ IsFiniteSet(CallsOf(new, tool))
              /\ CountToolCalls(new, tool) <= CountToolCalls(messages, tool)
          BY <1>1, <1>3, <2>1, <4>1, CountSummary DEF HistoryTyped
        <4> QED
          BY <4>1, <4>2
      <3>2. CountToolCalls(messages', tool) \in Nat
        BY <3>1, FS_CardinalityType DEF CountToolCalls
      <3>3. summaries' * Most(tool) = summaries * Most(tool) + Most(tool)
        BY <1>1, <1>3, <2>2
      <3>4. spent'[tool] <= summaries' * Most(tool) + CountToolCalls(messages', tool)
        <4>1. PICK taken : taken = summaries * Most(tool)
          OBVIOUS
        <4>2. spent[tool] <= taken + Most(tool)
          BY <1>3, <4>1
        <4>3. spent[tool] <= (taken + Most(tool)) + CountToolCalls(messages', tool)
          BY <1>3, <3>2, <4>1, <4>2
        <4> QED
          BY <2>2, <3>3, <4>1, <4>3
      <3>5. CountToolCalls(messages', tool) <= Most(tool)
        BY <1>3, <3>1, <3>2
      <3> QED
        BY <3>1, <3>4, <3>5 DEF Within, Most, Budget, CallsOf, CountToolCalls
    <2> QED
      BY <1>1, <2>2, <2>3, <2>4 DEF BudgetInv
  <1>5. ASSUME NEW m \in Message, UNCHANGED summaries,
               messages' = Append(messages, m),
               spent' = [tool \in Limited |-> spent[tool] + m.calls[tool]],
               \A tool \in Tools \ Offer(messages) : m.calls[tool] = 0
        PROVE  BudgetInv'
    <2>1. HistoryTyped'
      BY <1>1, <1>5 DEF HistoryTyped
    <2>2. ASSUME NEW tool \in Tools
          PROVE  m.calls[tool] \in 0..MaxParallel /\ m.calls[tool] \in Nat
      BY PlanningBudgetAssumption DEF Message, Calls
    <2>3. spent' \in [Limited -> Nat]
      <3>1. \A tool \in Limited : spent[tool] + m.calls[tool] \in Nat
        BY <1>3, <2>2
      <3> QED
        BY <1>5, <3>1
    <2>4. ASSUME NEW tool \in Limited PROVE Within(tool)'
      <3>1. /\ IsFiniteSet(CallsOf(messages', tool))
            /\ CountToolCalls(messages', tool) =
                  CountToolCalls(messages, tool) + m.calls[tool]
        BY <1>1, <1>3, <1>5, CountAppend DEF HistoryTyped
      <3>2. m.calls[tool] \in 0..MaxParallel /\ m.calls[tool] \in Nat
        BY <1>3, <2>2
      <3>3. CountToolCalls(messages', tool) <= Most(tool)
        <4>1. CASE tool \in Offer(messages)
          <5>1. CountToolCalls(messages, tool) < Budget(tool)
            BY <1>3, <4>1, OfferedWithinBudget
          <5> QED
            BY <1>3, <3>1, <3>2, <5>1, PlanningBudgetAssumption DEF Most
        <4>2. CASE tool \notin Offer(messages)
          BY <1>3, <1>5, <3>1, <4>2
        <4> QED
          BY <4>1, <4>2
      <3>4. spent'[tool] = spent[tool] + m.calls[tool]
        BY <1>5
      <3>5. spent'[tool] <= summaries' * Most(tool) + CountToolCalls(messages', tool)
        <4>1. PICK taken : taken = summaries * Most(tool)
          OBVIOUS
        <4>2. PICK n : n = CountToolCalls(messages, tool)
          OBVIOUS
        <4>3. taken \in Nat /\ n \in Nat /\ spent[tool] \in Nat /\ spent[tool] <= taken + n
          BY <1>3, <4>1, <4>2
        <4>4. spent[tool] + m.calls[tool] <= taken + (n + m.calls[tool])
          BY <3>2, <4>3
        <4>5. summaries' * Most(tool) = taken
          BY <1>5, <4>1
        <4> QED
          BY <3>1, <3>4, <4>2, <4>4, <4>5
      <3> QED
        BY <3>1, <3>3, <3>5 DEF Within, Most, Budget, CallsOf, CountToolCalls
    <2> QED
      BY <1>1, <1>5, <2>1, <2>3, <2>4 DEF BudgetInv
  <1> QED
    BY <1>1, <1>2, <1>4, <1>5, HistoryGrows

Fails(ms, i) == ms[i].kind = "tool" /\ ms[i].failed

Plans(ms, i) == ms[i].kind = "ai" /\ ms[i].calls["write_todos"] > 0

(* What the middleware's scan finds out: there is a failure, and no plan after *)
(* it.                                                                         *)
LEMMA ScanFindsFailure ==
    ASSUME NEW ms \in Seq(Message)
    PROVE  RequiresReplan(ms) <=>
               \E i \in DOMAIN ms : /\ Fails(ms, i)
                                    /\ \A j \in DOMAIN ms : j > i => ~Plans(ms, j)
  <1> DEFINE F == {0} \cup {i \in DOMAIN ms : Fails(ms, i)}
             P == {0} \cup {i \in DOMAIN ms : Plans(ms, i)}
  <1>1. RequiresReplan(ms) <=> Max(F) > Max(P)
    BY DEF RequiresReplan, Fails, Plans
  <1>2. /\ Max(F) \in F /\ \A i \in F : i <= Max(F)
        /\ Max(P) \in P /\ \A i \in P : i <= Max(P)
    <2>1. Len(ms) \in Nat /\ DOMAIN ms = 1..Len(ms)
      OBVIOUS
    <2>2. /\ F \in SUBSET Nat /\ F # {} /\ \A i \in F : i <= Len(ms)
          /\ P \in SUBSET Nat /\ P # {} /\ \A i \in P : i <= Len(ms)
      BY <2>1
    <2> HIDE DEF F, P
    <2> QED
      BY <2>1, <2>2, Largest
  <1>3. ASSUME Max(F) > Max(P)
        PROVE  /\ Max(F) \in DOMAIN ms /\ Fails(ms, Max(F))
               /\ \A j \in DOMAIN ms : j > Max(F) => ~Plans(ms, j)
    <2>1. Max(F) # 0
      BY <1>2, <1>3
    <2>2. ASSUME NEW j \in DOMAIN ms, j > Max(F), Plans(ms, j) PROVE FALSE
      <3>1. j <= Max(P)
        BY <1>2, <2>2
      <3> QED
        BY <1>2, <1>3, <2>2, <3>1
    <2> QED
      BY <1>2, <2>1, <2>2
  <1>4. ASSUME NEW i \in DOMAIN ms, Fails(ms, i),
               \A j \in DOMAIN ms : j > i => ~Plans(ms, j)
        PROVE  Max(F) > Max(P)
    <2>1. i <= Max(F)
      BY <1>2, <1>4
    <2>2. ~Plans(ms, i)
      BY <1>4 DEF Fails, Plans
    <2>3. \A j \in P : j < i
      BY <1>4, <2>2
    <2> QED
      BY <1>2, <2>1, <2>3
  <1> QED
    BY <1>1, <1>3, <1>4

LEMMA BudgetInvHolds == AgentSpec => []BudgetInv
  BY InitBudgetInv, NextBudgetInv, PTL DEF AgentSpec

(* However long the thread, however many calls the model makes at a time and   *)
(* wherever its history is summarised: a limited tool is called no more often  *)
(* than its budget and the calls of one answer less one, once and once more    *)
(* for each summary.                                                           *)
THEOREM OvershootIsBounded == AgentSpec => []OvershootBounded
  <1>1. ASSUME BudgetInv, NEW tool \in Limited
        PROVE  spent[tool] <= (summaries + 1) * (Budget(tool) - 1 + MaxParallel)
    <2>1. Within(tool) /\ summaries \in Nat /\ spent[tool] \in Nat
      BY <1>1 DEF BudgetInv
    <2>2. CountToolCalls(messages, tool) \in Nat
      BY <2>1, FS_CardinalityType DEF Within, CountToolCalls
    <2>3. Most(tool) \in Nat
      BY PlanningBudgetAssumption DEF Most, Budget
    <2>4. (summaries + 1) * Most(tool) = summaries * Most(tool) + Most(tool)
      BY <2>1, <2>3
    <2>5. summaries * Most(tool) \in Nat
      BY <2>1, <2>3
    <2>6. spent[tool] <= (summaries + 1) * Most(tool)
      BY <2>1, <2>2, <2>3, <2>4, <2>5 DEF Within
    <2> QED
      BY <2>6 DEF Most
  <1>2. BudgetInv => OvershootBounded
    BY <1>1 DEF OvershootBounded
  <1> QED
    BY <1>2, BudgetInvHolds, PTL

(* While budget for another plan is left, no step delegates when a failure in  *)
(* the messages the middleware sees is later than the last plan.               *)
THEOREM FailuresAreReplanned == AgentSpec => ReplanBeforeDelegation
  <1>1. ASSUME BudgetInv, [AgentNext]_agentVars, Delegates, RequiresReplan(messages)
        PROVE  CountToolCalls(messages, "write_todos") >= MaxPlanUpdates
    <2>0. "task" \in Tools /\ "task" \in Limited
      BY DEF Tools, Limited
    <2>1. HistoryTyped /\ spent \in [Limited -> Nat] /\ spent["task"] \in Nat
      BY <1>1, <2>0 DEF BudgetInv
    <2>2. spent' # spent
      BY <1>1, <2>1 DEF Delegates
    <2>3. ~Summarise
      BY <2>2 DEF Summarise
    <2>4. PICK m \in Message :
             /\ spent' = [tool \in Limited |-> spent[tool] + m.calls[tool]]
             /\ \A tool \in Tools \ Offer(messages) : m.calls[tool] = 0
      BY <1>1, <2>1, <2>2, <2>3, HistoryGrows
    <2>5. spent'["task"] = spent["task"] + m.calls["task"]
      BY <2>0, <2>4
    <2>6. "task" \in Offer(messages)
      BY <1>1, <2>0, <2>1, <2>4, <2>5 DEF Delegates
    <2>7. "write_todos" \in Exhausted(messages)
      BY <1>1, <2>6 DEF Offer, Exhausted, Limited
    <2> QED
      BY <2>7 DEF Exhausted, Budget
  <1>2. BudgetInv /\ [AgentNext]_agentVars =>
           [Delegates /\ RequiresReplan(messages) =>
               CountToolCalls(messages, "write_todos") >= MaxPlanUpdates]_agentVars
    BY <1>1
  <1> QED
    BY <1>2, BudgetInvHolds, PTL DEF AgentSpec, ReplanBeforeDelegation

(* In the words of the messages the model is given: while budget for another   *)
(* plan is left, every failure among them, when the model delegates, has been  *)
(* answered by a plan after it.                                                *)
THEOREM DelegationsFollowPlans ==
    AgentSpec => [][Delegates /\ CountToolCalls(messages, "write_todos") < MaxPlanUpdates =>
                  \A i \in DOMAIN messages : Fails(messages, i) =>
                      \E j \in DOMAIN messages : j > i /\ Plans(messages, j)]_agentVars
  <1> DEFINE Answered == \A i \in DOMAIN messages : Fails(messages, i) =>
                             \E j \in DOMAIN messages : j > i /\ Plans(messages, j)
             Left == CountToolCalls(messages, "write_todos") < MaxPlanUpdates
             Rule == RequiresReplan(messages) =>
                         CountToolCalls(messages, "write_todos") >= MaxPlanUpdates
  <1>1. ASSUME BudgetInv, Rule, Left PROVE Answered
    <2>1. CountToolCalls(messages, "write_todos") \in Nat
      BY <1>1, FS_CardinalityType DEF BudgetInv, Within, CountToolCalls, Limited
    <2>2. ~RequiresReplan(messages)
      BY <1>1, <2>1, PlanningBudgetAssumption
    <2> QED
      BY <1>1, <2>2, ScanFindsFailure DEF BudgetInv, HistoryTyped
  <1>2. BudgetInv /\ [Delegates => Rule]_agentVars => [Delegates /\ Left => Answered]_agentVars
    <2> HIDE DEF Rule, Left, Answered
    <2> QED
      BY <1>1
  <1>3. [Delegates /\ RequiresReplan(messages) =>
            CountToolCalls(messages, "write_todos") >= MaxPlanUpdates]_agentVars
        => [Delegates => Rule]_agentVars
    OBVIOUS
  <1> QED
    BY <1>2, <1>3, BudgetInvHolds, FailuresAreReplanned, PTL DEF ReplanBeforeDelegation

-----------------------------------------------------------------------------
(* WorkCollection                                                              *)

Beats(events, j, k) ==
    /\ Key(events[j]) = Key(events[k])
    /\ \/ events[j].confidence > events[k].confidence
       \/ events[j].confidence = events[k].confidence /\ j < k

(* After n events: what is selected is an unbeaten one of them, and each of    *)
(* them has its key there.                                                     *)
BestOf(events, n, selected) ==
    /\ selected \in Seq(Range(events))
    /\ \A j \in DOMAIN selected : \E k \in 1..n :
          selected[j] = events[k] /\ \A i \in 1..n : ~Beats(events, i, k)
    /\ \A k \in 1..n : \E j \in DOMAIN selected : Key(selected[j]) = Key(events[k])

(* Sequences of members are functions, and lie over their own range.           *)
LEMMA IsSeq ==
    ASSUME NEW S, NEW n \in Nat, NEW s \in [1..n -> S]
    PROVE  s \in Seq(S)
  OBVIOUS

LEMMA SequenceOverRange ==
    ASSUME NEW S, NEW s, s \in Seq(S)
    PROVE  s \in Seq(Range(s))
  <1>1. Len(s) \in Nat
    OBVIOUS
  <1>2. s \in [1..Len(s) -> Range(s)]
    BY DEF Range
  <1>3. QED
    BY <1>1, <1>2, IsSeq

(* A round of _deduplicate puts nothing into the list but its event.           *)
LEMMA WithEventType ==
    ASSUME NEW E, NEW selected \in Seq(E), NEW e \in E
    PROVE  WithEvent(selected, e) \in Seq(E)
  <1>1. CASE \E j \in DOMAIN selected : Key(selected[j]) = Key(e)
    <2> DEFINE new == [j \in DOMAIN selected |->
                          IF Key(selected[j]) = Key(e)
                             /\ e.confidence > selected[j].confidence
                          THEN e ELSE selected[j]]
    <2>1. new \in [1..Len(selected) -> E] /\ Len(selected) \in Nat
      OBVIOUS
    <2>2. new \in Seq(E)
      BY <2>1
    <2> QED
      BY <1>1, <2>2 DEF WithEvent
  <1>2. CASE ~\E j \in DOMAIN selected : Key(selected[j]) = Key(e)
    BY <1>2 DEF WithEvent
  <1> QED
    BY <1>1, <1>2

(* Deduplicate is the last of the values its loop goes through.                *)
LEMMA DeduplicateLoop ==
    ASSUME NEW E, NEW events \in Seq(E)
    PROVE  \E f \in [0..Len(events) -> Seq(E)] :
              /\ f[0] = <<>>
              /\ \A n \in 1..Len(events) : f[n] = WithEvent(f[n - 1], events[n])
              /\ Deduplicate(events) = f[Len(events)]
  <1> DEFINE L == Len(events)
             Round(f) == [n \in 0..L |-> IF n = 0 THEN <<>>
                                                  ELSE WithEvent(f[n - 1], events[n])]
             f == CHOOSE x : x = Round(x)
             step == [p \in Seq(E) \X (1..L) |-> WithEvent(p[1], events[p[2]])]
  <1>1. L \in Nat /\ <<>> \in Seq(E) /\ \A n \in 1..L : events[n] \in E
    OBVIOUS
  <1>2. step \in [Seq(E) \X (1..L) -> Seq(E)]
    BY <1>1, WithEventType
  <1>3. PICK g \in [0..L -> Seq(E)] :
           g[0] = <<>> /\ \A n \in 1..L : g[n] = step[<<g[n - 1], n>>]
    <2>1. L \in Nat /\ <<>> \in Seq(E) /\ step \in [Seq(E) \X (1..L) -> Seq(E)]
      BY <1>1, <1>2
    <2> HIDE DEF L, step
    <2>2. \E g : Rounds(g, L, Seq(E), <<>>, step)
      BY <2>1, Loop
    <2> QED
      BY <2>2 DEF Rounds
  <1>4. g = Round(g)
    <2>1. ASSUME NEW n \in 1..L
          PROVE  g[n] = WithEvent(g[n - 1], events[n])
      <3>1. <<g[n - 1], n>> \in Seq(E) \X (1..L)
        <4>1. n - 1 \in 0..L
          BY <1>1
        <4> HIDE DEF L
        <4> QED
          BY <4>1
      <3> QED
        BY <1>3, <3>1
    <2>2. \A n \in 0..L : n = 0 \/ n \in 1..L
      BY <1>1
    <2>3. \A n \in 0..L : g[n] = IF n = 0 THEN <<>> ELSE WithEvent(g[n - 1], events[n])
      BY <1>3, <2>1, <2>2
    <2> HIDE DEF L
    <2> QED
      BY <2>3
  <1>5. f = Round(f)
    <2> HIDE DEF Round
    <2> QED
      BY <1>4
  <1>6. Deduplicate(events) = f[L]
    BY DEF Deduplicate
  <1> HIDE DEF f
  <1>7. f[0] = <<>> /\ \A n \in 1..L : f[n] = WithEvent(f[n - 1], events[n])
    BY <1>1, <1>5
  <1>8. f \in [0..L -> Seq(E)]
    <2> DEFINE T == {n \in 0..L : f[n] \in Seq(E)}
    <2>1. 0 \in T
      <3>1. f[0] \in Seq(E)
        BY <1>1, <1>7
      <3>2. 0 \in 0..L
        BY <1>1
      <3> QED
        BY <3>1, <3>2
    <2>2. ASSUME NEW n \in 1..L, n - 1 \in T PROVE n \in T
      <3>1. f[n - 1] \in Seq(E) /\ events[n] \in E
        BY <1>1, <2>2
      <3>2. f[n] \in Seq(E)
        BY <1>7, <3>1, WithEventType
      <3> QED
        BY <1>1, <3>2
    <2>3. 0..L \subseteq T
      <3> HIDE DEF T, L
      <3> QED
        BY <1>1, <2>1, <2>2, Upwards
    <2>4. DOMAIN f = 0..L
      BY <1>5
    <2> QED
      BY <1>5, <2>3
  <1> QED
    BY <1>6, <1>7, <1>8

(* A round keeps what is selected the best of the events so far.               *)
LEMMA OneMoreEvent ==
    ASSUME NEW E, NEW events \in Seq(E),
           \A i \in DOMAIN events : events[i].confidence \in Nat,
           NEW n \in 1..Len(events), NEW selected, BestOf(events, n - 1, selected)
    PROVE  BestOf(events, n, WithEvent(selected, events[n]))
  <1> DEFINE e == events[n]
             new == WithEvent(selected, e)
             C(i) == events[i].confidence
  <1>1. /\ n \in Nat /\ n \in 1..n /\ 1..n \subseteq DOMAIN events /\ n \in DOMAIN events
        /\ \A i \in 1..n : i \in 1..(n - 1) \/ i = n
        /\ \A i \in 1..(n - 1) : i \in 1..n /\ i < n
        /\ \A i \in 1..n : C(i) \in Nat
    OBVIOUS
  <1>2. new \in Seq(Range(events))
    <2>1. e \in Range(events)
      BY <1>1 DEF Range
    <2> QED
      BY <2>1, WithEventType DEF BestOf
  <1>3. \A i \in 1..n : ~Beats(events, i, i)
    BY <1>1 DEF Beats
  <1>4. ASSUME NEW j \in DOMAIN selected
        PROVE  \E k \in 1..(n - 1) :
                  selected[j] = events[k] /\ \A i \in 1..(n - 1) : ~Beats(events, i, k)
    BY DEF BestOf
  <1>5. CASE \E j \in DOMAIN selected : Key(selected[j]) = Key(e)
    <2>1. /\ DOMAIN new = DOMAIN selected
          /\ \A j \in DOMAIN selected :
                new[j] = IF Key(selected[j]) = Key(e) /\ e.confidence > selected[j].confidence
                         THEN e ELSE selected[j]
      BY <1>5 DEF WithEvent
    <2>2. ASSUME NEW j \in DOMAIN selected
          PROVE  \E k \in 1..n : new[j] = events[k] /\ \A i \in 1..n : ~Beats(events, i, k)
      <3>1. PICK k \in 1..(n - 1) :
               selected[j] = events[k] /\ \A i \in 1..(n - 1) : ~Beats(events, i, k)
        BY <1>4
      <3>2. CASE Key(selected[j]) = Key(e) /\ e.confidence > selected[j].confidence
        <4>1. ASSUME NEW i \in 1..(n - 1) PROVE ~Beats(events, i, n)
          <5>1. ~Beats(events, i, k) /\ C(i) \in Nat /\ C(k) \in Nat /\ C(n) \in Nat
            BY <1>1, <3>1
          <5>2. Key(events[k]) = Key(events[n]) /\ C(n) > C(k)
            BY <3>1, <3>2
          <5>3. Key(events[i]) = Key(events[n]) => C(i) <= C(k)
            BY <5>1, <5>2 DEF Beats
          <5> QED
            BY <5>1, <5>2, <5>3 DEF Beats
        <4>2. \A i \in 1..n : ~Beats(events, i, n)
          BY <1>1, <1>3, <4>1
        <4> QED
          BY <1>1, <2>1, <3>2, <4>2
      <3>3. CASE ~(Key(selected[j]) = Key(e) /\ e.confidence > selected[j].confidence)
        <4>1. ~Beats(events, n, k)
          BY <1>1, <3>1, <3>3 DEF Beats
        <4>2. \A i \in 1..n : ~Beats(events, i, k)
          BY <1>1, <3>1, <4>1
        <4> QED
          BY <1>1, <2>1, <3>1, <3>3, <4>2
      <3> QED
        BY <3>2, <3>3
    <2>3. ASSUME NEW j \in DOMAIN selected PROVE Key(new[j]) = Key(selected[j])
      BY <2>1
    <2>4. ASSUME NEW k \in 1..n PROVE \E j \in DOMAIN new : Key(new[j]) = Key(events[k])
      <3>1. \E j \in DOMAIN selected : Key(selected[j]) = Key(events[k])
        BY <1>1, <1>5 DEF BestOf
      <3> QED
        BY <2>1, <2>3, <3>1
    <2> HIDE DEF new, e
    <2> QED
      BY <1>2, <2>1, <2>2, <2>4 DEF BestOf, new, e
  <1>6. CASE ~\E j \in DOMAIN selected : Key(selected[j]) = Key(e)
    <2>1. selected \in Seq(Range(events)) /\ Len(selected) \in Nat
      BY DEF BestOf
    <2>2. /\ new = Append(selected, e)
          /\ DOMAIN new = DOMAIN selected \cup {Len(selected) + 1}
          /\ new[Len(selected) + 1] = e
          /\ \A j \in DOMAIN selected : new[j] = selected[j]
      BY <1>6, <2>1 DEF WithEvent
    <2>3. ASSUME NEW k \in 1..(n - 1) PROVE Key(events[k]) # Key(e)
      BY <1>6, <2>3 DEF BestOf
    <2>4. \A i \in 1..n : ~Beats(events, i, n)
      BY <1>1, <1>3, <2>3 DEF Beats
    <2>5. ASSUME NEW j \in DOMAIN new
          PROVE  \E k \in 1..n : new[j] = events[k] /\ \A i \in 1..n : ~Beats(events, i, k)
      <3>1. CASE j = Len(selected) + 1
        BY <1>1, <2>2, <2>4, <3>1
      <3>2. CASE j \in DOMAIN selected
        <4>1. PICK k \in 1..(n - 1) :
                 selected[j] = events[k] /\ \A i \in 1..(n - 1) : ~Beats(events, i, k)
          BY <1>4, <3>2
        <4>2. ~Beats(events, n, k)
          BY <2>3 DEF Beats
        <4>3. \A i \in 1..n : ~Beats(events, i, k)
          BY <1>1, <4>1, <4>2
        <4> QED
          BY <1>1, <2>2, <3>2, <4>1, <4>3
      <3> QED
        BY <2>2, <3>1, <3>2
    <2>6. ASSUME NEW k \in 1..n PROVE \E j \in DOMAIN new : Key(new[j]) = Key(events[k])
      <3>1. CASE k = n
        BY <2>2, <3>1
      <3>2. CASE k # n
        <4>1. PICK j \in DOMAIN selected : Key(selected[j]) = Key(events[k])
          BY <1>1, <3>2 DEF BestOf
        <4> QED
          BY <2>2, <4>1
      <3> QED
        BY <3>1, <3>2
    <2> QED
      BY <1>2, <2>5, <2>6 DEF BestOf
  <1> QED
    BY <1>5, <1>6

(* What Deduplicate computes: the unbeaten events, one key each.               *)
THEOREM DeduplicateKeepsBest ==
    ASSUME NEW E, NEW events \in Seq(E),
           \A i \in DOMAIN events : events[i].confidence \in Nat
    PROVE  /\ Range(Deduplicate(events)) =
                 {events[k] : k \in {k \in DOMAIN events :
                                       ~\E j \in DOMAIN events : Beats(events, j, k)}}
           /\ \A k \in DOMAIN events : \E e \in Range(Deduplicate(events)) :
                 Key(e) = Key(events[k])
  <1> DEFINE L == Len(events)
             last == Deduplicate(events)
  <1>1. L \in Nat /\ DOMAIN events = 1..L
    OBVIOUS
  <1>2. PICK f \in [0..L -> Seq(E)] :
           /\ f[0] = <<>>
           /\ \A n \in 1..L : f[n] = WithEvent(f[n - 1], events[n])
           /\ last = f[L]
    BY DeduplicateLoop
  <1>3. BestOf(events, L, last)
    <2> DEFINE T == {n \in 0..L : BestOf(events, n, f[n])}
    <2>1. 0 \in T
      <3>1. BestOf(events, 0, <<>>)
        BY DEF BestOf
      <3> QED
        BY <1>1, <1>2, <3>1
    <2>2. ASSUME NEW n \in 1..L, n - 1 \in T PROVE n \in T
      <3>1. BestOf(events, n, WithEvent(f[n - 1], events[n]))
        BY <2>2, OneMoreEvent
      <3> QED
        BY <1>1, <1>2, <3>1
    <2>3. 0..L \subseteq T
      <3> HIDE DEF T, L
      <3> QED
        BY <1>1, <2>1, <2>2, Upwards
    <2> QED
      BY <1>1, <1>2, <2>3
  <1> HIDE DEF last, L
  <1>4. \A j \in DOMAIN last : \E k \in 1..L :
           last[j] = events[k] /\ \A i \in 1..L : ~Beats(events, i, k)
    BY <1>3 DEF BestOf
  <1>5. \A k \in 1..L : \E j \in DOMAIN last : Key(last[j]) = Key(events[k])
    BY <1>3 DEF BestOf
  <1>6. ASSUME NEW k \in 1..L, \A i \in 1..L : ~Beats(events, i, k)
        PROVE  events[k] \in Range(last)
    <2>1. PICK j \in DOMAIN last : Key(last[j]) = Key(events[k])
      BY <1>5
    <2>2. PICK m \in 1..L : last[j] = events[m] /\ \A i \in 1..L : ~Beats(events, i, m)
      BY <1>4
    <2>3. events[k].confidence \in Nat /\ events[m].confidence \in Nat /\ k \in Nat /\ m \in Nat
      <3>1. k \in DOMAIN events /\ m \in DOMAIN events
        BY <1>1
      <3>2. k \in Nat /\ m \in Nat
        BY <1>1
      <3> QED
        BY <3>1, <3>2
    <2>4. k = m
      BY <1>6, <2>1, <2>2, <2>3 DEF Beats
    <2> QED
      BY <2>2, <2>4 DEF Range
  <1>7. Range(last) = {events[k] : k \in {k \in DOMAIN events :
                                       ~\E j \in DOMAIN events : Beats(events, j, k)}}
    <2>1. ASSUME NEW j \in DOMAIN last
          PROVE  last[j] \in {events[k] : k \in {k \in DOMAIN events :
                                       ~\E i \in DOMAIN events : Beats(events, i, k)}}
      <3>1. PICK m \in 1..L : last[j] = events[m] /\ \A i \in 1..L : ~Beats(events, i, m)
        BY <1>4
      <3>2. m \in DOMAIN events /\ ~\E i \in DOMAIN events : Beats(events, i, m)
        BY <1>1, <3>1
      <3> QED
        BY <3>1, <3>2
    <2>2. ASSUME NEW k \in DOMAIN events, ~\E j \in DOMAIN events : Beats(events, j, k)
          PROVE  events[k] \in Range(last)
      BY <1>1, <1>6, <2>2
    <2>3. Range(last) = {last[j] : j \in DOMAIN last}
      BY DEF Range
    <2> HIDE DEF last, L
    <2> QED
      BY <2>1, <2>2, <2>3
  <1>8. \A k \in DOMAIN events : \E e \in Range(last) : Key(e) = Key(events[k])
    BY <1>1, <1>5 DEF Range
  <1> QED
    BY <1>7, <1>8 DEF last

-----------------------------------------------------------------------------
Kept(s, i, item) == Listed(s, i, item) /\ ~LeftOut(s, item)

AllEvents(s, items) == {Event(s, i, items[i]) : i \in DOMAIN items}

KeptEvents(s, items, n) == {Event(s, i, items[i]) : i \in {i \in 1..n : Kept(s, i, items[i])}}

(* Events is the last of the values its loop goes through.                     *)
LEMMA EventsLoop ==
    ASSUME NEW s, NEW I, NEW items \in Seq(I)
    PROVE  \E f \in [0..Len(items) -> Seq(AllEvents(s, items))] :
              /\ f[0] = <<>>
              /\ \A n \in 1..Len(items) : f[n] = WithItem(f[n - 1], s, n, items[n])
              /\ Events(s, items) = f[Len(items)]
  <1> DEFINE L == Len(items)
             A == Seq(AllEvents(s, items))
             Round(f) == [n \in 0..L |-> IF n = 0 THEN <<>>
                                         ELSE WithItem(f[n - 1], s, n, items[n])]
             f == CHOOSE x : x = Round(x)
             step == [p \in A \X (1..L) |-> WithItem(p[1], s, p[2], items[p[2]])]
  <1>1. /\ L \in Nat /\ <<>> \in A /\ 0 \in 0..L
        /\ \A n \in 1..L : n - 1 \in 0..L /\ n \in DOMAIN items
        /\ \A n \in 0..L : n = 0 \/ n \in 1..L
    OBVIOUS
  <1>2. ASSUME NEW a \in A, NEW n \in 1..L PROVE WithItem(a, s, n, items[n]) \in A
    <2>1. Event(s, n, items[n]) \in AllEvents(s, items)
      BY <1>1 DEF AllEvents
    <2> QED
      BY <2>1 DEF WithItem
  <1>3. step \in [A \X (1..L) -> A]
    <2> HIDE DEF A, L
    <2> QED
      BY <1>2
  <1> HIDE DEF A, L
  <1>4. PICK g \in [0..L -> A] :
           g[0] = <<>> /\ \A n \in 1..L : g[n] = step[<<g[n - 1], n>>]
    <2>1. \E g : Rounds(g, L, A, <<>>, step)
      <3> HIDE DEF step
      <3> QED
        BY <1>1, <1>3, Loop
    <2> QED
      BY <2>1 DEF Rounds
  <1>5. g = Round(g)
    <2>1. ASSUME NEW n \in 1..L
          PROVE  g[n] = WithItem(g[n - 1], s, n, items[n])
      <3>1. <<g[n - 1], n>> \in A \X (1..L)
        BY <1>1
      <3> QED
        BY <1>4, <3>1
    <2>2. \A n \in 0..L : g[n] = IF n = 0 THEN <<>> ELSE WithItem(g[n - 1], s, n, items[n])
      BY <1>1, <1>4, <2>1
    <2> QED
      BY <2>2
  <1>6. f = Round(f)
    <2> HIDE DEF Round
    <2> QED
      BY <1>5
  <1>7. Events(s, items) = f[L]
    BY DEF Events, L
  <1> HIDE DEF f
  <1>8. f[0] = <<>> /\ \A n \in 1..L : f[n] = WithItem(f[n - 1], s, n, items[n])
    BY <1>1, <1>6
  <1>9. f \in [0..L -> A]
    <2> DEFINE T == {n \in 0..L : f[n] \in A}
    <2>1. 0 \in T
      BY <1>1, <1>8
    <2>2. ASSUME NEW n \in 1..L, n - 1 \in T PROVE n \in T
      <3>1. f[n] \in A
        BY <1>2, <1>8, <2>2
      <3>2. n \in 0..L
        BY <1>1
      <3> QED
        BY <3>1, <3>2
    <2>3. 0..L \subseteq T
      <3> HIDE DEF T
      <3> QED
        BY <1>1, <2>1, <2>2, Upwards
    <2> QED
      BY <1>6, <2>3
  <1> QED
    BY <1>7, <1>8, <1>9 DEF A, L

(* What Events computes: an event of each item that is listed and not left out. *)
LEMMA EventsAreKept ==
    ASSUME NEW s, NEW I, NEW items \in Seq(I)
    PROVE  /\ Events(s, items) \in Seq(AllEvents(s, items))
           /\ Range(Events(s, items)) = KeptEvents(s, items, Len(items))
  <1> DEFINE L == Len(items)
             A == Seq(AllEvents(s, items))
  <1>1. L \in Nat /\ 0 \in 0..L /\ L \in 0..L
    OBVIOUS
  <1>2. PICK f \in [0..L -> A] :
           /\ f[0] = <<>>
           /\ \A n \in 1..L : f[n] = WithItem(f[n - 1], s, n, items[n])
           /\ Events(s, items) = f[L]
    BY EventsLoop
  <1> DEFINE T == {n \in 0..L : Range(f[n]) = KeptEvents(s, items, n)}
  <1>3. 0 \in T
    BY <1>1, <1>2 DEF KeptEvents, Range
  <1>4. ASSUME NEW n \in 1..L, n - 1 \in T PROVE n \in T
    <2> DEFINE e == Event(s, n, items[n])
               before == f[n - 1]
    <2>1. /\ before \in A /\ f[n] = WithItem(before, s, n, items[n])
          /\ Range(before) = KeptEvents(s, items, n - 1)
          /\ n \in Nat /\ n \in 0..L
      <3>1. /\ n - 1 \in 0..L
            /\ Range(f[n - 1]) = KeptEvents(s, items, n - 1)
        BY <1>4
      <3>2. n \in Nat /\ n \in 0..L
        BY <1>1
      <3>3. f[n - 1] \in A
        BY <1>2, <3>1
      <3>4. f[n] = WithItem(f[n - 1], s, n, items[n])
        BY <1>2
      <3> QED
        BY <3>1, <3>2, <3>3, <3>4
    <2>2. \A i : i \in 1..n <=> i \in 1..(n - 1) \/ i = n
      BY <2>1
    <2>3. CASE Kept(s, n, items[n])
      <3>1. f[n] = Append(before, e)
        BY <2>1, <2>3 DEF WithItem, Kept
      <3>2. Range(Append(before, e)) = Range(before) \cup {e}
        <4>1. /\ DOMAIN Append(before, e) = DOMAIN before \cup {Len(before) + 1}
              /\ Append(before, e)[Len(before) + 1] = e
              /\ \A j \in DOMAIN before : Append(before, e)[j] = before[j]
          BY <2>1
        <4> HIDE DEF before, e
        <4> QED
          BY <4>1 DEF Range
      <3>3. KeptEvents(s, items, n) = KeptEvents(s, items, n - 1) \cup {e}
        BY <2>2, <2>3 DEF KeptEvents
      <3> QED
        BY <2>1, <3>1, <3>2, <3>3
    <2>4. CASE ~Kept(s, n, items[n])
      <3>1. f[n] = before
        BY <2>1, <2>4 DEF WithItem, Kept
      <3>2. KeptEvents(s, items, n) = KeptEvents(s, items, n - 1)
        BY <2>2, <2>4 DEF KeptEvents
      <3> QED
        BY <2>1, <3>1, <3>2
    <2> QED
      BY <2>3, <2>4
  <1>5. L \in T
    <2>1. 0..L \subseteq T
      <3> HIDE DEF T, L
      <3> QED
        BY <1>1, <1>3, <1>4, Upwards
    <2> QED
      BY <1>1, <2>1
  <1> QED
    BY <1>1, <1>2, <1>5

-----------------------------------------------------------------------------
(* Appending the lists of the sources loses no event and adds none.            *)
LEMMA RangeOfConcat ==
    ASSUME NEW E, NEW a \in Seq(E), NEW b \in Seq(E)
    PROVE  a \o b \in Seq(E) /\ Range(a \o b) = Range(a) \cup Range(b)
  <1>1. /\ Len(a) \in Nat /\ Len(b) \in Nat
        /\ DOMAIN a = 1..Len(a) /\ DOMAIN b = 1..Len(b)
        /\ DOMAIN (a \o b) = 1..(Len(a) + Len(b))
        /\ \A i \in 1..Len(a) : (a \o b)[i] = a[i]
        /\ \A i \in 1..Len(b) : (a \o b)[Len(a) + i] = b[i]
        /\ \A i \in 1..(Len(a) + Len(b)) : i \in 1..Len(a) \/ i - Len(a) \in 1..Len(b)
        /\ \A i \in 1..Len(a) : i \in 1..(Len(a) + Len(b))
        /\ \A i \in 1..Len(b) : Len(a) + i \in 1..(Len(a) + Len(b))
        /\ \A i \in 1..(Len(a) + Len(b)) : Len(a) + (i - Len(a)) = i
    OBVIOUS
  <1>2. ASSUME NEW i \in 1..(Len(a) + Len(b))
        PROVE  (a \o b)[i] \in Range(a) \cup Range(b)
    <2>1. CASE i \in 1..Len(a)
      BY <1>1, <2>1 DEF Range
    <2>2. CASE i - Len(a) \in 1..Len(b)
      <3>1. (a \o b)[i] = b[i - Len(a)]
        BY <1>1, <2>2
      <3> QED
        BY <1>1, <2>2, <3>1 DEF Range
    <2> QED
      BY <1>1, <2>1, <2>2
  <1>3. Range(a \o b) \subseteq Range(a) \cup Range(b)
    BY <1>1, <1>2 DEF Range
  <1>4. ASSUME NEW i \in 1..Len(a) PROVE a[i] \in Range(a \o b)
    BY <1>1 DEF Range
  <1>5. ASSUME NEW i \in 1..Len(b) PROVE b[i] \in Range(a \o b)
    <2>1. Len(a) + i \in DOMAIN (a \o b) /\ (a \o b)[Len(a) + i] = b[i]
      BY <1>1
    <2> QED
      BY <2>1 DEF Range
  <1>6. Range(a) \cup Range(b) \subseteq Range(a \o b)
    <2>1. Range(a) \subseteq Range(a \o b)
      <3>1. Range(a) = {a[i] : i \in 1..Len(a)}
        BY <1>1 DEF Range
      <3> QED
        BY <1>4, <3>1
    <2>2. Range(b) \subseteq Range(a \o b)
      <3>1. Range(b) = {b[i] : i \in 1..Len(b)}
        BY <1>1 DEF Range
      <3> QED
        BY <1>5, <3>1
    <2> QED
      BY <2>1, <2>2
  <1> QED
    BY <1>3, <1>6

LEMMA FlattenFour ==
    ASSUME NEW E, NEW ss \in [1..4 -> Seq(E)]
    PROVE  /\ FlattenSeq(ss) \in Seq(E)
           /\ Range(FlattenSeq(ss)) =
                 Range(ss[1]) \cup Range(ss[2]) \cup Range(ss[3]) \cup Range(ss[4])
  <1> DEFINE Round(f) == [i \in 1..4 |-> IF i = 1 THEN ss[i] ELSE f[i - 1] \o ss[i]]
             f == CHOOSE x : x = Round(x)
  <1>1. Len(ss) = 4 /\ \A i \in 1..4 : ss[i] \in Seq(E)
    OBVIOUS
  <1>2. \E g : g = Round(g)
    <2> DEFINE g2 == ss[1] \o ss[2]
               g3 == g2 \o ss[3]
               g4 == g3 \o ss[4]
               g == [i \in 1..4 |-> IF i = 1 THEN ss[1] ELSE
                                    IF i = 2 THEN g2 ELSE IF i = 3 THEN g3 ELSE g4]
    <2>1. g[1] = ss[1] /\ g[2] = g2 /\ g[3] = g3 /\ g[4] = g4
      OBVIOUS
    <2>2. \A i \in 1..4 : i = 1 \/ i = 2 \/ i = 3 \/ i = 4
      OBVIOUS
    <2>3. ASSUME NEW i \in 1..4
          PROVE  g[i] = IF i = 1 THEN ss[i] ELSE g[i - 1] \o ss[i]
      <3>1. /\ g[2] = g[2 - 1] \o ss[2]
            /\ g[3] = g[3 - 1] \o ss[3]
            /\ g[4] = g[4 - 1] \o ss[4]
        <4>1. 2 - 1 = 1 /\ 3 - 1 = 2 /\ 4 - 1 = 3
          OBVIOUS
        <4> HIDE DEF g
        <4> QED
          BY <2>1, <4>1
      <3> HIDE DEF g
      <3> QED
        BY <2>1, <2>2, <3>1
    <2>4. g = Round(g)
      <3>1. g = [i \in 1..4 |-> g[i]]
        OBVIOUS
      <3> HIDE DEF g
      <3> QED
        BY <2>3, <3>1
    <2> QED
      BY <2>4
  <1>3. f = Round(f)
    <2> HIDE DEF Round
    <2> QED
      BY <1>2
  <1>4. FlattenSeq(ss) = f[4]
    BY <1>1 DEF FlattenSeq
  <1> HIDE DEF f
  <1>5. f[1] = ss[1] /\ f[2] = f[1] \o ss[2] /\ f[3] = f[2] \o ss[3] /\ f[4] = f[3] \o ss[4]
    <2>1. \A i \in 1..4 : f[i] = IF i = 1 THEN ss[i] ELSE f[i - 1] \o ss[i]
      BY <1>3
    <2> HIDE DEF Round
    <2>2. /\ f[1] = ss[1]
          /\ f[2] = f[2 - 1] \o ss[2]
          /\ f[3] = f[3 - 1] \o ss[3]
          /\ f[4] = f[4 - 1] \o ss[4]
      <3>1. 1 \in 1..4 /\ 2 \in 1..4 /\ 3 \in 1..4 /\ 4 \in 1..4
        OBVIOUS
      <3>2. f[1] = ss[1]
        BY ONLY <2>1, <3>1
      <3>3. f[2] = f[2 - 1] \o ss[2]
        BY ONLY <2>1, <3>1
      <3>4. f[3] = f[3 - 1] \o ss[3]
        BY ONLY <2>1, <3>1
      <3>5. f[4] = f[4 - 1] \o ss[4]
        BY ONLY <2>1, <3>1
      <3> QED
        BY <3>2, <3>3, <3>4, <3>5
    <2>3. 2 - 1 = 1 /\ 3 - 1 = 2 /\ 4 - 1 = 3
      OBVIOUS
    <2> QED
      BY <2>2, <2>3
  <1>6. f[1] \in Seq(E) /\ Range(f[1]) = Range(ss[1])
    BY <1>1, <1>5
  <1>7. f[2] \in Seq(E) /\ Range(f[2]) = Range(f[1]) \cup Range(ss[2])
    <2>1. f[1] \in Seq(E) /\ ss[2] \in Seq(E)
      BY <1>1, <1>6
    <2>2. /\ f[1] \o ss[2] \in Seq(E)
          /\ Range(f[1] \o ss[2]) = Range(f[1]) \cup Range(ss[2])
      BY <2>1, RangeOfConcat
    <2> QED
      BY <1>5, <2>2
  <1>8. f[3] \in Seq(E) /\ Range(f[3]) = Range(f[2]) \cup Range(ss[3])
    <2>1. f[2] \in Seq(E) /\ ss[3] \in Seq(E)
      BY <1>1, <1>7
    <2>2. /\ f[2] \o ss[3] \in Seq(E)
          /\ Range(f[2] \o ss[3]) = Range(f[2]) \cup Range(ss[3])
      BY <2>1, RangeOfConcat
    <2> QED
      BY <1>5, <2>2
  <1>9. f[4] \in Seq(E) /\ Range(f[4]) = Range(f[3]) \cup Range(ss[4])
    <2>1. f[3] \in Seq(E) /\ ss[4] \in Seq(E)
      BY <1>1, <1>8
    <2>2. /\ f[3] \o ss[4] \in Seq(E)
          /\ Range(f[3] \o ss[4]) = Range(f[3]) \cup Range(ss[4])
      BY <2>1, RangeOfConcat
    <2> QED
      BY <1>5, <2>2
  <1> QED
    BY <1>4, <1>6, <1>7, <1>8, <1>9

-----------------------------------------------------------------------------
(* The daily draft of a request, and what it can become.                       *)
Daily == IF given # <<>> THEN DailyDraft(given, {}) ELSE DailyDraft(Collect, Warnings)

Drafts == {Daily, [Daily EXCEPT !.type = "weekly"]}

(* Answers stay once they are in, a draft is made when all of them are, and    *)
(* what is saved is a draft of them.                                           *)
IInv ==
    /\ given \in Given
    /\ answer = [s \in DOMAIN Answers |-> answer[s]]
    /\ \A s \in DOMAIN Answers : answer[s] \in Answers[s] \cup {None, Failed}
    /\ pc = "asking" => draft = None
    /\ draft # None \/ pc \in {"save", "answered"} =>
          /\ draft \in Drafts
          /\ given = <<>> => \A s \in DOMAIN Answers : answer[s] # None
    /\ pc = "answered" => stored \in Drafts

(* Turning a daily draft into a weekly one keeps its evidence and warnings.    *)
LEMMA DraftFields ==
    ASSUME NEW d \in Drafts
    PROVE  /\ d.evidence = Deduplicate(IF given # <<>> THEN given ELSE Collect)
           /\ given = <<>> => Warnings \subseteq d.warnings
  <1>1. ASSUME NEW events, NEW warnings, Daily = DailyDraft(events, warnings)
        PROVE  /\ Daily.evidence = Deduplicate(events)
               /\ warnings \subseteq Daily.warnings
               /\ [Daily EXCEPT !.type = "weekly"].evidence = Daily.evidence
               /\ [Daily EXCEPT !.type = "weekly"].warnings = Daily.warnings
    BY <1>1 DEF DailyDraft
  <1>2. d = Daily \/ d = [Daily EXCEPT !.type = "weekly"]
    BY DEF Drafts
  <1>3. CASE given # <<>>
    <2>1. Daily = DailyDraft(given, {})
      BY <1>3 DEF Daily
    <2>2. d.evidence = Deduplicate(given)
      BY <1>1, <1>2, <2>1
    <2> QED
      BY <1>3, <2>2
  <1>4. CASE given = <<>>
    <2>1. Daily = DailyDraft(Collect, Warnings)
      BY <1>4 DEF Daily
    <2>2. d.evidence = Deduplicate(Collect) /\ Warnings \subseteq d.warnings
      BY <1>1, <1>2, <2>1
    <2> QED
      BY <1>4, <2>2
  <1> QED
    BY <1>3, <1>4

LEMMA InitIInv == Init => IInv
  <1> SUFFICES ASSUME Init PROVE IInv
    OBVIOUS
  <1>1. \A s \in DOMAIN Answers : answer[s] = None
    BY DEF Init
  <1> QED
    BY <1>1 DEF Init, IInv

(* Nothing the drafts depend on changes.                                       *)
LEMMA DraftsStay ==
    ASSUME UNCHANGED <<given, answer>> PROVE Drafts' = Drafts
  BY DEF Drafts, Daily, DailyDraft, Collect, SafeCollect, Warnings

LEMMA NextIInv == IInv /\ [Next]_vars => IInv'
  <1> SUFFICES ASSUME IInv, [Next]_vars PROVE IInv'
    OBVIOUS
  <1>1. ASSUME NEW s \in DOMAIN Answers, Answer(s) \/ Unavailable(s) PROVE IInv'
    <2>1. /\ pc = "asking" /\ draft = None
          /\ UNCHANGED <<pc, weekly, given, draft, stored>>
      BY <1>1 DEF Answer, Unavailable, Asking, IInv
    <2>2. PICK a \in Answers[s] \cup {Failed} : answer' = [answer EXCEPT ![s] = a]
      BY <1>1 DEF Answer, Unavailable
    <2>3. /\ answer' = [t \in DOMAIN Answers |-> answer'[t]]
          /\ \A t \in DOMAIN Answers : answer'[t] \in Answers[t] \cup {None, Failed}
      BY <2>2 DEF IInv
    <2> QED
      BY <2>1, <2>3 DEF IInv
  <1>2. ASSUME UNCHANGED <<given, answer>>, [Next]_vars PROVE IInv'
    <2>1. Drafts' = Drafts
      BY <1>2, DraftsStay
    <2>2. CASE UNCHANGED vars
      BY <2>1, <2>2 DEF vars, IInv
    <2>3. CASE Generate
      <3>1. draft' \in Drafts /\ draft' = Daily
        BY <2>3 DEF Generate, Drafts, Daily
      <3>2. given = <<>> => \A s \in DOMAIN Answers : answer[s] # None
        BY <2>3 DEF Generate, IInv
      <3>3. pc' = "save"
        BY <2>3 DEF Generate
      <3> QED
        BY <1>2, <2>1, <3>1, <3>2, <3>3 DEF IInv
    <2>4. CASE Save
      <3>1. /\ pc = "save" /\ pc' \in {"save", "answered"}
            /\ stored' = draft /\ draft \in Drafts
            /\ draft' = draft \/ (draft.type = "daily" /\ draft' = [draft EXCEPT !.type = "weekly"])
        BY <2>4 DEF Save, IInv
      <3>2. draft' \in Drafts
        <4>1. [Daily EXCEPT !.type = "weekly"] =
                 [[Daily EXCEPT !.type = "weekly"] EXCEPT !.type = "weekly"]
          BY DEF Daily, DailyDraft
        <4> QED
          BY <3>1, <4>1 DEF Drafts
      <3> QED
        BY <1>2, <2>1, <3>1, <3>2 DEF IInv
    <2>5. CASE Stop \/ \E s \in DOMAIN Answers : Escape(s)
      <3>1. pc' = "failed" /\ UNCHANGED <<draft, stored>>
        BY <2>5 DEF Stop, Escape
      <3> QED
        BY <1>2, <2>1, <3>1 DEF IInv
    <2>6. ASSUME NEW s \in DOMAIN Answers, Answer(s) \/ Unavailable(s) PROVE IInv'
      BY <1>1, <2>6
    <2> QED
      BY <1>2, <2>2, <2>3, <2>4, <2>5, <2>6 DEF Next
  <1>3. CASE ~UNCHANGED <<given, answer>>
    BY <1>1, <1>3 DEF Next, Escape, Generate, Save, Stop, vars
  <1> QED
    BY <1>2, <1>3

LEMMA InvariantHolds == Spec => []IInv
  BY InitIInv, NextIInv, PTL DEF Spec

-----------------------------------------------------------------------------
(* The events of an answer: those of its items that are listed and not left out. *)
LEMMA CollectedOf ==
    ASSUME NEW s \in DOMAIN Answers, answer[s] \in Answers[s] \cup {Failed}
    PROVE  /\ SafeCollect(s).events \in Seq(Range(SafeCollect(s).events))
           /\ Range(SafeCollect(s).events) =
                 IF answer[s] = Failed
                 THEN {}
                 ELSE {Event(s, i, answer[s][i]) :
                          i \in {i \in DOMAIN answer[s] : Kept(s, i, answer[s][i])}}
  <1> DEFINE items == answer[s]
  <1>1. CASE items = Failed
    <2>1. SafeCollect(s).events = <<>>
      BY <1>1 DEF SafeCollect
    <2> QED
      BY <1>1, <2>1 DEF Range
  <1>2. CASE items # Failed
    <2>1. SafeCollect(s).events = Events(s, items)
      BY <1>2 DEF SafeCollect
    <2>2. items \in Seq(Range(items))
      BY <1>2, WorkCollectionAssumption
    <2>3. DOMAIN items = 1..Len(items)
      BY <2>2
    <2>4. /\ Events(s, items) \in Seq(AllEvents(s, items))
          /\ Range(Events(s, items)) = KeptEvents(s, items, Len(items))
      BY <2>2, EventsAreKept
    <2>5. Events(s, items) \in Seq(Range(Events(s, items)))
      BY <2>4, SequenceOverRange
    <2> QED
      BY <1>2, <2>1, <2>3, <2>4, <2>5 DEF KeptEvents
  <1> QED
    BY <1>1, <1>2

(* What is gathered: the kept items of the sources that did not fail.          *)
LEMMA CollectIs ==
    ASSUME \A s \in DOMAIN Answers : answer[s] \in Answers[s] \cup {Failed}
    PROVE  /\ Collect \in Seq(Range(Collect))
           /\ \A e : e \in Range(Collect) <=>
                 \E s \in DOMAIN Answers :
                    /\ answer[s] # Failed
                    /\ \E i \in DOMAIN answer[s] :
                          e = Event(s, i, answer[s][i]) /\ Kept(s, i, answer[s][i])
  <1> DEFINE E == UNION {Range(SafeCollect(s).events) : s \in DOMAIN Answers}
             ss == [n \in DOMAIN Sources |-> SafeCollect(Sources[n]).events]
  <1>1. /\ DOMAIN Sources = 1..4
        /\ \A s : s \in DOMAIN Answers <=> \E n \in 1..4 : s = Sources[n]
    <2>1. DOMAIN Sources = 1..4
      BY DEF Sources
    <2> QED
      BY <2>1, WorkCollectionAssumption DEF Range
  <1>2. ASSUME NEW s \in DOMAIN Answers PROVE SafeCollect(s).events \in Seq(E)
    <2>1. SafeCollect(s).events \in Seq(Range(SafeCollect(s).events))
      BY CollectedOf
    <2>2. Range(SafeCollect(s).events) \subseteq E
      OBVIOUS
    <2> QED
      BY <2>1, <2>2
  <1>3. ss \in [1..4 -> Seq(E)] /\ \A n \in 1..4 : ss[n] = SafeCollect(Sources[n]).events
    <2> HIDE DEF E
    <2> QED
      BY <1>1, <1>2
  <1>4. /\ Collect \in Seq(E)
        /\ Range(Collect) = Range(ss[1]) \cup Range(ss[2]) \cup Range(ss[3]) \cup Range(ss[4])
    <2>1. Collect = FlattenSeq(ss)
      BY DEF Collect
    <2> HIDE DEF E, ss
    <2> QED
      BY <1>3, <2>1, FlattenFour
  <1>5. \A e : e \in Range(Collect) <=>
               \E n \in 1..4 : e \in Range(SafeCollect(Sources[n]).events)
    <2> HIDE DEF ss
    <2>1. \A n \in 1..4 : n = 1 \/ n = 2 \/ n = 3 \/ n = 4
      OBVIOUS
    <2> QED
      BY <1>3, <1>4, <2>1
  <1>6. \A e : e \in Range(Collect) <=>
               \E s \in DOMAIN Answers : e \in Range(SafeCollect(s).events)
    BY <1>1, <1>5
  <1>7. ASSUME NEW s \in DOMAIN Answers, NEW e
        PROVE  e \in Range(SafeCollect(s).events) <=>
                 /\ answer[s] # Failed
                 /\ \E i \in DOMAIN answer[s] :
                       e = Event(s, i, answer[s][i]) /\ Kept(s, i, answer[s][i])
    BY CollectedOf
  <1>8. Collect \in Seq(Range(Collect))
    BY <1>4, SequenceOverRange
  <1> QED
    BY <1>6, <1>7, <1>8

LEMMA CollectConfidence ==
    ASSUME \A s \in DOMAIN Answers : answer[s] \in Answers[s] \cup {Failed}
    PROVE  \A k \in DOMAIN Collect : Collect[k].confidence \in Nat
  <1> SUFFICES ASSUME NEW k \in DOMAIN Collect PROVE Collect[k].confidence \in Nat
    OBVIOUS
  <1>1. Collect[k] \in Range(Collect)
    BY DEF Range
  <1>2. PICK s \in DOMAIN Answers : \E i \in DOMAIN answer[s] :
           Collect[k] = Event(s, i, answer[s][i])
    BY <1>1, CollectIs
  <1> QED
    BY <1>2 DEF Event

(* What a draft in memory or in the database is made of.                       *)
LEMMA EvidenceIs ==
    ASSUME IInv, NEW d \in Drafts,
           given = <<>> => \A s \in DOMAIN Answers : answer[s] # None
    PROVE  LET events == IF given # <<>> THEN given ELSE Collect IN
           /\ Range(d.evidence) =
                 {events[k] : k \in {k \in DOMAIN events :
                                       ~\E j \in DOMAIN events : Beats(events, j, k)}}
           /\ \A k \in DOMAIN events : \E e \in Range(d.evidence) :
                 Key(e) = Key(events[k])
  <1> DEFINE events == IF given # <<>> THEN given ELSE Collect
  <1>1. /\ events \in Seq(Range(events))
        /\ \A k \in DOMAIN events : events[k].confidence \in Nat
    <2>1. CASE given # <<>>
      BY <2>1, WorkCollectionAssumption DEF IInv
    <2>2. CASE given = <<>>
      <3>1. \A s \in DOMAIN Answers : answer[s] \in Answers[s] \cup {Failed}
        BY <2>2 DEF IInv
      <3> QED
        BY <2>2, <3>1, CollectIs, CollectConfidence
    <2> QED
      BY <2>1, <2>2
  <1>2. d.evidence = Deduplicate(events)
    BY DraftFields
  <1> HIDE DEF events
  <1>3. /\ Range(Deduplicate(events)) =
             {events[k] : k \in {k \in DOMAIN events :
                                   ~\E j \in DOMAIN events : Beats(events, j, k)}}
        /\ \A k \in DOMAIN events : \E e \in Range(Deduplicate(events)) :
              Key(e) = Key(events[k])
    BY <1>1, DeduplicateKeepsBest
  <1> QED
    BY <1>2, <1>3 DEF events

(* For any answers of any length: which event _deduplicate lets stand for a    *)
(* project and title depends on confidence and the fixed order of the sources, *)
(* not on which source was fast.                                               *)
THEOREM BestEventIsKept == Spec => []BestEventKept
  <1>1. IInv => BestEventKept
    <2> SUFFICES ASSUME IInv, draft # None PROVE BestEventKept
      BY DEF BestEventKept
    <2> DEFINE events == IF given # <<>> THEN given ELSE Collect
               all == IF given # <<>> THEN given
                      ELSE FlattenSeq([n \in 1..4 |-> SafeCollect(Sources[n]).events])
    <2>1. draft \in Drafts /\ (given = <<>> => \A s \in DOMAIN Answers : answer[s] # None)
      BY DEF IInv
    <2>2. Range(draft.evidence) =
            {events[k] : k \in {k \in DOMAIN events :
                                  ~\E j \in DOMAIN events : Beats(events, j, k)}}
      BY <2>1, EvidenceIs
    <2>3. all = events
      <3>1. DOMAIN Sources = 1..4
        BY DEF Sources
      <3> QED
        BY <3>1 DEF Collect
    <2>4. Range(draft.evidence) =
            {all[k] : k \in {k \in DOMAIN all :
                               ~\E j \in DOMAIN all : Beats(all, j, k)}}
      <3> HIDE DEF all, events
      <3> QED
        BY <2>2, <2>3
    <2> QED
      BY <2>4 DEF BestEventKept, Beats
  <1> QED
    BY <1>1, InvariantHolds, PTL

(* The saved draft is one of the drafts of what was answered.                  *)
LEMMA SavedDraft ==
    ASSUME IInv, Collected
    PROVE  /\ stored \in Drafts /\ given = <<>>
           /\ \A s \in DOMAIN Answers : answer[s] \in Answers[s] \cup {Failed}
           /\ given = <<>> => \A s \in DOMAIN Answers : answer[s] # None
  BY DEF IInv, Collected

(* For any items, marks and minutes: an e-mail or minutes whose sensitive data *)
(* keep it out of its source's events is no evidence of the saved draft,       *)
(* whichever event stands for its project and title.                           *)
THEOREM SensitiveStays == Spec => []SensitiveStaysOut
  <1>1. IInv => SensitiveStaysOut
    <2> SUFFICES ASSUME IInv, Collected, NEW e \in Range(stored.evidence),
                        e.id[1] \in {"email", "meeting"}
                 PROVE  answer[e.id[1]][e.id[2]].mark = "plain"
      BY DEF SensitiveStaysOut
    <2>1. /\ stored \in Drafts /\ given = <<>>
          /\ \A s \in DOMAIN Answers : answer[s] \in Answers[s] \cup {Failed}
          /\ given = <<>> => \A s \in DOMAIN Answers : answer[s] # None
      BY SavedDraft
    <2>2. e \in Range(Collect)
      <3>1. Range(stored.evidence) =
              {Collect[k] : k \in {k \in DOMAIN Collect :
                                    ~\E j \in DOMAIN Collect : Beats(Collect, j, k)}}
        BY <2>1, EvidenceIs
      <3> QED
        BY <3>1 DEF Range
    <2>3. PICK s \in DOMAIN Answers :
             /\ answer[s] # Failed
             /\ \E i \in DOMAIN answer[s] :
                   e = Event(s, i, answer[s][i]) /\ Kept(s, i, answer[s][i])
      BY <2>1, <2>2, CollectIs
    <2>4. PICK i \in DOMAIN answer[s] :
             e = Event(s, i, answer[s][i]) /\ Kept(s, i, answer[s][i])
      BY <2>3
    <2>5. e.id[1] = s /\ e.id[2] = i
      BY <2>4 DEF Event
    <2>6. answer[s][i].mark \in Marks(s) /\ ~LeftOut(s, answer[s][i])
      <3>1. answer[s] \in Answers[s]
        BY <2>1, <2>3
      <3> QED
        BY <2>4, <3>1, WorkCollectionAssumption DEF Kept
    <2>7. answer[s][i].mark = "plain"
      <3>1. CASE s = "email"
        BY <2>6, <3>1 DEF Marks, LeftOut
      <3>2. CASE s = "meeting"
        BY <2>6, <3>2 DEF Marks, LeftOut
      <3> QED
        BY <2>5, <3>1, <3>2
    <2> QED
      BY <2>5, <2>7
  <1> QED
    BY <1>1, InvariantHolds, PTL

(* For sources that fail or answer in any order, and answers of any length:    *)
(* the saved draft names the failed ones, and each item to be listed of the    *)
(* others has evidence in the draft, unless that very item is left out, which  *)
(* the draft warns of with the item's reason.                                  *)
THEOREM PartialResults == Spec => []PartialResultsKept
  <1>1. IInv => PartialResultsKept
    <2> SUFFICES ASSUME IInv, Collected, NEW s \in DOMAIN Answers
                 PROVE  IF answer[s] = Failed
                        THEN <<"missing", s>> \in stored.warnings
                        ELSE \A i \in DOMAIN answer[s] :
                                LET item == answer[s][i] IN
                                Listed(s, i, item) =>
                                    IF LeftOut(s, item)
                                    THEN <<Reason(item), s>> \in stored.warnings
                                    ELSE \E e \in Range(stored.evidence) :
                                            Key(e) = <<item.project, Titled(s, item)>>
      BY DEF PartialResultsKept
    <2>1. /\ stored \in Drafts /\ given = <<>>
          /\ \A t \in DOMAIN Answers : answer[t] \in Answers[t] \cup {Failed}
          /\ given = <<>> => \A t \in DOMAIN Answers : answer[t] # None
      BY SavedDraft
    <2>2. SafeCollect(s).warnings \subseteq stored.warnings
      <3>1. SafeCollect(s).warnings \subseteq Warnings
        BY DEF Warnings
      <3>2. Warnings \subseteq stored.warnings
        BY <2>1, DraftFields
      <3> QED
        BY <3>1, <3>2
    <2>3. CASE answer[s] = Failed
      <3>1. SafeCollect(s).warnings = {<<"missing", s>>}
        BY <2>3 DEF SafeCollect
      <3> QED
        BY <2>2, <2>3, <3>1
    <2>4. ASSUME answer[s] # Failed, NEW i \in DOMAIN answer[s],
                 Kept(s, i, answer[s][i])
          PROVE  \E e \in Range(stored.evidence) :
                    Key(e) = <<answer[s][i].project, Titled(s, answer[s][i])>>
      <3> DEFINE event == Event(s, i, answer[s][i])
      <3>1. Key(event) = <<answer[s][i].project, Titled(s, answer[s][i])>>
        BY DEF Key, Event
      <3> HIDE DEF event
      <3>2. event \in Range(Collect)
        BY <2>1, <2>4, CollectIs DEF event
      <3>3. PICK k \in DOMAIN Collect : Collect[k] = event
        BY <3>2 DEF Range
      <3>4. \A n \in DOMAIN Collect : \E e \in Range(stored.evidence) :
               Key(e) = Key(Collect[n])
        BY <2>1, EvidenceIs
      <3>5. PICK e \in Range(stored.evidence) : Key(e) = Key(Collect[k])
        BY <3>4
      <3> QED
        BY <3>1, <3>3, <3>5
    <2>5. ASSUME answer[s] # Failed, NEW i \in DOMAIN answer[s],
                 Listed(s, i, answer[s][i]), LeftOut(s, answer[s][i])
          PROVE  <<Reason(answer[s][i]), s>> \in stored.warnings
      <3>1. <<Reason(answer[s][i]), s>> \in SafeCollect(s).warnings
        BY <2>5 DEF SafeCollect
      <3> QED
        BY <2>2, <3>1
    <2> QED
      BY <2>3, <2>4, <2>5 DEF Kept
  <1> QED
    BY <1>1, InvariantHolds, PTL

-----------------------------------------------------------------------------
(* MemoryCache: the lists of confirmed memories, and who is on the way to one.  *)
List == [Keys -> Nat]

MemoryPCs == {"idle", "select", "write", "invalidate", "lookup", "read", "fill", "put",
              "load", "told"}

MemoryCall == [pc : MemoryPCs, kind : {Absent, "remember", "list", "sync"},
               key : Keys \cup {Absent}, found : BOOLEAN, value : Nat,
               list : List, floor : List]

Remembers(x) == x.pc \in {"select", "write", "invalidate"}

Reads(x) == x.pc \in {"lookup", "read", "fill", "put", "load", "told"}

MemoryTyped ==
    /\ rows \in List
    /\ commits \in Nat
    /\ cache # Absent => cache \in [list : List, ttl : BOOLEAN]
    /\ file \in List \cup {Absent}
    /\ call \in [Callers -> MemoryCall]
    /\ settled \in List

MemoryKinds ==
    \A c \in Callers :
        /\ Remembers(call[c]) => call[c].kind = "remember" /\ call[c].key \in Keys
        /\ Reads(call[c]) => call[c].kind \in {"list", "sync"}
        /\ call[c].pc = "load" => file \in List

AtLeast(list, least) == \A k \in Keys : least[k] <= list[k]

(* Numbers of commits only grow, and only what was committed is settled.       *)
Committed ==
    /\ \A k \in Keys : rows[k] <= commits
    /\ AtLeast(rows, settled)
    /\ \A c \in Callers :
          /\ call[c].pc = "invalidate" => call[c].value <= rows[call[c].key]
          /\ Reads(call[c]) => AtLeast(settled, call[c].floor)

(* While a remember is on its way, no other call is.                           *)
Alone == \A c, d \in Callers : Remembers(call[c]) /\ Active(d) => c = d

(* What is settled is in the entry, in the file a run is about to load, and in *)
(* every list on its way to a reader.                                          *)
Settled ==
    /\ cache # Absent => AtLeast(cache.list, settled)
    /\ \A c \in Callers :
          /\ call[c].pc \in {"fill", "put", "told"} => AtLeast(call[c].list, settled)
          /\ call[c].pc = "load" => AtLeast(file, settled)

(* Once the history is not calm, only what does not depend on it holds.        *)
MemoryIInv == MemoryTyped /\ MemoryKinds /\ Committed /\ (calm => Alone /\ Settled)

-----------------------------------------------------------------------------
LEMMA MemoryIdleCall ==
    /\ Nothing \in List
    /\ Idle \in MemoryCall /\ Idle.pc = "idle"
    /\ ~Remembers(Idle) /\ ~Reads(Idle)
  BY DEF Nothing, List, Idle, MemoryCall, MemoryPCs, Remembers, Reads

LEMMA MemoryInitIInv == MemoryInit => MemoryIInv
  <1> SUFFICES ASSUME MemoryInit PROVE MemoryIInv
    OBVIOUS
  <1>1. \A c \in Callers : call[c] = Idle
    BY DEF MemoryInit
  <1>2. MemoryTyped
    BY MemoryIdleCall DEF MemoryInit, MemoryTyped
  <1>3. MemoryKinds
    BY <1>1, MemoryIdleCall DEF MemoryKinds
  <1>4. Committed
    BY <1>1, MemoryIdleCall DEF MemoryInit, Committed, AtLeast, Nothing
  <1>5. Alone /\ Settled
    BY <1>1, MemoryIdleCall DEF MemoryInit, Alone, Settled, Active
  <1> QED
    BY <1>2, <1>3, <1>4, <1>5 DEF MemoryIInv

(* What a step of one call has to show that writes neither a row nor makes     *)
(* anything settled.                                                           *)
LEMMA MemoryStepKeeps ==
    ASSUME MemoryIInv, NEW c \in Callers, NEW x \in MemoryCall,
           call' = [call EXCEPT ![c] = x],
           UNCHANGED <<rows, commits, settled, calm>>,
           cache' # Absent => cache' \in [list : List, ttl : BOOLEAN],
           Remembers(x) => Remembers(call[c]) /\ x.kind = "remember" /\ x.key \in Keys,
           Reads(x) => /\ Reads(call[c])
                       /\ x.kind \in {"list", "sync"}
                       /\ AtLeast(settled, x.floor),
           x.pc # "invalidate",
           file' = file \/ file' \in List,
           x.pc = "load" => file' \in List,
           calm /\ Alone /\ Settled =>
               /\ cache' # Absent => AtLeast(cache'.list, settled)
               /\ x.pc \in {"fill", "put", "told"} => AtLeast(x.list, settled)
               /\ x.pc = "load" => AtLeast(file', settled)
               /\ file' = file \/ AtLeast(file', settled)
    PROVE  MemoryIInv'
  <1>1. /\ call'[c] = x
        /\ \A d \in Callers \ {c} : call'[d] = call[d]
        /\ call' \in [Callers -> MemoryCall]
    BY DEF MemoryIInv, MemoryTyped
  <1>2. MemoryTyped'
    BY <1>1 DEF MemoryIInv, MemoryTyped
  <1>3. MemoryKinds'
    BY <1>1 DEF MemoryIInv, MemoryKinds
  <1>4. Committed'
    BY <1>1 DEF MemoryIInv, Committed, AtLeast
  <1>5. ASSUME calm' PROVE Alone' /\ Settled'
    <2>1. calm /\ Alone /\ Settled
      BY <1>5 DEF MemoryIInv
    <2>2. Active(c)' => Remembers(x) \/ Reads(x)
      BY <1>1 DEF Active, MemoryCall, MemoryPCs, Remembers, Reads
    <2>3. \A d \in Callers : Active(d)' => Active(d)
      BY <1>1, <2>2 DEF Active, Remembers, Reads
    <2>4. Alone'
      BY <1>1, <2>1, <2>3 DEF Alone
    <2>5. Settled'
      BY <1>1, <2>1 DEF Settled, AtLeast
    <2> QED
      BY <2>4, <2>5
  <1> QED
    BY <1>2, <1>3, <1>4, <1>5 DEF MemoryIInv

-----------------------------------------------------------------------------
(* A call begins: in a calm history a remember with no other call beside it, a *)
(* reader with no remember beside it, so that what is settled stays until it   *)
(* has its answer.                                                             *)
LEMMA BeginKeeps ==
    ASSUME MemoryIInv, NEW c \in Callers, Begin(c) PROVE MemoryIInv'
  <1>1. PICK x \in MemoryCall :
           /\ call' = [call EXCEPT ![c] = x]
           /\ \/ x.pc = "select" /\ x.kind = "remember" /\ x.key \in Keys
              \/ x.pc = "lookup" /\ x.kind \in {"list", "sync"} /\ x.floor = settled
    <2>1. ASSUME NEW k \in Keys,
                 call' = [call EXCEPT ![c] = [Idle EXCEPT !.pc = "select",
                                                          !.kind = "remember", !.key = k]]
          PROVE  \E x \in MemoryCall :
                    /\ call' = [call EXCEPT ![c] = x]
                    /\ \/ x.pc = "select" /\ x.kind = "remember" /\ x.key \in Keys
                       \/ x.pc = "lookup" /\ x.kind \in {"list", "sync"} /\ x.floor = settled
      <3>1. PICK n : n = [Idle EXCEPT !.pc = "select", !.kind = "remember", !.key = k]
        OBVIOUS
      <3>2. n \in MemoryCall /\ n.pc = "select" /\ n.kind = "remember" /\ n.key = k
        BY <3>1, MemoryIdleCall DEF MemoryCall, MemoryPCs
      <3> QED
        BY <2>1, <3>1, <3>2
    <2>2. ASSUME NEW kind \in {"list", "sync"},
                 call' = [call EXCEPT ![c] = [Idle EXCEPT !.pc = "lookup", !.kind = kind,
                                                          !.floor = settled]]
          PROVE  \E x \in MemoryCall :
                    /\ call' = [call EXCEPT ![c] = x]
                    /\ \/ x.pc = "select" /\ x.kind = "remember" /\ x.key \in Keys
                       \/ x.pc = "lookup" /\ x.kind \in {"list", "sync"} /\ x.floor = settled
      <3>1. PICK n : n = [Idle EXCEPT !.pc = "lookup", !.kind = kind, !.floor = settled]
        OBVIOUS
      <3>2. n \in MemoryCall /\ n.pc = "lookup" /\ n.kind = kind /\ n.floor = settled
        BY <3>1, MemoryIdleCall DEF MemoryCall, MemoryPCs, MemoryIInv, MemoryTyped
      <3> QED
        BY <2>2, <3>1, <3>2
    <2> QED
      BY <2>1, <2>2 DEF Begin
  <1>2. /\ ~Active(c)
        /\ UNCHANGED <<rows, commits, cache, file, settled>>
        /\ calm' = (calm /\ ~Overlaps(c, call'[c].kind))
    BY DEF Begin
  <1>3. /\ call'[c] = x
        /\ \A d \in Callers \ {c} : call'[d] = call[d]
        /\ call' \in [Callers -> MemoryCall]
    BY <1>1 DEF MemoryIInv, MemoryTyped
  <1>4. MemoryTyped'
    BY <1>2, <1>3 DEF MemoryIInv, MemoryTyped
  <1>5. MemoryKinds'
    BY <1>1, <1>2, <1>3 DEF MemoryIInv, MemoryKinds, Remembers, Reads
  <1>6. Committed'
    <2>1. AtLeast(settled, settled)
      BY DEF MemoryIInv, MemoryTyped, List, AtLeast
    <2> QED
      BY <1>1, <1>2, <1>3, <2>1 DEF MemoryIInv, Committed, AtLeast, Reads
  <1>7. ASSUME calm' PROVE Alone' /\ Settled'
    <2>1. calm /\ Alone /\ Settled /\ ~Overlaps(c, x.kind)
      BY <1>2, <1>3, <1>7 DEF MemoryIInv
    <2>2. ASSUME NEW d \in Callers \ {c}, Active(d)
          PROVE  x.kind # "remember" /\ ~Remembers(call[d])
      BY <2>1, <2>2 DEF Overlaps, MemoryIInv, MemoryKinds
    <2>3. Remembers(x) => x.kind = "remember"
      BY <1>1 DEF Remembers
    <2>4. \A d \in Callers : Remembers(call[d]) => Active(d)
      BY DEF Remembers, Active
    <2>5. Alone'
      BY <1>3, <2>1, <2>2, <2>3, <2>4 DEF Alone, Active
    <2>6. Settled'
      BY <1>1, <1>2, <1>3, <2>1 DEF Settled, AtLeast
    <2> QED
      BY <2>5, <2>6
  <1> QED
    BY <1>4, <1>5, <1>6, <1>7 DEF MemoryIInv

(* The row gets a newer value than any before; no reader is on its way.        *)
LEMMA WriteKeeps ==
    ASSUME MemoryIInv, NEW c \in Callers, Write(c) PROVE MemoryIInv'
  <1> DEFINE k == call[c].key
  <1>1. /\ call[c].pc = "write" /\ call[c] \in MemoryCall
        /\ UNCHANGED <<cache, file, settled, calm>>
    BY DEF Write, MemoryIInv, MemoryTyped
  <1>2. k \in Keys /\ call[c].kind = "remember"
    BY <1>1 DEF MemoryIInv, MemoryKinds, Remembers
  <1>3. CASE /\ Finish(c) /\ UNCHANGED <<rows, commits>>
    <2>1. call' = [call EXCEPT ![c] = Idle]
      BY <1>3 DEF Finish
    <2>2. cache # Absent => cache \in [list : List, ttl : BOOLEAN]
      BY DEF MemoryIInv, MemoryTyped
    <2>3. Settled => (cache # Absent => AtLeast(cache.list, settled))
      BY DEF Settled
    <2> QED
      BY <1>1, <1>3, <2>1, <2>2, <2>3, MemoryIdleCall, MemoryStepKeeps
  <1>4. CASE /\ rows' = [rows EXCEPT ![k] = commits + 1]
             /\ commits' = commits + 1
             /\ call' = [call EXCEPT ![c] = [@ EXCEPT !.pc = "invalidate",
                                                      !.value = commits + 1]]
    <2>1. commits \in Nat /\ commits + 1 \in Nat
      BY DEF MemoryIInv, MemoryTyped
    <2>2. PICK x \in MemoryCall :
             /\ call' = [call EXCEPT ![c] = x]
             /\ x.pc = "invalidate" /\ x.value = commits + 1 /\ x.key = k
             /\ x.kind = "remember"
      <3>1. PICK x : x = [call[c] EXCEPT !.pc = "invalidate", !.value = commits + 1]
        OBVIOUS
      <3>2. /\ x \in MemoryCall
            /\ x.pc = "invalidate" /\ x.value = commits + 1 /\ x.key = k
            /\ x.kind = "remember"
        BY <1>1, <1>2, <2>1, <3>1 DEF MemoryCall, MemoryPCs
      <3> QED
        BY <1>4, <3>1, <3>2
    <2>3. /\ call'[c] = x
          /\ \A d \in Callers \ {c} : call'[d] = call[d]
          /\ call' \in [Callers -> MemoryCall]
      BY <2>2 DEF MemoryIInv, MemoryTyped
    <2>4. /\ rows' \in List
          /\ rows'[k] = commits + 1
          /\ \A q \in Keys \ {k} : rows'[q] = rows[q]
      BY <1>2, <1>4, <2>1 DEF MemoryIInv, MemoryTyped, List
    <2>5. \A q \in Keys : rows[q] \in Nat /\ rows[q] <= commits /\ settled[q] \in Nat
      BY DEF MemoryIInv, MemoryTyped, List, Committed
    <2>6. \A q \in Keys : rows[q] <= rows'[q] /\ rows'[q] <= commits'
      BY <1>4, <2>1, <2>4, <2>5
    <2>7. MemoryTyped'
      BY <1>1, <1>4, <2>1, <2>3, <2>4 DEF MemoryIInv, MemoryTyped
    <2>8. MemoryKinds'
      BY <1>1, <1>2, <2>2, <2>3 DEF MemoryIInv, MemoryKinds, Remembers, Reads
    <2>9. Committed'
      <3>1. AtLeast(rows', settled)
        <4>1. \A q \in Keys : settled[q] <= rows[q] /\ rows'[q] \in Nat
          BY <2>4 DEF MemoryIInv, Committed, AtLeast, List
        <4> QED
          BY <4>1, <2>5, <2>6 DEF AtLeast
      <3>2. ASSUME NEW d \in Callers, call'[d].pc = "invalidate"
            PROVE  call'[d].value <= rows'[call'[d].key]
        <4>1. CASE d = c
          BY <2>1, <2>2, <2>3, <2>4, <4>1
        <4>2. CASE d # c
          <5>1. /\ call'[d] = call[d] /\ call[d].value <= rows[call[d].key]
                /\ call[d].key \in Keys /\ call[d].value \in Nat
            BY <2>3, <3>2, <4>2 DEF MemoryIInv, Committed, MemoryKinds, Remembers,
               MemoryTyped, MemoryCall
          <5>2. rows'[call[d].key] \in Nat
            BY <2>4, <5>1 DEF List
          <5> QED
            BY <2>5, <2>6, <5>1, <5>2
        <4> QED
          BY <4>1, <4>2
      <3>3. ASSUME NEW d \in Callers, Reads(call'[d])
            PROVE  AtLeast(settled, call'[d].floor)
        BY <2>2, <2>3, <3>3 DEF MemoryIInv, Committed, Reads
      <3> QED
        BY <1>1, <2>6, <3>1, <3>2, <3>3 DEF Committed, AtLeast
    <2>10. calm' => Alone' /\ Settled'
      BY <1>1, <2>2, <2>3 DEF MemoryIInv, Alone, Settled, AtLeast, Active, Remembers
    <2> QED
      BY <2>7, <2>8, <2>9, <2>10 DEF MemoryIInv
  <1> QED
    BY <1>3, <1>4 DEF Write

(* What becomes settled is committed, and in a calm history the entry that      *)
(* might not have it is gone, with no reader on its way.                       *)
LEMMA InvalidateKeeps ==
    ASSUME MemoryIInv, NEW c \in Callers, Invalidate(c) PROVE MemoryIInv'
  <1> DEFINE k == call[c].key
  <1>1. /\ call[c].pc = "invalidate" /\ call[c] \in MemoryCall
        /\ UNCHANGED <<rows, commits, file>>
        /\ \/ cache' = Absent /\ UNCHANGED calm
           \/ calm' = FALSE /\ UNCHANGED cache
        /\ settled' = [settled EXCEPT ![k] =
                          IF call[c].value > @ THEN call[c].value ELSE @]
        /\ call' = [call EXCEPT ![c] = Idle]
    BY DEF Invalidate, Finish, MemoryIInv, MemoryTyped
  <1>2. k \in Keys /\ call[c].value \in Nat
    BY <1>1 DEF MemoryIInv, MemoryKinds, Remembers, MemoryCall
  <1>3. /\ call'[c] = Idle
        /\ \A d \in Callers \ {c} : call'[d] = call[d]
        /\ call' \in [Callers -> MemoryCall]
    BY <1>1, MemoryIdleCall DEF MemoryIInv, MemoryTyped
  <1>4. /\ settled' \in List
        /\ \A q \in Keys : settled[q] <= settled'[q] /\ settled'[q] <= rows[q]
    <2>1. call[c].value <= rows[k]
      BY <1>1 DEF MemoryIInv, Committed
    <2>2. \A q \in Keys : settled[q] \in Nat /\ settled[q] <= rows[q] /\ rows[q] \in Nat
      BY DEF MemoryIInv, MemoryTyped, List, Committed, AtLeast
    <2>3. \A q \in Keys : settled'[q] = settled[q] \/ (q = k /\ settled'[q] = call[c].value
                                                      /\ call[c].value > settled[q])
      BY <1>1, <1>2 DEF MemoryIInv, MemoryTyped, List
    <2>4. settled' \in List
      <3>1. settled[k] \in Nat /\ settled \in [Keys -> Nat]
        BY <1>2, <2>2 DEF MemoryIInv, MemoryTyped, List
      <3> QED
        BY <1>1, <1>2, <3>1 DEF List
    <2> QED
      BY <1>2, <2>1, <2>2, <2>3, <2>4
  <1>5. MemoryTyped'
    BY <1>1, <1>3, <1>4 DEF MemoryIInv, MemoryTyped
  <1>6. MemoryKinds'
    BY <1>1, <1>3, MemoryIdleCall DEF MemoryIInv, MemoryKinds
  <1>7. Committed'
    <2>1. \A q \in Keys : settled[q] \in Nat /\ settled'[q] \in Nat
      BY <1>4 DEF MemoryIInv, MemoryTyped, List
    <2>2. ASSUME NEW d \in Callers, Reads(call'[d])
          PROVE  \A q \in Keys : call'[d].floor[q] <= settled'[q]
      <3>1. call'[d] = call[d] /\ Reads(call[d])
        BY <1>3, <2>2, MemoryIdleCall
      <3>2. \A q \in Keys : call[d].floor[q] \in Nat /\ call[d].floor[q] <= settled[q]
        BY <3>1 DEF MemoryIInv, Committed, AtLeast, MemoryTyped, MemoryCall, List
      <3> QED
        BY <1>4, <2>1, <3>1, <3>2
    <2>3. ASSUME NEW d \in Callers, call'[d].pc = "invalidate"
          PROVE  call'[d].value <= rows[call'[d].key]
      BY <1>3, <2>3, MemoryIdleCall DEF MemoryIInv, Committed
    <2> QED
      BY <1>1, <1>4, <2>2, <2>3 DEF MemoryIInv, Committed, AtLeast
  <1>8. ASSUME calm' PROVE Alone' /\ Settled'
    <2>1. calm /\ Alone /\ cache' = Absent
      BY <1>1, <1>8 DEF MemoryIInv
    <2>2. \A d \in Callers : ~Active(d)'
      BY <1>1, <1>3, <2>1, MemoryIdleCall DEF Alone, Active, Remembers
    <2> QED
      BY <2>1, <2>2 DEF Alone, Settled, Active
  <1> QED
    BY <1>5, <1>6, <1>7, <1>8 DEF MemoryIInv

-----------------------------------------------------------------------------
LEMMA ReaderKeeps ==
    ASSUME MemoryIInv, NEW c \in Callers,
           \/ Lookup(c) \/ Read(c) \/ Fill(c)
           \/ Put(c) \/ Load(c) \/ Return(c)
    PROVE  MemoryIInv'
  <1>1. /\ call[c] \in MemoryCall /\ call[c].list \in List /\ rows \in List
        /\ UNCHANGED <<rows, commits, settled, calm>>
        /\ cache # Absent => cache \in [list : List, ttl : BOOLEAN]
    BY DEF MemoryIInv, MemoryTyped, MemoryCall,
       Lookup, Read, Fill, Put, Load, Return
  <1>2. Reads(call[c])
    BY DEF Reads, Lookup, Read, Fill, Put, Load, Return
  <1>3. call[c].kind \in {"list", "sync"} /\ AtLeast(settled, call[c].floor)
    BY <1>2 DEF MemoryIInv, MemoryKinds, Committed
  <1>4. AtLeast(rows, settled)
    BY DEF MemoryIInv, Committed
  <1>5. AfterList(c) \in {"put", "told"}
    BY DEF AfterList
  <1>6. ASSUME NEW l \in MemoryPCs \ {"idle", "select", "write", "invalidate"},
               NEW list \in List,
               call' = [call EXCEPT ![c] = [@ EXCEPT !.pc = l, !.list = list]],
               cache' # Absent => cache' \in [list : List, ttl : BOOLEAN],
               file' = file \/ file' \in List,
               l = "load" => file' \in List,
               calm /\ Alone /\ Settled =>
                   /\ cache' # Absent => AtLeast(cache'.list, settled)
                   /\ l \in {"fill", "put", "told"} => AtLeast(list, settled)
                   /\ l = "load" => AtLeast(file', settled)
                   /\ file' = file \/ AtLeast(file', settled)
        PROVE  MemoryIInv'
    <2>1. PICK x : x = [call[c] EXCEPT !.pc = l, !.list = list]
      OBVIOUS
    <2>2. /\ x \in MemoryCall /\ x.pc = l /\ x.list = list
          /\ x.kind = call[c].kind /\ x.floor = call[c].floor
      BY <1>1, <1>6, <2>1 DEF MemoryCall
    <2>3. call' = [call EXCEPT ![c] = x]
      BY <1>6, <2>1
    <2>4. ~Remembers(x) /\ x.pc # "invalidate"
      BY <1>6, <2>2 DEF Remembers
    <2>5. Reads(x) => /\ Reads(call[c])
                      /\ x.kind \in {"list", "sync"}
                      /\ AtLeast(settled, x.floor)
      BY <1>2, <1>3, <2>2
    <2>6. UNCHANGED <<rows, commits, settled, calm>>
      BY <1>1
    <2>7. x.pc = "load" => file' \in List
      BY <1>6, <2>2
    <2>8. calm /\ Alone /\ Settled =>
             /\ cache' # Absent => AtLeast(cache'.list, settled)
             /\ x.pc \in {"fill", "put", "told"} => AtLeast(x.list, settled)
             /\ x.pc = "load" => AtLeast(file', settled)
             /\ file' = file \/ AtLeast(file', settled)
      BY <1>6, <2>2
    <2> QED
      BY <1>6, <2>2, <2>3, <2>4, <2>5, <2>6, <2>7, <2>8, MemoryStepKeeps
  <1>7. ASSUME NEW l, Goto(c, l)
        PROVE  call' = [call EXCEPT ![c] = [@ EXCEPT !.pc = l, !.list = call[c].list]]
    BY <1>1, <1>7 DEF Goto, MemoryCall, MemoryIInv, MemoryTyped
  <1>8. CASE Lookup(c)
    <2>1. UNCHANGED <<cache, file>>
      BY <1>8 DEF Lookup
    <2>2. CASE cache # Absent /\ Got(c, AfterList(c), cache.list)
      <3>1. cache.list \in List /\ (Settled => AtLeast(cache.list, settled))
        BY <1>1, <2>2 DEF Settled
      <3>2. call' = [call EXCEPT ![c] = [@ EXCEPT !.pc = AfterList(c), !.list = cache.list]]
        BY <2>2 DEF Got
      <3>3. AfterList(c) \in MemoryPCs \ {"idle", "select", "write", "invalidate", "load"}
        BY <1>5 DEF MemoryPCs
      <3> QED
        BY <1>1, <1>6, <2>1, <2>2, <3>1, <3>2, <3>3
    <2>3. CASE Goto(c, "read")
      <3>1. /\ "read" \in MemoryPCs \ {"idle", "select", "write", "invalidate"}
            /\ call' = [call EXCEPT ![c] = [@ EXCEPT !.pc = "read", !.list = call[c].list]]
        BY <1>7, <2>3 DEF MemoryPCs
      <3>2. Settled => (cache # Absent => AtLeast(cache.list, settled))
        BY DEF Settled
      <3> QED
        BY <1>1, <1>6, <2>1, <3>1, <3>2
    <2> QED
      BY <1>8, <2>2, <2>3 DEF Lookup
  <1>9. CASE Read(c)
    <2>1. /\ "fill" \in MemoryPCs \ {"idle", "select", "write", "invalidate"}
          /\ call' = [call EXCEPT ![c] = [@ EXCEPT !.pc = "fill", !.list = rows]]
          /\ UNCHANGED <<cache, file>>
      BY <1>9 DEF Read, Got, MemoryPCs
    <2>2. Settled => (cache # Absent => AtLeast(cache.list, settled))
      BY DEF Settled
    <2> QED
      BY <1>1, <1>4, <1>6, <2>1, <2>2
  <1>10. CASE Fill(c)
    <2>1. call[c].pc = "fill" /\ Goto(c, AfterList(c)) /\ file' = file
      BY <1>10 DEF Fill
    <2>2. Settled => AtLeast(call[c].list, settled)
      BY <2>1 DEF Settled
    <2>3. CASE cache' = [list |-> call[c].list, ttl |-> TRUE]
      <3>1. cache' \in [list : List, ttl : BOOLEAN] /\ cache'.list = call[c].list
        BY <1>1, <2>3
      <3>2. AfterList(c) \in MemoryPCs \ {"idle", "select", "write", "invalidate", "load"}
        BY <1>5 DEF MemoryPCs
      <3>3. call' = [call EXCEPT ![c] = [@ EXCEPT !.pc = AfterList(c),
                                                  !.list = call[c].list]]
        BY <1>7, <2>1
      <3> QED
        BY <1>1, <1>6, <2>1, <2>2, <3>1, <3>2, <3>3
    <2>4. CASE UNCHANGED cache
      <3>1. AfterList(c) \in MemoryPCs \ {"idle", "select", "write", "invalidate", "load"}
        BY <1>5 DEF MemoryPCs
      <3>2. call' = [call EXCEPT ![c] = [@ EXCEPT !.pc = AfterList(c),
                                                  !.list = call[c].list]]
        BY <1>7, <2>1
      <3> QED
        BY <1>1, <1>6, <2>1, <2>2, <2>4, <3>1, <3>2 DEF Settled
    <2> QED
      BY <1>10, <2>3, <2>4 DEF Fill
  <1>11. CASE Put(c)
    <2>1. call[c].pc = "put" /\ Goto(c, "load") /\ file' = call[c].list /\ cache' = cache
      BY <1>11 DEF Put
    <2>2. Settled => AtLeast(call[c].list, settled)
      BY <2>1 DEF Settled
    <2>3. /\ "load" \in MemoryPCs \ {"idle", "select", "write", "invalidate"}
          /\ call' = [call EXCEPT ![c] = [@ EXCEPT !.pc = "load", !.list = call[c].list]]
      BY <1>7, <2>1 DEF MemoryPCs
    <2>4. Settled => (cache # Absent => AtLeast(cache.list, settled))
      BY DEF Settled
    <2> QED
      BY <1>1, <1>6, <2>1, <2>2, <2>3, <2>4
  <1>12. CASE Load(c)
    <2>1. call[c].pc = "load" /\ Got(c, "told", file) /\ UNCHANGED <<cache, file>>
      BY <1>12 DEF Load
    <2>2. file \in List /\ (Settled => AtLeast(file, settled))
      BY <2>1 DEF Settled, MemoryIInv, MemoryKinds
    <2> QED
      BY <1>1, <1>6, <2>1, <2>2 DEF Got, MemoryPCs, Settled
  <1>13. CASE Return(c)
    <2>1. call' = [call EXCEPT ![c] = Idle] /\ UNCHANGED <<cache, file>>
      BY <1>13 DEF Return, Finish
    <2> QED
      BY <1>1, <2>1, MemoryIdleCall, MemoryStepKeeps DEF Settled
  <1> QED
    BY <1>8, <1>9, <1>10, <1>11, <1>12, <1>13

LEMMA OtherStepKeeps ==
    ASSUME MemoryIInv, NEW c \in Callers, Select(c) \/ Crash(c) PROVE MemoryIInv'
  <1>1. /\ call[c] \in MemoryCall
        /\ UNCHANGED <<rows, commits, cache, file, settled, calm>>
        /\ cache # Absent => cache \in [list : List, ttl : BOOLEAN]
    BY DEF MemoryIInv, MemoryTyped, Select, Crash
  <1>2. CASE Select(c)
    <2>1. PICK x : x = [call[c] EXCEPT !.found = rows[call[c].key] # 0, !.pc = "write"]
      OBVIOUS
    <2>2. call[c].pc = "select" /\ call' = [call EXCEPT ![c] = x]
      BY <1>2, <2>1 DEF Select
    <2>3. Remembers(call[c]) /\ call[c].kind = "remember" /\ call[c].key \in Keys
      BY <2>2 DEF Remembers, MemoryIInv, MemoryKinds
    <2>4. x \in MemoryCall /\ x.pc = "write" /\ x.kind = call[c].kind /\ x.key = call[c].key
      BY <1>1, <2>1 DEF MemoryCall, MemoryPCs
    <2>5. ~Reads(x)
      BY <2>4 DEF Reads
    <2> QED
      BY <1>1, <2>2, <2>3, <2>4, <2>5, MemoryStepKeeps DEF Settled
  <1>3. CASE Crash(c)
    <2>1. call' = [call EXCEPT ![c] = Idle]
      BY <1>3 DEF Crash, Finish
    <2> QED
      BY <1>1, <2>1, MemoryIdleCall, MemoryStepKeeps DEF Settled
  <1> QED
    BY <1>2, <1>3

LEMMA MemoryNextIInv == MemoryIInv /\ [MemoryNext]_memoryVars => MemoryIInv'
  <1> SUFFICES ASSUME MemoryIInv, [MemoryNext]_memoryVars PROVE MemoryIInv'
    OBVIOUS
  <1>1. CASE UNCHANGED memoryVars
    BY <1>1 DEF memoryVars, MemoryIInv, MemoryTyped, MemoryKinds,
       Committed, Alone, Settled, AtLeast, Active
  <1>2. CASE Expire
    BY <1>2 DEF Expire, MemoryIInv, MemoryTyped, MemoryKinds,
       Committed, Alone, Settled, AtLeast, Active
  <1>3. ASSUME NEW c \in Callers, Begin(c) PROVE MemoryIInv'
    BY <1>3, BeginKeeps
  <1>4. ASSUME NEW c \in Callers, Write(c) \/ Invalidate(c) PROVE MemoryIInv'
    BY <1>4, WriteKeeps, InvalidateKeeps
  <1>5. ASSUME NEW c \in Callers,
               \/ Lookup(c) \/ Read(c) \/ Fill(c)
               \/ Put(c) \/ Load(c) \/ Return(c)
        PROVE  MemoryIInv'
    BY <1>5, ReaderKeeps
  <1>6. ASSUME NEW c \in Callers, Select(c) \/ Crash(c) PROVE MemoryIInv'
    BY <1>6, OtherStepKeeps
  <1> QED
    BY <1>1, <1>2, <1>3, <1>4, <1>5, <1>6 DEF MemoryNext

(* As long as no remember overlaps another call and no deletion of the entry    *)
(* fails, whoever asks after a remember has returned is told that memory or a  *)
(* newer one, for any number of keys, calls and readers side by side.          *)
THEOREM SettledIsRead == MemorySpec => []CalmReadsSettled
  <1>1. MemoryIInv => CalmReadsSettled
    <2> SUFFICES ASSUME MemoryIInv, calm, NEW c \in Callers, call[c].pc = "told", NEW k \in Keys
                 PROVE  call[c].list[k] >= call[c].floor[k]
      BY DEF CalmReadsSettled, ReadsSettled
    <2>1. settled[k] <= call[c].list[k]
      BY DEF MemoryIInv, Settled, AtLeast
    <2>2. call[c].floor[k] <= settled[k]
      BY DEF MemoryIInv, Committed, AtLeast, Reads
    <2>3. settled[k] \in Nat /\ call[c].list[k] \in Nat /\ call[c].floor[k] \in Nat
      BY DEF MemoryIInv, MemoryTyped, MemoryCall, List
    <2> QED
      BY <2>1, <2>2, <2>3
  <1> QED
    BY <1>1, MemoryInitIInv, MemoryNextIInv, PTL DEF MemorySpec

=============================================================================
