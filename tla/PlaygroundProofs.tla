-------------------------- MODULE PlaygroundProofs --------------------------
(***************************************************************************)
(* Proofs about Playground, for any number of generations, messages,       *)
(* pieces and clicks. PlaygroundAnswers goes on from here.                 *)
(*                                                                         *)
(* Lists: what the operators of Playground do to a list of messages, for   *)
(* lists and queues of any length. The recursions are well defined, a      *)
(* queue is applied one updater after the other, and each way to make a    *)
(* new list keeps, drops, appends or replaces known messages.              *)
(*                                                                         *)
(* Control: every request in the air belongs to a generation that has      *)
(* begun, a generation waits in one place at a time, the controller's      *)
(* source and the two flags are those of the current generation, and only  *)
(* generations that are over have been aborted (Ctl). What messages say    *)
(* plays no part in it.                                                    *)
(*                                                                         *)
(* Types and saving: every list the page makes is a list of messages       *)
(* (Types), and what is stored is a list as saving writes it (SaveInv).    *)
(*                                                                         *)
(* Moves: each of the 28 actions does one of sixteen things to the lists,  *)
(* the buffer and the history (MovesCover); what the answers show is then  *)
(* argued move by move.                                                    *)
(***************************************************************************)
EXTENDS Playground, SequenceTheorems, FiniteSetTheorems, InductionLemmas

-----------------------------------------------------------------------------
\* Lists.

\* f is the list after each of the first n updaters of us.
Runs(f, list, us, g, n) ==
    f = [i \in 0 .. n |-> IF i = 0 THEN list
                          ELSE ApplyMessageStateUpdate(f[i - 1], us[i], g)]

LEMMA RunsExist ==
    ASSUME NEW list, NEW us, NEW g
    PROVE  \A n \in Nat : \E f : Runs(f, list, us, g, n)
<1> DEFINE S == {n \in Nat : \E f : Runs(f, list, us, g, n)}
<1>1. 0 \in S
    <2>1. Runs([i \in 0 .. 0 |-> list], list, us, g, 0)
        BY DEF Runs
    <2>2. QED
        BY <2>1
<1>2. ASSUME NEW n \in Nat, n \in S PROVE n + 1 \in S
    <2>1. PICK f : Runs(f, list, us, g, n)
        BY <1>2
    <2> DEFINE h == [i \in 0 .. n + 1 |-> IF i = n + 1
                         THEN ApplyMessageStateUpdate(f[n], us[n + 1], g) ELSE f[i]]
    <2>2. \A i \in 0 .. n : f[i] = IF i = 0 THEN list
                          ELSE ApplyMessageStateUpdate(f[i - 1], us[i], g)
        BY <2>1 DEF Runs
    <2>3. ASSUME NEW i \in 0 .. n + 1
          PROVE  h[i] = IF i = 0 THEN list
                        ELSE ApplyMessageStateUpdate(h[i - 1], us[i], g)
        <3>1. CASE i = n + 1
            <4>1. i # 0 /\ i - 1 = n /\ n \in 0 .. n + 1 /\ n # n + 1
                BY <3>1
            <4>2. h[n] = f[n] /\ h[n + 1] = ApplyMessageStateUpdate(f[n], us[n + 1], g)
                BY <4>1
            <4> HIDE DEF h
            <4>3. QED
                BY <4>1, <4>2, <3>1
        <3>2. CASE i = 0
            BY <3>2, <2>2
        <3>3. CASE i \in 1 .. n
            <4>1. /\ i # 0 /\ i - 1 \in 0 .. n /\ i - 1 # n + 1 /\ i # n + 1
                  /\ i \in 0 .. n /\ i - 1 \in 0 .. n + 1
                BY <3>3
            <4>2. h[i] = f[i] /\ h[i - 1] = f[i - 1]
                BY <4>1
            <4> HIDE DEF h
            <4>3. QED
                BY <4>1, <4>2, <2>2
        <3>4. QED
            BY <3>1, <3>2, <3>3
    <2>4. Runs(h, list, us, g, n + 1)
        <3>1. h = [i \in 0 .. n + 1 |-> h[i]]
            OBVIOUS
        <3> HIDE DEF h
        <3>2. QED
            BY <2>3, <3>1 DEF Runs
    <2> HIDE DEF h
    <2>5. QED
        BY <2>4
<1> HIDE DEF S
<1>3. Nat \subseteq S
    BY <1>1, <1>2, SetInduction
<1>4. QED
    BY <1>3 DEF S

\* The recursive function inside ApplyAll satisfies its own equation.
LEMMA ApplyAllRuns ==
    ASSUME NEW list, NEW us, NEW g, Len(us) \in Nat
    PROVE  \E f : Runs(f, list, us, g, Len(us)) /\ ApplyAll(list, us, g) = f[Len(us)]
<1>1. \E f : f = [i \in 0..Len(us) |-> IF i = 0 THEN list
                          ELSE ApplyMessageStateUpdate(f[i - 1], us[i], g)]
    <2>1. PICK f : Runs(f, list, us, g, Len(us))
        BY RunsExist
    <2>2. QED
        BY <2>1, Zenon DEF Runs
<1> DEFINE a == CHOOSE f : f = [i \in 0..Len(us) |-> IF i = 0 THEN list
                          ELSE ApplyMessageStateUpdate(f[i - 1], us[i], g)]
<1>2. a = [i \in 0..Len(us) |-> IF i = 0 THEN list
                          ELSE ApplyMessageStateUpdate(a[i - 1], us[i], g)]
    BY <1>1
<1>3. ApplyAll(list, us, g) = a[Len(us)]
    BY DEF ApplyAll
<1> HIDE DEF a
<1>4. QED
    BY <1>2, <1>3 DEF Runs

LEMMA RunsStep ==
    ASSUME NEW f, NEW list, NEW us, NEW g, NEW n \in Nat, Runs(f, list, us, g, n)
    PROVE  /\ f[0] = list
           /\ \A i \in 1 .. n : f[i] = ApplyMessageStateUpdate(f[i - 1], us[i], g)
BY DEF Runs

\* Two queues with a common beginning agree on it.
LEMMA RunsAgree ==
    ASSUME NEW list, NEW us, NEW vs, NEW g, NEW k \in Nat, NEW f, NEW h,
           Runs(f, list, us, g, k), Runs(h, list, vs, g, k + 1),
           \A i \in 1 .. k : us[i] = vs[i]
    PROVE  f[k] = h[k]
<1> DEFINE S == {i \in Nat : i <= k => f[i] = h[i]}
<1>1. 0 \in S
    BY RunsStep
<1>2. ASSUME NEW i \in Nat, i \in S PROVE i + 1 \in S
    <2>1. SUFFICES ASSUME i + 1 <= k PROVE f[i + 1] = h[i + 1]
        OBVIOUS
    <2>2. i + 1 \in 1 .. k /\ i + 1 \in 1 .. k + 1 /\ (i + 1) - 1 = i /\ i <= k
        BY <2>1
    <2>3. f[i + 1] = ApplyMessageStateUpdate(f[i], us[i + 1], g)
        BY <2>2, RunsStep
    <2>4. h[i + 1] = ApplyMessageStateUpdate(h[i], vs[i + 1], g)
        BY <2>2, RunsStep
    <2>5. QED
        BY <2>2, <2>3, <2>4, <1>2
<1> HIDE DEF S
<1>3. Nat \subseteq S
    BY <1>1, <1>2, SetInduction
<1>4. QED
    BY <1>3 DEF S

LEMMA ApplyAllEmpty ==
    ASSUME NEW list, NEW g
    PROVE  ApplyAll(list, <<>>, g) = list
<1>1. Len(<<>>) = 0
    OBVIOUS
<1>2. PICK f : Runs(f, list, <<>>, g, Len(<<>>)) /\ ApplyAll(list, <<>>, g) = f[Len(<<>>)]
    BY <1>1, ApplyAllRuns
<1>3. QED
    BY <1>1, <1>2, RunsStep

\* One more updater is applied to what the queue before it left.
LEMMA ApplyAllAppend ==
    ASSUME NEW list, NEW S, NEW us \in Seq(S), NEW u \in S, NEW g
    PROVE  ApplyAll(list, Append(us, u), g)
               = ApplyMessageStateUpdate(ApplyAll(list, us, g), u, g)
<1> DEFINE vs == Append(us, u)
           n == Len(us)
<1>1. /\ n \in Nat /\ Len(vs) = n + 1 /\ vs[n + 1] = u
      /\ \A i \in 1 .. n : us[i] = vs[i]
    BY AppendProperties, LenProperties
<1> HIDE DEF vs, n
<1>2. PICK f : Runs(f, list, us, g, n) /\ ApplyAll(list, us, g) = f[n]
    BY <1>1, ApplyAllRuns DEF n
<1>3. PICK h : Runs(h, list, vs, g, n + 1) /\ ApplyAll(list, vs, g) = h[n + 1]
    BY <1>1, ApplyAllRuns
<1>4. n + 1 \in Nat /\ n + 1 \in 1 .. n + 1 /\ (n + 1) - 1 = n /\ n <= n + 1 /\ n <= n
    BY <1>1
<1>5. h[n + 1] = ApplyMessageStateUpdate(h[n], u, g)
    BY <1>1, <1>3, <1>4, RunsStep
<1>6. f[n] = h[n]
    BY <1>1, <1>2, <1>3, <1>4, RunsAgree
<1>7. QED
    BY <1>2, <1>3, <1>5, <1>6 DEF vs

\* What holds of a list, and what every updater keeps, holds in the end.
LEMMA ApplyAllKeeps ==
    ASSUME NEW T, NEW list \in T, NEW us, Len(us) \in Nat, NEW g,
           \A i \in 1 .. Len(us), l \in T : ApplyMessageStateUpdate(l, us[i], g) \in T
    PROVE  ApplyAll(list, us, g) \in T
<1>1. PICK f : Runs(f, list, us, g, Len(us)) /\ ApplyAll(list, us, g) = f[Len(us)]
    BY ApplyAllRuns
<1> DEFINE S == {i \in Nat : i <= Len(us) => f[i] \in T}
<1>2. 0 \in S
    BY <1>1, RunsStep
<1>3. ASSUME NEW i \in Nat, i \in S PROVE i + 1 \in S
    <2>1. SUFFICES ASSUME i + 1 <= Len(us) PROVE f[i + 1] \in T
        OBVIOUS
    <2>2. i + 1 \in 1 .. Len(us) /\ (i + 1) - 1 = i /\ i <= Len(us)
        BY <2>1
    <2>3. f[i + 1] = ApplyMessageStateUpdate(f[i], us[i + 1], g)
        BY <2>2, <1>1, RunsStep
    <2>4. QED
        BY <2>2, <2>3, <1>3
<1> HIDE DEF S
<1>4. Nat \subseteq S
    BY <1>2, <1>3, SetInduction
<1>5. QED
    BY <1>1, <1>4 DEF S

-----------------------------------------------------------------------------
\* Lists made of the messages of another list, in its order.

Picks(b, a, pos) ==
    /\ pos \in [1 .. Len(b) -> 1 .. Len(a)]
    /\ \A i, j \in 1 .. Len(b) : i < j => pos[i] < pos[j]
    /\ \A j \in 1 .. Len(b) : b[j] = a[pos[j]]

\* What filtering the first n messages leaves: r, taken from places pos.
Filtered(r, list, k, n, pos) ==
    /\ pos \in [1 .. Len(r) -> 1 .. n]
    /\ \A i, j \in 1 .. Len(r) : i < j => pos[i] < pos[j]
    /\ \A j \in 1 .. Len(r) : r[j] = list[pos[j]]
    /\ n # 0 /\ Key(list[n]) # k => Len(r) # 0 /\ r[Len(r)] = list[n]

Filters(f, list, k, n) ==
    f = [i \in 0 .. n |-> IF i = 0 THEN <<>>
                          ELSE IF Key(list[i]) = k THEN f[i - 1]
                          ELSE Append(f[i - 1], list[i])]

LEMMA FiltersExist ==
    ASSUME NEW list, NEW k
    PROVE  \A n \in Nat : \E f : Filters(f, list, k, n)
<1> DEFINE S == {n \in Nat : \E f : Filters(f, list, k, n)}
           Step(l, i) == IF Key(list[i]) = k THEN l ELSE Append(l, list[i])
<1>1. 0 \in S
    <2>1. Filters([i \in 0 .. 0 |-> <<>>], list, k, 0)
        BY DEF Filters
    <2>2. QED
        BY <2>1
<1>2. ASSUME NEW n \in Nat, n \in S PROVE n + 1 \in S
    <2>1. PICK f : Filters(f, list, k, n)
        BY <1>2
    <2> DEFINE h == [i \in 0 .. n + 1 |-> IF i = n + 1 THEN Step(f[n], n + 1) ELSE f[i]]
    <2>2. \A i \in 0 .. n : f[i] = IF i = 0 THEN <<>> ELSE Step(f[i - 1], i)
        BY <2>1 DEF Filters
    <2>3. ASSUME NEW i \in 0 .. n + 1
          PROVE  h[i] = IF i = 0 THEN <<>> ELSE Step(h[i - 1], i)
        <3> HIDE DEF Step
        <3>1. CASE i = n + 1
            <4>1. i # 0 /\ i - 1 = n /\ n \in 0 .. n + 1 /\ n # n + 1
                BY <3>1
            <4>2. h[n] = f[n] /\ h[n + 1] = Step(f[n], n + 1)
                BY <4>1
            <4> HIDE DEF h
            <4>3. QED
                BY <4>1, <4>2, <3>1
        <3>2. CASE i = 0
            BY <3>2, <2>2
        <3>3. CASE i \in 1 .. n
            <4>1. /\ i # 0 /\ i - 1 \in 0 .. n /\ i - 1 # n + 1 /\ i # n + 1
                  /\ i \in 0 .. n /\ i - 1 \in 0 .. n + 1
                BY <3>3
            <4>2. h[i] = f[i] /\ h[i - 1] = f[i - 1]
                BY <4>1
            <4> HIDE DEF h
            <4>3. QED
                BY <4>1, <4>2, <2>2
        <3>4. QED
            BY <3>1, <3>2, <3>3
    <2>4. Filters(h, list, k, n + 1)
        <3>1. h = [i \in 0 .. n + 1 |-> h[i]]
            OBVIOUS
        <3> HIDE DEF h
        <3>2. h = [i \in 0 .. n + 1 |-> IF i = 0 THEN <<>> ELSE Step(h[i - 1], i)]
            BY <2>3, <3>1
        <3>3. QED
            BY <3>2 DEF Filters
    <2> HIDE DEF h
    <2>5. QED
        BY <2>4
<1> HIDE DEF S
<1>3. Nat \subseteq S
    BY <1>1, <1>2, SetInduction
<1>4. QED
    BY <1>3 DEF S

LEMMA RemoveFilters ==
    ASSUME NEW list, NEW k, Len(list) \in Nat
    PROVE  \E f : Filters(f, list, k, Len(list)) /\ RemoveMessageByKey(list, k) = f[Len(list)]
<1>1. \E f : f = [i \in 0..Len(list) |-> IF i = 0 THEN <<>>
                          ELSE IF Key(list[i]) = k THEN f[i - 1]
                          ELSE Append(f[i - 1], list[i])]
    <2>1. PICK f : Filters(f, list, k, Len(list))
        BY FiltersExist
    <2>2. QED
        BY <2>1, Zenon DEF Filters
<1> DEFINE a == CHOOSE f : f = [i \in 0..Len(list) |-> IF i = 0 THEN <<>>
                          ELSE IF Key(list[i]) = k THEN f[i - 1]
                          ELSE Append(f[i - 1], list[i])]
<1>2. a = [i \in 0..Len(list) |-> IF i = 0 THEN <<>>
                          ELSE IF Key(list[i]) = k THEN a[i - 1]
                          ELSE Append(a[i - 1], list[i])]
    BY <1>1
<1>3. RemoveMessageByKey(list, k) = a[Len(list)]
    BY DEF RemoveMessageByKey
<1> HIDE DEF a
<1>4. QED
    BY <1>2, <1>3 DEF Filters

LEMMA FiltersStep ==
    ASSUME NEW f, NEW list, NEW k, NEW n \in Nat, Filters(f, list, k, n)
    PROVE  /\ f[0] = <<>>
           /\ \A i \in 1 .. n : f[i] = IF Key(list[i]) = k THEN f[i - 1]
                                       ELSE Append(f[i - 1], list[i])
<1> DEFINE Step(l, i) == IF Key(list[i]) = k THEN l ELSE Append(l, list[i])
<1>1. f = [i \in 0 .. n |-> IF i = 0 THEN <<>> ELSE Step(f[i - 1], i)]
    BY DEF Filters
<1> HIDE DEF Step
<1>2. f[0] = <<>> /\ \A i \in 1 .. n : f[i] = Step(f[i - 1], i)
    BY <1>1
<1>3. QED
    BY <1>2 DEF Step

\* Deleting keeps the other messages and their order, and the last message
\* unless it is the one deleted.
LEMMA RemovePicks ==
    ASSUME NEW S, NEW list \in Seq(S), NEW k
    PROVE  LET r == RemoveMessageByKey(list, k) IN
           /\ r \in Seq(S)
           /\ \E pos : Picks(r, list, pos)
           /\ list # <<>> /\ Key(list[Len(list)]) # k
              => r # <<>> /\ r[Len(r)] = list[Len(list)]
<1> DEFINE n == Len(list)
<1>1. n \in Nat /\ \A i \in 1 .. n : list[i] \in S
    BY LenProperties, ElementOfSeq
<1>2. PICK f : Filters(f, list, k, n) /\ RemoveMessageByKey(list, k) = f[n]
    BY <1>1, RemoveFilters
<1>3. /\ f[0] = <<>>
      /\ \A i \in 1 .. n : f[i] = IF Key(list[i]) = k THEN f[i - 1]
                                  ELSE Append(f[i - 1], list[i])
    <2> HIDE DEF n
    <2> QED
        BY <1>1, <1>2, FiltersStep
<1> DEFINE T == {i \in Nat : i <= n => /\ f[i] \in Seq(S)
                                       /\ \E pos : Filtered(f[i], list, k, i, pos)}
<1>4. 0 \in T
    <2>1. f[0] \in Seq(S) /\ Len(f[0]) = 0
        BY <1>3
    <2>2. Filtered(f[0], list, k, 0, [j \in 1 .. 0 |-> j])
        BY <2>1 DEF Filtered
    <2>3. QED
        BY <2>1, <2>2
<1>5. ASSUME NEW i \in Nat, i \in T PROVE i + 1 \in T
    <2>1. SUFFICES ASSUME i + 1 <= n
                   PROVE  /\ f[i + 1] \in Seq(S)
                          /\ \E pos : Filtered(f[i + 1], list, k, i + 1, pos)
        OBVIOUS
    <2>2. i + 1 \in 1 .. n /\ (i + 1) - 1 = i /\ i <= n
        BY <2>1, <1>1
    <2>3. f[i] \in Seq(S)
        BY <1>5, <2>2
    <2>4. PICK pos : Filtered(f[i], list, k, i, pos)
        BY <1>5, <2>2
    <2>5. Len(f[i]) \in Nat
        BY <2>3, LenProperties
    <2>6. CASE Key(list[i + 1]) = k
        <3>1. f[i + 1] = f[i]
            BY <1>3, <2>2, <2>6
        <3>2. Filtered(f[i], list, k, i + 1, pos)
            BY <2>4, <2>5, <2>6 DEF Filtered
        <3>3. QED
            BY <3>1, <3>2, <2>3
    <2>7. CASE Key(list[i + 1]) # k
        <3> DEFINE r == f[i]
                   b == Append(r, list[i + 1])
                   m == Len(r)
                   q == [j \in 1 .. m + 1 |-> IF j = m + 1 THEN i + 1 ELSE pos[j]]
        <3>1. f[i + 1] = b
            BY <1>3, <2>2, <2>7
        <3>2. list[i + 1] \in S
            BY <1>1, <2>2
        <3>3. /\ b \in Seq(S) /\ Len(b) = m + 1 /\ b[m + 1] = list[i + 1]
              /\ \A j \in 1 .. m : b[j] = r[j]
            BY <2>3, <3>2, AppendProperties
        <3>4. /\ pos \in [1 .. m -> 1 .. i]
              /\ \A x, y \in 1 .. m : x < y => pos[x] < pos[y]
              /\ \A j \in 1 .. m : r[j] = list[pos[j]]
            BY <2>4 DEF Filtered
        <3>5. m \in Nat
            BY <2>5
        <3> HIDE DEF b, r, m
        <3>6. q \in [1 .. m + 1 -> 1 .. i + 1]
            BY <3>4, <3>5
        <3>7. q[m + 1] = i + 1 /\ \A j \in 1 .. m : q[j] = pos[j] /\ pos[j] \in 1 .. i
            BY <3>4, <3>5
        <3> HIDE DEF q
        <3>8. \A x, y \in 1 .. m + 1 : x < y => q[x] < q[y]
            <4> SUFFICES ASSUME NEW x \in 1 .. m + 1, NEW y \in 1 .. m + 1, x < y
                         PROVE  q[x] < q[y]
                OBVIOUS
            <4>1. x \in 1 .. m
                BY <3>5
            <4>2. CASE y = m + 1
                BY <4>1, <4>2, <3>7
            <4>3. CASE y \in 1 .. m
                BY <4>1, <4>3, <3>4, <3>7
            <4>4. QED
                BY <4>2, <4>3, <3>5
        <3>9. \A j \in 1 .. m + 1 : b[j] = list[q[j]]
            <4> SUFFICES ASSUME NEW j \in 1 .. m + 1 PROVE b[j] = list[q[j]]
                OBVIOUS
            <4>1. CASE j = m + 1
                BY <4>1, <3>3, <3>7
            <4>2. CASE j \in 1 .. m
                BY <4>2, <3>3, <3>4, <3>7
            <4>3. QED
                BY <4>1, <4>2, <3>5
        <3>10. Filtered(b, list, k, i + 1, q)
            BY <3>3, <3>5, <3>6, <3>8, <3>9 DEF Filtered
        <3>11. QED
            BY <3>1, <3>3, <3>10
    <2>8. QED
        BY <2>6, <2>7
<1> HIDE DEF T
<1>6. Nat \subseteq T
    BY <1>4, <1>5, SetInduction
<1>7. f[n] \in Seq(S) /\ \E pos : Filtered(f[n], list, k, n, pos)
    BY <1>1, <1>6 DEF T
<1>8. PICK pos : Filtered(f[n], list, k, n, pos)
    BY <1>7
<1>9. Picks(f[n], list, pos)
    BY <1>8 DEF Filtered, Picks
<1>10. list # <<>> => n # 0
    BY EmptySeq
<1>11. Len(f[n]) # 0 => f[n] # <<>>
    BY EmptySeq
<1>12. list # <<>> /\ Key(list[n]) # k => f[n] # <<>> /\ f[n][Len(f[n])] = list[n]
    BY <1>8, <1>10, <1>11 DEF Filtered
<1>13. QED
    BY <1>2, <1>7, <1>9, <1>12

-----------------------------------------------------------------------------
\* Types of messages, and what each update does to one.

LEMMA TextTypes ==
    /\ NoText \in Texts /\ ReplyText \in Texts
    /\ <<1>> \in Seq(Pieces) /\ <<EditPiece>> \in Seq(Pieces) /\ <<ErrorPiece>> \in Seq(Pieces)
<1>1. 1 \in Pieces /\ EditPiece \in Pieces /\ ErrorPiece \in Pieces
    BY PlaygroundAssumption DEF Pieces, EditPiece, ErrorPiece
<1>2. /\ <<>> \in Seq(Pieces) /\ <<1>> \in Seq(Pieces)
      /\ <<EditPiece>> \in Seq(Pieces) /\ <<ErrorPiece>> \in Seq(Pieces)
    BY <1>1
<1>3. NoText \in Texts
    BY <1>2 DEF NoText, Texts
<1>4. ReplyText \in Texts
    BY <1>2, <1>3 DEF ReplyText, Texts
<1>5. QED
    BY <1>2, <1>3, <1>4

LEMMA NewMessageTypes ==
    ASSUME NEW g \in Gens, NEW image \in BOOLEAN
    PROVE  UserMessage(g, image) \in Messages /\ LoadingAnswer(g) \in Messages
<1>1. [NoText EXCEPT !["content"] = <<1>>] \in Texts
    BY TextTypes DEF ReplyText
<1>2. UserMessage(g, image) \in Messages
    BY <1>1 DEF UserMessage, Messages
<1>3. LoadingAnswer(g) \in Messages
    BY TextTypes DEF LoadingAnswer, Messages
<1>4. QED
    BY <1>2, <1>3

LEMMA AppendableType ==
    ASSUME NEW S, NEW current \in Seq(S), NEW chunk \in Seq(S)
    PROVE  /\ GetAppendableChunk(current, chunk) \in Seq(S)
           /\ MergePendingStreamChunk(current, chunk) \in Seq(S)
<1>1. SubSeq(chunk, Len(current) + 1, Len(chunk)) \in Seq(S)
    <2>1. Len(current) \in Nat /\ Len(chunk) \in Nat
        BY LenProperties
    <2>2. \A i \in Len(current) + 1 .. Len(chunk) : chunk[i] \in S
        BY <2>1, ElementOfSeq
    <2>3. QED
        BY <2>1, <2>2, SubSeqProperties
<1>2. GetAppendableChunk(current, chunk) \in Seq(S)
    BY <1>1 DEF GetAppendableChunk
<1>3. current \o chunk \in Seq(S)
    BY ConcatProperties
<1>4. MergePendingStreamChunk(current, chunk) \in Seq(S)
    BY <1>3 DEF MergePendingStreamChunk
<1>5. QED
    BY <1>2, <1>4

AnswerOps == {"chunks", "answer", "image", "complete", "stopped", "error"}

LEMMA UpdateKinds ==
    ASSUME NEW u \in Updates
    PROVE  \/ u.op = "set" /\ u.list \in Seq(Messages)
           \/ u.op = "remove" /\ u.key \in Keys
           \/ u.op \in AnswerOps /\ u.gen \in Gens /\ (u.op = "chunks" => u.text \in Texts)
BY DEF Updates, AnswerOps

LEMMA UpdateAnswerType ==
    ASSUME NEW m \in Messages, NEW u, u.op \in AnswerOps, u.op = "chunks" => u.text \in Texts
    PROVE  UpdateAnswer(m, u) \in Messages /\ Key(UpdateAnswer(m, u)) = Key(m)
<1>1. m.text \in Texts
    BY DEF Messages
<1>2. [m.text EXCEPT !["content"] = <<ErrorPiece>>] \in Texts
    BY <1>1, TextTypes DEF Texts
<1>3. CASE u.op = "chunks"
    <2> DEFINE t == [c \in Channels |-> m.text[c] \o GetAppendableChunk(m.text[c], u.text[c])]
    <2>1. ASSUME NEW c \in Channels
          PROVE  m.text[c] \o GetAppendableChunk(m.text[c], u.text[c]) \in Seq(Pieces)
        <3>1. m.text[c] \in Seq(Pieces) /\ u.text[c] \in Seq(Pieces)
            BY <1>1, <1>3 DEF Texts
        <3>2. GetAppendableChunk(m.text[c], u.text[c]) \in Seq(Pieces)
            BY <3>1, AppendableType
        <3>3. QED
            BY <3>1, <3>2, ConcatProperties
    <2>2. t \in Texts
        BY <2>1 DEF Texts
    <2> HIDE DEF t
    <2>3. UpdateAnswer(m, u) = IF m.status = "error" THEN m
                               ELSE [m EXCEPT !.status = "streaming", !.text = t]
        BY <1>3 DEF UpdateAnswer, ApplyStreamingChunks, t
    <2>4. QED
        BY <2>2, <2>3 DEF Messages, Key
<1>4. CASE u.op \in {"complete", "stopped"}
    BY <1>4 DEF UpdateAnswer, CompleteAssistantMessage, Messages, Key
<1>5. CASE u.op = "answer"
    BY <1>5, TextTypes DEF UpdateAnswer, CompleteAssistantMessage, Messages, Key
<1>6. CASE u.op = "image"
    BY <1>6 DEF UpdateAnswer, Messages, Key
<1>7. CASE u.op = "error"
    <2>1. UpdateAnswer(m, u) = [m EXCEPT !.status = "error",
                                         !.text = [m.text EXCEPT !["content"] = <<ErrorPiece>>]]
        BY <1>7 DEF UpdateAnswer, Messages
    <2>2. QED
        BY <2>1, <1>2 DEF Messages, Key
<1>8. QED
    BY <1>3, <1>4, <1>5, <1>6, <1>7 DEF AnswerOps

-----------------------------------------------------------------------------
\* The lists each operation makes, message by message.

LEMMA UpdateLastElements ==
    ASSUME NEW list \in Seq(Messages), NEW u, u.op \in AnswerOps,
           u.op = "chunks" => u.text \in Texts
    PROVE  LET r == UpdateLastAssistantMessage(list, u)
               n == Len(list)
           IN  /\ r \in Seq(Messages) /\ Len(r) = n
               /\ \A i \in 1 .. n : i # n => r[i] = list[i]
               /\ list # <<>> => r[n] = IF IsAnswer(list[n]) THEN UpdateAnswer(list[n], u)
                                        ELSE list[n]
<1> DEFINE n == Len(list)
<1>1. n \in Nat
    BY LenProperties
<1>2. CASE list = <<>> \/ ~IsAnswer(list[n])
    BY <1>1, <1>2 DEF UpdateLastAssistantMessage
<1>3. CASE list # <<>> /\ IsAnswer(list[n])
    <2>1. n \in 1 .. n
        BY <1>1, <1>3, EmptySeq
    <2>2. list[n] \in Messages
        BY <2>1, ElementOfSeq
    <2>3. UpdateAnswer(list[n], u) \in Messages
        BY <2>2, UpdateAnswerType
    <2>4. UpdateLastAssistantMessage(list, u) = [list EXCEPT ![n] = UpdateAnswer(list[n], u)]
        BY <1>3 DEF UpdateLastAssistantMessage
    <2>5. QED
        BY <2>1, <2>3, <2>4, <1>3, ExceptSeq
<1>4. QED
    BY <1>2, <1>3

LEMMA ApplyUpdateType ==
    ASSUME NEW list \in Seq(Messages), NEW u \in Updates, NEW g
    PROVE  ApplyMessageStateUpdate(list, u, g) \in Seq(Messages)
<1>1. CASE u.op = "set"
    BY <1>1, UpdateKinds DEF ApplyMessageStateUpdate, AnswerOps
<1>2. CASE u.op = "remove"
    BY <1>2, RemovePicks DEF ApplyMessageStateUpdate
<1>3. CASE u.op \in AnswerOps
    <2>1. u.op = "chunks" => u.text \in Texts
        BY <1>3, UpdateKinds DEF AnswerOps
    <2>2. UpdateLastAssistantMessage(list, u) \in Seq(Messages)
        BY <1>3, <2>1, UpdateLastElements
    <2>3. QED
        BY <1>3, <2>2 DEF ApplyMessageStateUpdate, AnswerOps
<1>4. QED
    BY <1>1, <1>2, <1>3, UpdateKinds

LEMMA ApplyAllType ==
    ASSUME NEW list \in Seq(Messages), NEW us \in Seq(Updates), NEW g
    PROVE  ApplyAll(list, us, g) \in Seq(Messages)
<1> DEFINE T == Seq(Messages)
<1>1. Len(us) \in Nat /\ \A i \in 1 .. Len(us) : us[i] \in Updates
    BY LenProperties, ElementOfSeq
<1>2. \A i \in 1 .. Len(us), l \in T : ApplyMessageStateUpdate(l, us[i], g) \in T
    BY <1>1, ApplyUpdateType
<1>3. list \in T
    OBVIOUS
<1> HIDE DEF T
<1>4. ApplyAll(list, us, g) \in T
    BY <1>1, <1>2, <1>3, ApplyAllKeeps
<1>5. QED
    BY <1>4 DEF T

LEMMA ConcatTwo ==
    ASSUME NEW S, NEW s \in Seq(S), NEW x \in S, NEW y \in S, NEW r, r = s \o <<x, y>>
    PROVE  /\ r \in Seq(S) /\ Len(s) \in Nat /\ Len(r) = Len(s) + 2
           /\ \A i \in 1 .. Len(s) : r[i] = s[i]
           /\ r[Len(s) + 1] = x /\ r[Len(s) + 2] = y
OBVIOUS

LEMMA ConcatOne ==
    ASSUME NEW S, NEW s \in Seq(S), NEW x \in S, NEW r, r = s \o <<x>>
    PROVE  /\ r \in Seq(S) /\ Len(s) \in Nat /\ Len(r) = Len(s) + 1
           /\ \A i \in 1 .. Len(s) : r[i] = s[i]
           /\ r[Len(s) + 1] = x
OBVIOUS

LEMMA PairElements ==
    ASSUME NEW list \in Seq(Messages), NEW g \in Gens, NEW image \in BOOLEAN
    PROVE  LET r == AppendUserMessagePair(list, g, image)
               n == Len(list)
           IN  /\ r \in Seq(Messages) /\ n \in Nat /\ Len(r) = n + 2
               /\ \A i \in 1 .. n : r[i] = list[i]
               /\ r[n + 1] = UserMessage(g, image) /\ r[n + 2] = LoadingAnswer(g)
<1> DEFINE r == AppendUserMessagePair(list, g, image)
<1>1. UserMessage(g, image) \in Messages /\ LoadingAnswer(g) \in Messages
    BY NewMessageTypes
<1>2. r = list \o <<UserMessage(g, image), LoadingAnswer(g)>>
    BY DEF AppendUserMessagePair
<1> HIDE DEF r
<1>3. /\ r \in Seq(Messages) /\ Len(list) \in Nat /\ Len(r) = Len(list) + 2
      /\ \A i \in 1 .. Len(list) : r[i] = list[i]
      /\ r[Len(list) + 1] = UserMessage(g, image) /\ r[Len(list) + 2] = LoadingAnswer(g)
    BY <1>1, <1>2, ConcatTwo
<1>4. QED
    BY <1>3 DEF r

\* Regenerating keeps the messages before an answer, or up to a question.
LEMMA RegeneratedElements ==
    ASSUME NEW list \in Seq(Messages), NEW i \in 1 .. Len(list), NEW g \in Gens
    PROVE  LET r == CreateRegeneratedMessages(list, i, g) IN
           \E n \in 0 .. Len(list) :
               /\ n = IF IsAnswer(list[i]) THEN i - 1 ELSE i
               /\ r \in Seq(Messages) /\ Len(r) = n + 1
               /\ \A j \in 1 .. n : r[j] = list[j]
               /\ r[n + 1] = LoadingAnswer(g)
<1> DEFINE n == IF IsAnswer(list[i]) THEN i - 1 ELSE i
           a == SubSeq(list, 1, n)
           r == CreateRegeneratedMessages(list, i, g)
<1>1. Len(list) \in Nat /\ n \in 0 .. Len(list)
    BY LenProperties
<1>2. LoadingAnswer(g) \in Messages
    <2>1. TRUE \in BOOLEAN
        OBVIOUS
    <2>2. QED
        BY <2>1, NewMessageTypes
<1>3. r = a \o <<LoadingAnswer(g)>>
    BY DEF CreateRegeneratedMessages
<1> HIDE DEF n, r
<1>4. \A j \in 1 .. n : list[j] \in Messages
    BY <1>1, ElementOfSeq
<1>5. a \in Seq(Messages) /\ Len(a) = n /\ \A j \in 1 .. n : a[j] = list[j]
    <2>1. 1 \in Int /\ n \in Int
        BY <1>1
    <2>2. /\ a \in Seq(Messages) /\ Len(a) = IF 1 <= n THEN n - 1 + 1 ELSE 0
          /\ \A j \in 1 .. n - 1 + 1 : a[j] = list[1 + j - 1]
        BY <2>1, <1>4, SubSeqProperties
    <2>3. n - 1 + 1 = n /\ \A j \in 1 .. n : 1 + j - 1 = j
        BY <1>1
    <2>4. QED
        BY <1>1, <2>2, <2>3
<1> HIDE DEF a
<1>6. /\ r \in Seq(Messages) /\ Len(r) = Len(a) + 1
      /\ \A j \in 1 .. Len(a) : r[j] = a[j]
      /\ r[Len(a) + 1] = LoadingAnswer(g)
    BY <1>2, <1>3, <1>5, ConcatOne
<1>7. QED
    BY <1>1, <1>5, <1>6 DEF n, r

LEMMA EditElements ==
    ASSUME NEW list \in Seq(Messages), NEW i \in 1 .. Len(list)
    PROVE  LET r == EditMessage(list, i) IN
           /\ r \in Seq(Messages) /\ Len(r) = Len(list)
           /\ \A j \in 1 .. Len(list) : j # i => r[j] = list[j]
           /\ r[i] = [list[i] EXCEPT !.text = [list[i].text EXCEPT !["content"] = <<EditPiece>>]]
<1> DEFINE e == [list[i] EXCEPT !.text = [list[i].text EXCEPT !["content"] = <<EditPiece>>]]
<1>1. list[i] \in Messages
    BY ElementOfSeq
<1>2. [list[i].text EXCEPT !["content"] = <<EditPiece>>] \in Texts
    BY <1>1, TextTypes DEF Messages, Texts
<1>3. e \in Messages
    BY <1>1, <1>2 DEF Messages
<1>4. EditMessage(list, i) = [list EXCEPT ![i] = e]
    BY DEF EditMessage
<1> HIDE DEF e
<1>5. QED
    BY <1>3, <1>4, ExceptSeq DEF e

-----------------------------------------------------------------------------
\* Saving and loading.

LEMMA TrimElements ==
    ASSUME NEW S, NEW list \in Seq(S)
    PROVE  LET r == TrimMessages(list) IN
           /\ r \in Seq(S) /\ Len(r) \in Nat /\ Len(r) <= MaxStored
           /\ \E d \in Nat : Len(list) = d + Len(r) /\ \A j \in 1 .. Len(r) : r[j] = list[d + j]
           /\ Len(list) <= MaxStored => r = list
<1> DEFINE n == Len(list)
           first == IF n > MaxStored THEN n - MaxStored + 1 ELSE 1
           r == TrimMessages(list)
<1>1. n \in Nat /\ MaxStored \in Nat /\ MaxStored # 0 /\ \A i \in 1 .. n : list[i] \in S
    BY PlaygroundAssumption, LenProperties, ElementOfSeq
<1>2. r = SubSeq(list, first, n)
    BY DEF TrimMessages
<1> HIDE DEF n, r
<1>3. first \in Nat /\ first >= 1 /\ first <= n + 1
    BY <1>1
<1>4. \A i \in first .. n : list[i] \in S
    BY <1>1, <1>3
<1> DEFINE d == first - 1
           k == n - d
<1>5. /\ d \in Nat /\ k \in Nat /\ n = d + k /\ k <= MaxStored
      /\ n <= MaxStored => d = 0
    BY <1>1
<1>6. /\ k = IF first <= n THEN n - first + 1 ELSE 0
      /\ k = n - first + 1
      /\ \A j \in 1 .. k : first + j - 1 = d + j
    BY <1>1, <1>3
<1> HIDE DEF d, k, first
<1>7. /\ r \in Seq(S)
      /\ Len(r) = IF first <= n THEN n - first + 1 ELSE 0
      /\ \A j \in 1 .. n - first + 1 : r[j] = list[first + j - 1]
    BY <1>1, <1>2, <1>3, <1>4, SubSeqProperties
<1>8. Len(r) = k /\ \A j \in 1 .. k : r[j] = list[d + j]
    BY <1>6, <1>7
<1>9. ASSUME n <= MaxStored PROVE r = list
    <2>1. Len(r) = Len(list) /\ \A j \in 1 .. Len(r) : r[j] = list[j]
        BY <1>5, <1>8, <1>9 DEF n
    <2>2. QED
        BY <1>7, <2>1, SeqEqual
<1>10. QED
    BY <1>5, <1>7, <1>8, <1>9 DEF n, r

LEMMA SavedElements ==
    ASSUME NEW list \in Seq(Messages)
    PROVE  LET r == Saved(list) IN
           /\ r \in Seq(Messages) /\ Len(r) \in Nat /\ Len(r) <= MaxStored
           /\ \E d \in Nat :
                  /\ Len(list) = d + Len(r)
                  /\ \A j \in 1 .. Len(r) : r[j] = Serializable(list[d + j])
           /\ (Len(list) <= MaxStored /\ \A j \in 1 .. Len(list) : ~list[j].image) => r = list
<1> DEFINE t == TrimMessages(list)
           r == Saved(list)
<1>1. /\ t \in Seq(Messages) /\ Len(t) \in Nat /\ Len(t) <= MaxStored
      /\ \E d \in Nat : Len(list) = d + Len(t) /\ \A j \in 1 .. Len(t) : t[j] = list[d + j]
      /\ Len(list) <= MaxStored => t = list
    BY TrimElements
<1>2. r = [i \in 1 .. Len(t) |-> Serializable(t[i])]
    BY DEF Saved
<1> HIDE DEF r, t
<1>3. \A i \in 1 .. Len(t) : t[i] \in Messages
    BY <1>1, ElementOfSeq
<1>4. \A m \in Messages : Serializable(m) \in Messages /\ (~m.image => Serializable(m) = m)
    BY DEF Messages, Serializable
<1>5. \A i \in 1 .. Len(t) : Serializable(t[i]) \in Messages
    BY <1>3, <1>4
<1>6. r \in Seq(Messages) /\ Len(r) = Len(t) /\ \A i \in 1 .. Len(t) : r[i] = Serializable(t[i])
    BY <1>1, <1>2, <1>5
<1>7. ASSUME Len(list) <= MaxStored, \A j \in 1 .. Len(list) : ~list[j].image
      PROVE  r = list
    <2>1. t = list
        BY <1>1, <1>7
    <2>2. Len(r) = Len(list) /\ \A i \in 1 .. Len(r) : r[i] = list[i]
        BY <2>1, <1>3, <1>4, <1>6, <1>7
    <2>3. QED
        BY <1>6, <2>2, SeqEqual
<1>8. PICK d \in Nat : Len(list) = d + Len(t) /\ \A j \in 1 .. Len(t) : t[j] = list[d + j]
    BY <1>1
<1>9. Len(list) = d + Len(r) /\ \A j \in 1 .. Len(r) : r[j] = Serializable(list[d + j])
    BY <1>6, <1>8
<1>10. QED
    BY <1>1, <1>6, <1>7, <1>9 DEF r

\* Saving what was saved changes nothing.
LEMMA SavedTwice ==
    ASSUME NEW list \in Seq(Messages)
    PROVE  Saved(Saved(list)) = Saved(list)
<1> DEFINE r == Saved(list)
<1>1. r \in Seq(Messages) /\ Len(r) <= MaxStored
    BY SavedElements
<1>2. PICK d \in Nat : Len(list) = d + Len(r) /\ \A j \in 1 .. Len(r) : r[j] = Serializable(list[d + j])
    BY SavedElements
<1>3. \A j \in 1 .. Len(r) : ~r[j].image
    <2> SUFFICES ASSUME NEW j \in 1 .. Len(r) PROVE ~r[j].image
        OBVIOUS
    <2>1. d + j \in 1 .. Len(list)
        BY <1>1, <1>2, LenProperties
    <2>2. list[d + j] \in Messages
        BY <2>1, ElementOfSeq
    <2>3. QED
        BY <1>2, <2>2 DEF Serializable, Messages
<1> HIDE DEF r
<1>4. Saved(r) = r
    BY <1>1, <1>3, SavedElements
<1>5. QED
    BY <1>4 DEF r

LEMMA GreatestExists ==
    ASSUME NEW n \in Nat, NEW A, A \subseteq 1 .. n, A # {}
    PROVE  \E i \in A : \A j \in A : j <= i
<1> DEFINE S == {k \in Nat : (A \cap 1 .. k) # {} =>
                                 \E i \in A \cap 1 .. k : \A j \in A \cap 1 .. k : j <= i}
<1>1. 0 \in S
    OBVIOUS
<1>2. ASSUME NEW k \in Nat, k \in S PROVE k + 1 \in S
    <2>1. CASE k + 1 \in A
        BY <2>1
    <2>2. CASE k + 1 \notin A
        <3>1. A \cap 1 .. k + 1 = A \cap 1 .. k
            BY <2>2
        <3>2. QED
            BY <3>1, <1>2
    <2>3. QED
        BY <2>1, <2>2
<1> HIDE DEF S
<1>3. n \in S
    BY <1>1, <1>2, SetInduction
<1>4. A \cap 1 .. n = A
    OBVIOUS
<1>5. QED
    BY <1>3, <1>4 DEF S

Failed(m) ==
    [m EXCEPT !.status = "error", !.text = [m.text EXCEPT !["content"] = <<ErrorPiece>>]]

LEMMA NormalizeType ==
    ASSUME NEW m \in Messages
    PROVE  /\ NormalizeStoredMessageForLoad(m) \in Messages /\ Failed(m) \in Messages
           /\ Key(NormalizeStoredMessageForLoad(m)) = Key(m) /\ Key(Failed(m)) = Key(m)
<1>1. [m.text EXCEPT !["content"] = <<ErrorPiece>>] \in Texts
    BY TextTypes DEF Messages, Texts
<1>2. QED
    BY <1>1 DEF NormalizeStoredMessageForLoad, CompleteAssistantMessage, Failed, Key, Messages

\* Only the last answer that still waits is marked as failed.
LEMMA SanitizeElements ==
    ASSUME NEW list \in Seq(Messages)
    PROVE  LET r == SanitizeMessagesOnLoad(list) IN
           /\ r \in Seq(Messages) /\ Len(r) = Len(list)
           /\ \A j \in 1 .. Len(list) :
                  \/ /\ r[j] = list[j]
                     /\ IsPending(list[j]) => \E k \in j + 1 .. Len(list) : IsPending(list[k])
                  \/ r[j] = Failed(list[j])
<1> DEFINE stuck == {i \in 1..Len(list) : IsPending(list[i])}
           target == CHOOSE i \in stuck : \A j \in stuck : j <= i
           r == SanitizeMessagesOnLoad(list)
<1>1. Len(list) \in Nat
    BY LenProperties
<1>2. CASE stuck = {}
    <2>1. r = list
        BY <1>2 DEF SanitizeMessagesOnLoad
    <2>2. QED
        BY <1>2, <2>1
<1>3. CASE stuck # {}
    <2>1. \E i \in stuck : \A j \in stuck : j <= i
        <3>1. stuck \subseteq 1 .. Len(list)
            OBVIOUS
        <3> HIDE DEF stuck
        <3>2. QED
            BY <1>1, <1>3, <3>1, GreatestExists
    <2>2. target \in stuck /\ \A j \in stuck : j <= target
        <3> HIDE DEF stuck
        <3> QED
            BY <2>1
    <2>3. target \in 1 .. Len(list)
        BY <2>2
    <2>4. list[target] \in Messages
        BY <2>3, ElementOfSeq
    <2>5. Failed(list[target]) \in Messages
        BY <2>4, NormalizeType
    <2>6. r = [list EXCEPT ![target] = Failed(list[target])]
        <3>1. r = [list EXCEPT ![target].status = "error",
                               ![target].text["content"] = <<ErrorPiece>>]
            BY <1>3 DEF SanitizeMessagesOnLoad
        <3> HIDE DEF target, r, stuck
        <3>2. QED
            BY <3>1, <2>3, <2>4 DEF Failed, Messages
    <2> HIDE DEF target, r
    <2>7. /\ r \in Seq(Messages) /\ Len(r) = Len(list)
          /\ \A j \in 1 .. Len(list) : r[j] = IF j = target THEN Failed(list[target]) ELSE list[j]
        BY <2>3, <2>5, <2>6, ExceptSeq
    <2>8. ASSUME NEW j \in 1 .. Len(list), j # target, IsPending(list[j])
          PROVE  target \in j + 1 .. Len(list) /\ IsPending(list[target])
        <3>1. j \in stuck /\ target \in stuck
            BY <2>2, <2>8
        <3>2. j <= target
            BY <2>2, <3>1
        <3>3. QED
            BY <3>1, <3>2, <2>3, <2>8, <1>1
    <2>9. QED
        BY <2>7, <2>8 DEF r
<1>4. QED
    BY <1>2, <1>3

\* A loaded list is the end of the stored one: finished answers are the
\* same, answers that had begun are complete, the last one without text has
\* failed.
LEMMA LoadedElements ==
    ASSUME NEW list \in Seq(Messages)
    PROVE  LET r == Loaded(list)
               N(m) == NormalizeStoredMessageForLoad(m)
           IN
           /\ r \in Seq(Messages)
           /\ \E d \in Nat :
                  /\ Len(list) = d + Len(r)
                  /\ \A j \in 1 .. Len(r) :
                         \/ /\ r[j] = N(list[d + j])
                            /\ IsPending(r[j])
                               => \E k \in j + 1 .. Len(r) : IsPending(N(list[d + k]))
                         \/ r[j] = Failed(N(list[d + j]))
<1> DEFINE N(m) == NormalizeStoredMessageForLoad(m)
           a == [i \in 1..Len(list) |-> N(list[i])]
           t == TrimMessages(a)
           r == Loaded(list)
<1>1. Len(list) \in Nat /\ \A i \in 1 .. Len(list) : list[i] \in Messages
    BY LenProperties, ElementOfSeq
<1>2. \A i \in 1 .. Len(list) : N(list[i]) \in Messages
    BY <1>1, NormalizeType
<1>3. r = SanitizeMessagesOnLoad(t)
    BY DEF Loaded
<1> HIDE DEF N
<1>4. a \in Seq(Messages) /\ Len(a) = Len(list) /\ \A i \in 1 .. Len(list) : a[i] = N(list[i])
    BY <1>1, <1>2
<1> HIDE DEF a, r
<1>5. /\ t \in Seq(Messages) /\ Len(t) \in Nat
      /\ \E d \in Nat : Len(a) = d + Len(t) /\ \A j \in 1 .. Len(t) : t[j] = a[d + j]
    BY <1>4, TrimElements
<1> HIDE DEF t
<1>6. /\ r \in Seq(Messages) /\ Len(r) = Len(t)
      /\ \A j \in 1 .. Len(t) :
             \/ /\ r[j] = t[j]
                /\ IsPending(t[j]) => \E k \in j + 1 .. Len(t) : IsPending(t[k])
             \/ r[j] = Failed(t[j])
    BY <1>3, <1>5, SanitizeElements
<1>7. PICK d \in Nat : Len(a) = d + Len(t) /\ \A j \in 1 .. Len(t) : t[j] = a[d + j]
    BY <1>5
<1>8. \A j \in 1 .. Len(t) : d + j \in 1 .. Len(list) /\ t[j] = N(list[d + j])
    BY <1>4, <1>5, <1>7
<1>9. ASSUME NEW j \in 1 .. Len(r)
      PROVE  \/ /\ r[j] = N(list[d + j])
                /\ IsPending(r[j])
                   => \E k \in j + 1 .. Len(r) : IsPending(N(list[d + k]))
             \/ r[j] = Failed(N(list[d + j]))
    <2>1. j \in 1 .. Len(t) /\ t[j] = N(list[d + j])
        BY <1>6, <1>8
    <2>2. \A k \in j + 1 .. Len(t) : t[k] = N(list[d + k])
        BY <1>5, <1>8
    <2>3. QED
        BY <1>6, <2>1, <2>2
<1>10. Len(list) = d + Len(r)
    BY <1>4, <1>6, <1>7
<1>11. QED
    BY <1>6, <1>9, <1>10 DEF r, N

-----------------------------------------------------------------------------
\* Control.

Ctl ==
    /\ generation \in Nat
    /\ headers \subseteq 1 .. generation /\ requests \subseteq 1 .. generation
    /\ headers \cap requests = {}
    /\ source = None \/ (source = generation /\ generation # 0)
    /\ source \notin headers \cup requests
    /\ abortRef = None \/ abortRef \in 1 .. generation
    /\ \A g \in aborted : g \in Nat /\ g < generation
    /\ isStreaming <=> source = generation
    /\ isRequesting <=> generation \in headers \cup requests \cup {source}
    /\ mounted \/ ~isRequesting

LEMMA InitCtl == Init => Ctl
<1> SUFFICES ASSUME Init PROVE Ctl
    OBVIOUS
<1>1. /\ generation = 0 /\ source = -1 /\ abortRef = -1
      /\ headers = {} /\ requests = {} /\ aborted = {}
      /\ ~isStreaming /\ ~isRequesting /\ mounted
    BY DEF Init, None
<1>2. source # generation /\ source = None /\ abortRef = None
    BY <1>1 DEF None
<1>3. QED
    BY <1>1, <1>2 DEF Ctl

\* A step that leaves the requests and the flags alone.
LEMMA CtlUntouched ==
    ASSUME Ctl, UNCHANGED <<requestVars, flagVars, generation, mounted>>
    PROVE  Ctl'
BY DEF Ctl, requestVars, flagVars

\* A new request takes over from whatever ran before.
LEMMA StartGenerationCtl ==
    ASSUME Ctl, StartGeneration(generation + 1)
    PROVE  /\ generation' = generation + 1 /\ generation' \in Nat
           /\ generation' \notin headers \cup requests
           /\ headers \subseteq 1 .. generation' /\ requests \subseteq 1 .. generation'
           /\ \A g \in aborted' : g \in Nat /\ g < generation'
           /\ source' = None /\ ~isStreaming'
<1>1. generation' = generation + 1 /\ generation \in Nat /\ source' = None /\ ~isStreaming'
    BY DEF Ctl, StartGeneration
<1>2. /\ generation' \notin headers \cup requests
      /\ headers \subseteq 1 .. generation' /\ requests \subseteq 1 .. generation'
    BY <1>1 DEF Ctl
<1>3. \A g \in aborted' : g \in Nat /\ g < generation'
    BY <1>1 DEF Ctl, StartGeneration, Abort, None
<1>4. QED
    BY <1>1, <1>2, <1>3

LEMMA SendChatCtl ==
    ASSUME Ctl, mounted', SendChat(generation + 1)
    PROVE  Ctl'
<1>1. CASE SendStreamingChat(generation + 1)
    <2>1. StartGeneration(generation + 1)
        BY <1>1 DEF SendStreamingChat
    <2>2. QED
        BY <1>1, <2>1, StartGenerationCtl DEF Ctl, SendChat, SendStreamingChat, None
<1>2. CASE SendRequest(generation + 1)
    <2>1. StartGeneration(generation + 1)
        BY <1>2 DEF SendRequest
    <2>2. QED
        BY <1>2, <2>1, StartGenerationCtl DEF Ctl, SendChat, SendRequest, None
<1>3. QED
    BY <1>1, <1>2 DEF SendChat

\* One step for each action.
LEMMA NextCtl == Ctl /\ [Next]_vars => Ctl'
<1> SUFFICES ASSUME Ctl, [Next]_vars PROVE Ctl'
    OBVIOUS
<1> USE DEF None, Gens
<1>1. ASSUME NEW g \in Gens, HeadersReady(g)
      PROVE  Ctl'
    BY <1>1 DEF Ctl, HeadersReady, requestVars, flagVars, pageVars
<1>2. ASSUME NEW g \in Gens, HeadersFail(g)
      PROVE  Ctl'
    BY <1>2 DEF Ctl, EndGeneration, HeadersFail, requestVars, flagVars, pageVars
<1>3. ASSUME NEW g \in Gens, NEW c \in Channels, StreamMessage(g, c)
      PROVE  Ctl'
    BY <1>3, CtlUntouched DEF StreamMessage, requestVars, flagVars, pageVars
<1>4. ASSUME NEW g \in Gens, StreamDone(g)
      PROVE  Ctl'
    BY <1>4 DEF Ctl, IsCurrent, CloseActiveSource, EndGeneration, StreamDone,
       requestVars, flagVars, pageVars
<1>5. ASSUME NEW g \in Gens, StreamError(g)
      PROVE  Ctl'
    BY <1>5 DEF Ctl, IsCurrent, CloseActiveSource, EndGeneration, StreamError,
       requestVars, flagVars, pageVars
<1>6. ASSUME NEW g \in Gens, StreamSilentlyCloses(g)
      PROVE  Ctl'
    BY <1>6 DEF Ctl, IsCurrent, StreamSilentlyCloses, requestVars, flagVars, pageVars
<1>7. ASSUME NEW g \in Gens, ReplyArrives(g)
      PROVE  Ctl'
    BY <1>7 DEF Ctl, ReplyCounts, ReplyArrives, requestVars, flagVars, pageVars
<1>8. ASSUME NEW g \in Gens, ReplyFails(g)
      PROVE  Ctl'
    BY <1>8 DEF Ctl, ReplyCounts, EndGeneration, ReplyFails, requestVars, flagVars,
       pageVars
<1>9. CASE Render
    BY <1>9, CtlUntouched DEF Render, requestVars, flagVars, pageVars
<1>10. CASE FlushTimer
    BY <1>10, CtlUntouched DEF FlushTimer, requestVars, flagVars, pageVars
<1>11. CASE SubmitContinues
    BY <1>11, SendChatCtl DEF SubmitContinues, UserMayAct, pageVars
<1>12. CASE SubmitFails
    BY <1>12, CtlUntouched DEF SubmitFails, requestVars, flagVars, pageVars
<1>l. CASE LateSubmit
    BY <1>l, CtlUntouched DEF LateSubmit, requestVars, flagVars, pageVars
<1>13. CASE SendMessage
    BY <1>13, SendChatCtl DEF SendMessage, UserMayAct, pageVars
<1>14. CASE StopGeneration
    BY <1>14, StartGenerationCtl DEF Ctl, StopGeneration, pageVars
<1>15. ASSUME NEW i \in 1 .. Len(messages), RegenerateMessage(i)
      PROVE  Ctl'
    BY <1>15, SendChatCtl DEF RegenerateMessage, UserMayAct, pageVars
<1>16. ASSUME NEW i \in 1 .. Len(messages), DeleteMessage(i)
      PROVE  Ctl'
    BY <1>16, CtlUntouched DEF DeleteMessage, requestVars, flagVars, pageVars
<1>17. ASSUME NEW i \in 1 .. Len(messages), OpenEditor(i)
      PROVE  Ctl'
    BY <1>17, CtlUntouched DEF OpenEditor, requestVars, flagVars, pageVars
<1>18. ASSUME NEW i \in 1 .. Len(messages), ApplyEdit(i)
      PROVE  Ctl'
    BY <1>18, CtlUntouched DEF ApplyEdit, requestVars, flagVars, pageVars
<1>19. ASSUME NEW i \in 1 .. Len(messages), ApplyEditAndSubmit(i)
      PROVE  Ctl'
    BY <1>19, SendChatCtl DEF ApplyEditAndSubmit, UserMayAct, pageVars
<1>20. CASE HandleSubmit
    BY <1>20, CtlUntouched DEF HandleSubmit, requestVars, flagVars, pageVars
<1>21. CASE CloseEditor
    BY <1>21, CtlUntouched DEF CloseEditor, requestVars, flagVars, pageVars
<1>22. CASE OpenClearDialog
    BY <1>22, CtlUntouched DEF OpenClearDialog, requestVars, flagVars, pageVars
<1>23. CASE CloseClearDialog
    BY <1>23, CtlUntouched DEF CloseClearDialog, requestVars, flagVars, pageVars
<1>24. CASE ClearMessages
    BY <1>24, CtlUntouched DEF ClearMessages, requestVars, flagVars, pageVars
<1>25. CASE Mount
    BY <1>25 DEF Ctl, LoadPage, Mount, requestVars, flagVars, pageVars
<1>26. CASE Reload
    BY <1>26 DEF Ctl, LoadPage, Reload, requestVars, flagVars, pageVars
<1>27. CASE Unmount
    BY <1>27, StartGenerationCtl DEF Ctl, Unmount, pageVars
<1>28. CASE SaveTimerFires
    BY <1>28, CtlUntouched DEF SaveTimerFires, requestVars, flagVars, pageVars
<1>29. CASE UNCHANGED vars
    BY <1>29, CtlUntouched DEF vars, pageVars
<1>30. CASE Counted
    BY <1>30, <1>15, <1>16, <1>17, <1>18, <1>19, <1>20, <1>21, <1>22, <1>23, <1>24,
       <1>25, <1>26, <1>27, <1>28 DEF Counted, UserStep, MessageStep
<1>31. CASE Uncounted
    BY <1>31, <1>1, <1>2, <1>3, <1>4, <1>5, <1>6, <1>7, <1>8, <1>9, <1>10, <1>11,
       <1>12, <1>l, <1>13, <1>14 DEF Uncounted, PageStep, StreamStep, ReplyStep
<1>32. QED
    BY <1>29, <1>30, <1>31 DEF Next

\* The page says it is generating exactly while the current generation waits for
\* headers, a reply or its stream, in every conversation of any length, whatever
\* is sent, stopped, answered late or reloaded (useChatHandler, the latest-wins
\* controller of useStreamRequest).
THEOREM BusyMeansWorkCorrect == Spec => []BusyMeansWork
<1>1. Ctl => BusyMeansWork
    BY DEF Ctl, BusyMeansWork, Stoppable
<1>2. QED
    BY <1>1, InitCtl, NextCtl, PTL DEF Spec

-----------------------------------------------------------------------------
\* Types. A queue and a chunk buffer are empty before the first request.

ListTypes ==
    /\ messages \in Seq(Messages) /\ latest \in Seq(Messages) /\ stored \in Seq(Messages)
    /\ updates \in Seq(Updates)
    /\ shown \in BOOLEAN /\ saveTimer \in BOOLEAN /\ saveFailed \in BOOLEAN
    /\ updates # <<>> => generation # 0

RequestTypes ==
    /\ generation \in 0..MaxGen
    /\ headers \subseteq Gens /\ streams \subseteq Gens /\ source \in Gens \cup {None}
    /\ requests \subseteq Gens /\ aborted \subseteq Gens /\ abortRef \in Gens \cup {None}
    /\ isStreaming \in BOOLEAN /\ isRequesting \in BOOLEAN
    /\ clearOpen \in BOOLEAN /\ mounted \in BOOLEAN
    /\ mode \in [Gens -> Modes \cup {"none"}]
    /\ acts \in 0..MaxActs
    /\ done \subseteq Gens

ChunkTypes ==
    /\ pending \in [gen : 0..MaxGen, text : Texts]
    /\ flushTimer \in Gens \cup {None}
    /\ received \in [Gens -> [Channels -> 0..MaxPieces + 1]]
    /\ pending.text # NoText => generation # 0

EditTypes ==
    /\ editing \subseteq Keys /\ Cardinality(editing) <= 1
    /\ cut \subseteq Gens /\ swallowed \subseteq Gens

Submits == [id : 1..MaxSubmits, list : Seq(Messages), image : BOOLEAN]

SubmitTypes == converting \subseteq Submits /\ orphans \subseteq Seq(Messages)

Types == ListTypes /\ RequestTypes /\ ChunkTypes /\ EditTypes /\ SubmitTypes

LEMMA InitTypes == Init => Types
<1> SUFFICES ASSUME Init PROVE Types
    OBVIOUS
<1> USE PlaygroundAssumption
<1>1. Cardinality({}) = 0
    BY FS_EmptySet
<1>2. ListTypes
    <2>1. /\ messages = <<>> /\ updates = <<>> /\ latest = <<>> /\ stored = <<>>
          /\ shown = FALSE /\ saveTimer = FALSE /\ saveFailed = FALSE
        BY DEF Init
    <2>3. shown \in BOOLEAN /\ saveTimer \in BOOLEAN /\ saveFailed \in BOOLEAN
        BY <2>1, Zenon
    <2>4. /\ messages \in Seq(Messages) /\ latest \in Seq(Messages) /\ stored \in Seq(Messages)
          /\ updates \in Seq(Updates)
        BY <2>1
    <2>5. QED
        BY <2>1, <2>3, <2>4, Zenon DEF ListTypes
<1>3. RequestTypes
    <2>1. /\ generation = 0 /\ headers = {} /\ streams = {} /\ source = None
          /\ requests = {} /\ aborted = {} /\ abortRef = None
          /\ isStreaming = FALSE /\ isRequesting = FALSE
          /\ clearOpen = FALSE /\ mounted = TRUE /\ acts = 0
          /\ mode = [g \in Gens |-> "none"] /\ done = {}
        BY DEF Init
    <2>2. /\ isStreaming \in BOOLEAN /\ isRequesting \in BOOLEAN
          /\ clearOpen \in BOOLEAN /\ mounted \in BOOLEAN
        BY <2>1, Zenon
    <2>3. generation \in 0..MaxGen /\ acts \in 0..MaxActs
        BY <2>1
    <2>4. mode \in [Gens -> Modes \cup {"none"}]
        BY <2>1
    <2>5. /\ headers \subseteq Gens /\ streams \subseteq Gens /\ source \in Gens \cup {None}
          /\ requests \subseteq Gens /\ aborted \subseteq Gens /\ abortRef \in Gens \cup {None}
          /\ done \subseteq Gens
        BY <2>1
    <2>6. QED
        BY <2>2, <2>3, <2>4, <2>5, Zenon DEF RequestTypes
<1>4. ChunkTypes
    <2>1. pending.text = NoText /\ pending = [gen |-> 0, text |-> NoText]
        BY DEF Init, NoChunks
    <2>2. pending \in [gen : 0..MaxGen, text : Texts]
        BY <2>1, TextTypes
    <2>3. QED
        BY <2>1, <2>2 DEF Init, ChunkTypes
<1>5. EditTypes
    BY <1>1 DEF Init, EditTypes
<1>6. SubmitTypes
    BY DEF Init, SubmitTypes
<1>7. QED
    BY <1>2, <1>3, <1>4, <1>5, <1>6 DEF Types

LEMMA SubmitFields ==
    ASSUME Types, NEW q \in converting
    PROVE  q.list \in Seq(Messages) /\ q.image \in BOOLEAN
<1>1. q \in Submits
    BY DEF Types, SubmitTypes
<1> QED
    BY <1>1 DEF Submits

LEMMA FlushedType ==
    ASSUME Types, NEW g
    PROVE  /\ FlushedChunks(g) \in Seq(Updates)
           /\ FlushedChunks(g) # <<>> => generation \in Gens /\ g = generation
<1>1. CASE g = generation /\ pending.gen = g /\ pending.text # NoText
    <2>1. generation \in Gens
        BY <1>1 DEF Types, RequestTypes, ChunkTypes, Gens
    <2>2. pending.text \in Texts
        BY DEF Types, ChunkTypes
    <2>3. [op |-> "chunks", gen |-> g, text |-> pending.text] \in Updates
        BY <1>1, <2>1, <2>2 DEF Updates
    <2>4. QED
        BY <1>1, <2>1, <2>3 DEF FlushedChunks
<1>2. CASE ~(g = generation /\ pending.gen = g /\ pending.text # NoText)
    BY <1>2 DEF FlushedChunks
<1>3. QED
    BY <1>1, <1>2

LEMMA SimpleUpdate ==
    ASSUME NEW g \in Gens, NEW op \in {"answer", "image", "complete", "stopped", "error"}
    PROVE  [op |-> op, gen |-> g] \in Updates
BY DEF Updates

LEMMA SetUpdate ==
    ASSUME NEW list \in Seq(Messages)
    PROVE  [op |-> "set", list |-> list] \in Updates /\ SetTo(list) \in Seq(Updates)
<1>1. [op |-> "set", list |-> list] \in Updates
    BY DEF Updates
<1>2. QED
    BY <1>1 DEF SetTo

LEMMA QueuedType ==
    ASSUME ListTypes, NEW us \in Seq(Updates), NEW atOnce \in MayRunAtOnce(us), NEW g
    PROVE  /\ Queued(us, atOnce, g) \in Seq(Updates)
           /\ atOnce => /\ updates = <<>> /\ us # <<>>
                        /\ Queued(us, atOnce, g)[1].list = ApplyMessageStateUpdate(messages, us[1], g)
                        /\ ApplyMessageStateUpdate(messages, us[1], g) \in Seq(Messages)
           /\ Queued(us, atOnce, g) = <<>> <=> (updates = <<>> /\ us = <<>>)
<1>1. CASE atOnce
    <2> DEFINE l == ApplyMessageStateUpdate(messages, us[1], g)
               x == [op |-> "set", list |-> l]
    <2>1. updates = <<>> /\ us # <<>>
        BY <1>1 DEF MayRunAtOnce
    <2>2. us[1] \in Updates /\ Tail(us) \in Seq(Updates)
        BY <2>1
    <2>3. l \in Seq(Messages)
        BY <2>2, ApplyUpdateType DEF ListTypes
    <2>4. x \in Updates /\ x.list = l
        BY <2>3, SetUpdate
    <2> HIDE DEF x, l
    <2>5. Queued(us, atOnce, g) = <<x>> \o Tail(us)
        BY <1>1 DEF Queued, x, l
    <2>6. /\ <<x>> \o Tail(us) \in Seq(Updates) /\ (<<x>> \o Tail(us))[1] = x
          /\ <<x>> \o Tail(us) # <<>>
        BY <2>2, <2>4
    <2>7. QED
        BY <2>1, <2>3, <2>4, <2>5, <2>6 DEF l
<1>2. CASE ~atOnce
    <2>1. Queued(us, atOnce, g) = updates \o us
        BY <1>2 DEF Queued
    <2>2. updates \o us \in Seq(Updates) /\ (updates \o us = <<>> <=> updates = <<>> /\ us = <<>>)
        BY ConcatProperties, EmptySeq DEF ListTypes
    <2>3. QED
        BY <1>2, <2>1, <2>2
<1>3. QED
    BY <1>1, <1>2 DEF MayRunAtOnce

LEMMA EnqueueTypes ==
    ASSUME ListTypes, NEW us \in Seq(Updates), Enqueue(us),
           generation' # 0 \/ (us = <<>> /\ generation' = generation),
           UNCHANGED saveVars
    PROVE  ListTypes'
<1>1. PICK atOnce \in MayRunAtOnce(us) :
          /\ updates' = Queued(us, atOnce, generation)
          /\ IF atOnce THEN latest' = updates'[1].list /\ saveTimer' = TRUE
             ELSE UNCHANGED <<latest, saveTimer>>
    BY DEF Enqueue
<1>2. updates' \in Seq(Updates)
    BY <1>1, QueuedType
<1>3. latest' \in Seq(Messages) /\ saveTimer' \in BOOLEAN
    BY <1>1, QueuedType DEF ListTypes
<1>4. updates' # <<>> => generation' # 0
    BY <1>1, QueuedType DEF ListTypes
<1>5. messages' = messages /\ shown' = shown /\ stored' = stored /\ saveFailed' = saveFailed
    BY DEF Enqueue, saveVars
<1>6. QED
    BY <1>2, <1>3, <1>4, <1>5 DEF ListTypes

LEMMA RenderTypes ==
    ASSUME ListTypes, NEW us \in Seq(Updates), NEW first, UpdateAndRender(us, first),
           UNCHANGED saveVars, isStreaming' \in BOOLEAN, isRequesting' \in BOOLEAN
    PROVE  ListTypes'
<1>1. PICK atOnce \in MayRunAtOnce(us) :
          LET q == Queued(us, atOnce, first) IN
          /\ messages' = ApplyAll(messages, q, generation')
          /\ updates' = <<>>
          /\ shown' = (isStreaming' \/ isRequesting')
          /\ IF q = <<>> THEN UNCHANGED <<latest, saveTimer>>
             ELSE latest' = messages' /\ saveTimer' = TRUE
    BY DEF UpdateAndRender
<1>2. Queued(us, atOnce, first) \in Seq(Updates)
    BY QueuedType
<1>3. messages' \in Seq(Messages)
    BY <1>1, <1>2, ApplyAllType DEF ListTypes
<1>4. latest' \in Seq(Messages) /\ saveTimer' \in BOOLEAN /\ shown' \in BOOLEAN
    BY <1>1, <1>3 DEF ListTypes
<1>5. QED
    BY <1>1, <1>3, <1>4 DEF ListTypes, saveVars

LEMMA SmallSets == Cardinality({}) <= 1 /\ \A x : Cardinality({x}) <= 1
<1>1. Cardinality({}) = 0
    BY FS_EmptySet
<1>2. ASSUME NEW x PROVE Cardinality({x}) = 1
    BY FS_Singleton, Zenon
<1>3. QED
    BY <1>1, <1>2

LEMMA ListUntouched ==
    ASSUME ListTypes, UNCHANGED <<listVars, saveVars, generation>>
    PROVE  ListTypes'
BY DEF ListTypes, listVars, saveVars

LEMMA EndTypes ==
    ASSUME Types, NEW g \in Gens, g = generation, UNCHANGED <<generation, saveVars>>,
           NEW op \in {"complete", "error"}, EndGeneration(g, op)
    PROVE  ListTypes'
<1>1. FlushedChunks(g) \in Seq(Updates)
    BY FlushedType
<1>2. [op |-> op, gen |-> g] \in Updates
    BY SimpleUpdate
<1>3. FlushedChunks(g) \o <<[op |-> op, gen |-> g]>> \in Seq(Updates)
    <2> DEFINE u == [op |-> op, gen |-> g]
    <2> HIDE DEF u
    <2>1. u \in Updates
        BY <1>2 DEF u
    <2>2. FlushedChunks(g) \o <<u>> \in Seq(Updates)
        BY <1>1, <2>1
    <2>3. QED
        BY <2>2 DEF u
<1>4. Enqueue(FlushedChunks(g) \o <<[op |-> op, gen |-> g]>>)
    BY DEF EndGeneration
<1>5. generation' # 0
    BY DEF Gens
<1>6. QED
    BY <1>3, <1>4, <1>5, EnqueueTypes DEF Types

LEMMA SendChatFacts ==
    ASSUME Types, SendChat(generation + 1)
    PROVE  /\ generation + 1 \in Gens /\ generation' = generation + 1 /\ generation' # 0
           /\ isStreaming' = FALSE /\ isRequesting' = TRUE
<1>1. generation + 1 \in Gens /\ generation + 1 # 0
    BY DEF SendChat, Types, RequestTypes, Gens
<1>2. generation' = generation + 1 /\ isStreaming' = FALSE /\ isRequesting' = TRUE
    BY DEF SendChat, SendStreamingChat, SendRequest, StartGeneration
<1>3. QED
    BY <1>1, <1>2

\* A click that sends: the list it sets, and the render that ends it.
LEMMA SendingTypes ==
    ASSUME Types, SendChat(generation + 1), NEW l \in Seq(Messages),
           UpdateAndRender(SetTo(l), generation), UNCHANGED saveVars
    PROVE  ListTypes'
<1>1. isStreaming' \in BOOLEAN /\ isRequesting' \in BOOLEAN
    BY SendChatFacts, Zenon
<1>2. SetTo(l) \in Seq(Updates)
    BY SetUpdate
<1>3. QED
    BY <1>1, <1>2, RenderTypes DEF Types

LEMMA ClickTypes ==
    ASSUME Types, NEW us \in Seq(Updates), UpdateAndRender(us, generation),
           UNCHANGED <<saveVars, flagVars>>
    PROVE  ListTypes'
<1>1. isStreaming' \in BOOLEAN /\ isRequesting' \in BOOLEAN
    BY DEF Types, RequestTypes, flagVars
<1>2. QED
    BY <1>1, RenderTypes DEF Types

LEMMA SaveTypes ==
    ASSUME ListTypes, NEW l \in Seq(Messages), SaveMessages(l)
    PROVE  stored' \in Seq(Messages) /\ saveFailed' \in BOOLEAN
<1>1. Saved(l) \in Seq(Messages)
    BY SavedElements
<1>2. CASE stored' = Saved(l) /\ saveFailed' = FALSE
    BY <1>1, <1>2
<1>3. CASE saveFailed' = TRUE /\ UNCHANGED stored
    BY <1>3 DEF ListTypes
<1>4. QED
    BY <1>2, <1>3 DEF SaveMessages

LEMMA LoadPageTypes ==
    ASSUME ListTypes, LoadPage
    PROVE  ListTypes'
<1>1. Loaded(stored) \in Seq(Messages)
    BY LoadedElements DEF ListTypes
<1>2. messages' \in Seq(Messages) /\ latest' \in Seq(Messages)
    BY <1>1 DEF LoadPage
<1>3. stored' \in Seq(Messages) /\ saveFailed' \in BOOLEAN
    <2>1. CASE UNCHANGED <<stored, saveFailed>>
        BY <2>1 DEF ListTypes
    <2>2. CASE SaveMessages(Loaded(stored))
        BY <2>2, <1>1, SaveTypes
    <2>3. QED
        BY <2>1, <2>2 DEF LoadPage
<1>4. updates' = <<>> /\ updates' \in Seq(Updates)
    BY DEF LoadPage
<1>6. shown' \in BOOLEAN /\ saveTimer' \in BOOLEAN
    BY Zenon DEF LoadPage
<1>7. QED
    BY <1>2, <1>3, <1>4, <1>6 DEF ListTypes

LEMMA NextListTypes == Types /\ [Next]_vars => ListTypes'
<1> SUFFICES ASSUME Types, [Next]_vars PROVE ListTypes'
    OBVIOUS
<1>t. ListTypes
    BY DEF Types
<1>m. \A i \in 1 .. Len(messages) : messages[i] \in Messages
    BY <1>t, ElementOfSeq DEF ListTypes
<1>1. ASSUME NEW g \in Gens, HeadersReady(g)
      PROVE  ListTypes'
    BY <1>1, <1>t, ListUntouched DEF HeadersReady, pageVars
<1>2. ASSUME NEW g \in Gens, HeadersFail(g)
      PROVE  ListTypes'
    <2>1. CASE g = generation
        BY <1>2, <2>1, EndTypes DEF HeadersFail, pageVars
    <2>2. CASE g # generation
        BY <1>2, <2>2, <1>t, ListUntouched DEF HeadersFail, pageVars
    <2>3. QED
        BY <2>1, <2>2
<1>3. ASSUME NEW g \in Gens, NEW c \in Channels, StreamMessage(g, c)
      PROVE  ListTypes'
    BY <1>3, <1>t, ListUntouched DEF StreamMessage, pageVars
<1>4. ASSUME NEW g \in Gens, StreamDone(g)
      PROVE  ListTypes'
    BY <1>4, EndTypes DEF StreamDone, IsCurrent, pageVars
<1>5. ASSUME NEW g \in Gens, StreamError(g)
      PROVE  ListTypes'
    BY <1>5, EndTypes DEF StreamError, IsCurrent, pageVars
<1>6. ASSUME NEW g \in Gens, StreamSilentlyCloses(g)
      PROVE  ListTypes'
    BY <1>6, <1>t, ListUntouched DEF StreamSilentlyCloses, pageVars
<1>7. ASSUME NEW g \in Gens, ReplyArrives(g)
      PROVE  ListTypes'
    <2>1. CASE ReplyCounts(g)
        <3> DEFINE o == IF mode[g] = "image" THEN "image" ELSE "answer"
                   us == <<[op |-> o, gen |-> g]>>
        <3>1. Enqueue(us) /\ UNCHANGED <<generation, saveVars>>
            BY <1>7, <2>1 DEF ReplyArrives, pageVars
        <3>2. o \in {"answer", "image", "complete", "stopped", "error"}
            OBVIOUS
        <3> HIDE DEF o
        <3>3. [op |-> o, gen |-> g] \in Updates
            BY <3>2, SimpleUpdate
        <3>4. us \in Seq(Updates)
            BY <3>3
        <3> HIDE DEF us
        <3>5. generation' # 0
            BY <3>1, <2>1 DEF ReplyCounts, Gens
        <3>6. QED
            BY <3>1, <3>4, <3>5, <1>t, EnqueueTypes
    <2>2. CASE ~ReplyCounts(g)
        BY <1>7, <2>2, <1>t, ListUntouched DEF ReplyArrives, pageVars
    <2>3. QED
        BY <2>1, <2>2
<1>8. ASSUME NEW g \in Gens, ReplyFails(g)
      PROVE  ListTypes'
    <2>1. CASE ReplyCounts(g)
        BY <1>8, <2>1, EndTypes DEF ReplyFails, ReplyCounts, pageVars
    <2>2. CASE ~ReplyCounts(g)
        BY <1>8, <2>2, <1>t, ListUntouched DEF ReplyFails, pageVars
    <2>3. QED
        BY <2>1, <2>2
<1>9. CASE Render
    <2>1. <<>> \in Seq(Updates)
        OBVIOUS
    <2>2. UpdateAndRender(<<>>, generation) /\ UNCHANGED <<saveVars, flagVars>>
        BY <1>9 DEF Render, pageVars
    <2>3. QED
        BY <2>1, <2>2, ClickTypes
<1>10. CASE FlushTimer
    <2>1. CASE flushTimer = generation
        <3>1. Enqueue(FlushedChunks(flushTimer)) /\ UNCHANGED <<generation, saveVars>>
            BY <1>10, <2>1 DEF FlushTimer, pageVars
        <3>2. FlushedChunks(flushTimer) \in Seq(Updates)
            BY FlushedType
        <3>3. generation' # 0 \/ (FlushedChunks(flushTimer) = <<>> /\ generation' = generation)
            BY <3>1, FlushedType DEF Gens
        <3>4. QED
            BY <3>1, <3>2, <3>3, <1>t, EnqueueTypes
    <2>2. CASE flushTimer # generation
        BY <1>10, <2>2, <1>t, ListUntouched DEF FlushTimer, pageVars
    <2>3. QED
        BY <2>1, <2>2
<1>11. CASE SubmitContinues
    <2>1. PICK q \in converting :
              /\ SendChat(generation + 1)
              /\ Enqueue(SetTo(AppendUserMessagePair(q.list, generation + 1, q.image)))
        BY <1>11 DEF SubmitContinues
    <2>2. /\ q.list \in Seq(Messages) /\ q.image \in BOOLEAN
          /\ generation + 1 \in Gens /\ generation' # 0
        BY <2>1, SubmitFields, SendChatFacts
    <2>3. AppendUserMessagePair(q.list, generation + 1, q.image) \in Seq(Messages)
        BY <2>2, PairElements
    <2>4. SetTo(AppendUserMessagePair(q.list, generation + 1, q.image)) \in Seq(Updates)
        BY <2>3, SetUpdate
    <2>5. UNCHANGED saveVars
        BY <1>11 DEF SubmitContinues
    <2>6. QED
        BY <2>1, <2>2, <2>4, <2>5, <1>t, EnqueueTypes
<1>12. CASE SubmitFails
    BY <1>12, <1>t, ListUntouched DEF SubmitFails
<1>l. CASE LateSubmit
    <2>1. PICK list \in orphans : stored' = Saved(list)
        BY <1>l DEF LateSubmit
    <2>2. list \in Seq(Messages)
        BY DEF Types, SubmitTypes
    <2>3. stored' \in Seq(Messages)
        BY <2>1, <2>2, SavedElements
    <2>4. saveFailed' \in BOOLEAN
        BY <1>l, Zenon DEF LateSubmit
    <2>5. QED
        BY <1>l, <2>3, <2>4, <1>t DEF LateSubmit, ListTypes, listVars
<1>13. CASE SendMessage
    <2>1. generation + 1 \in Gens
        BY <1>13, SendChatFacts DEF SendMessage
    <2>2. AppendUserMessagePair(messages, generation + 1, FALSE) \in Seq(Messages)
        BY <2>1, <1>t, PairElements DEF ListTypes
    <2>3. QED
        BY <1>13, <2>2, SendingTypes DEF SendMessage, pageVars
<1>14. CASE StopGeneration
    <2> DEFINE fl == FlushedChunks(generation)
               u == [op |-> "stopped", gen |-> generation + 1]
    <2>1. generation + 1 \in Gens
        <3>1. generation < MaxGen
            BY <1>14 DEF StopGeneration
        <3>2. QED
            BY <3>1, PlaygroundAssumption DEF Types, RequestTypes, Gens
    <2>2. fl \in Seq(Updates)
        BY FlushedType
    <2>3. u \in Updates
        BY <2>1, SimpleUpdate
    <2>4. PICK first : UpdateAndRender(fl \o <<u>>, first)
        BY <1>14 DEF StopGeneration
    <2> HIDE DEF fl, u
    <2>5. fl \o <<u>> \in Seq(Updates)
        BY <2>2, <2>3
    <2>6. isStreaming' = FALSE /\ isRequesting' = FALSE /\ UNCHANGED saveVars
        BY <1>14 DEF StopGeneration, StartGeneration, pageVars
    <2>7. isStreaming' \in BOOLEAN /\ isRequesting' \in BOOLEAN
        BY <2>6, Zenon
    <2>8. QED
        BY <2>4, <2>5, <2>6, <2>7, <1>t, RenderTypes
<1>15. ASSUME NEW i \in 1 .. Len(messages), RegenerateMessage(i)
       PROVE  ListTypes'
    <2>1. generation + 1 \in Gens
        BY <1>15, SendChatFacts DEF RegenerateMessage
    <2>2. CreateRegeneratedMessages(messages, i, generation + 1) \in Seq(Messages)
        BY <2>1, <1>t, RegeneratedElements DEF ListTypes
    <2>3. QED
        BY <1>15, <2>2, SendingTypes DEF RegenerateMessage, pageVars
<1>16. ASSUME NEW i \in 1 .. Len(messages), DeleteMessage(i)
       PROVE  ListTypes'
    <2>1. Key(messages[i]) \in Keys
        BY <1>m DEF Key, Keys, Messages
    <2>2. [op |-> "remove", key |-> Key(messages[i])] \in Updates
        BY <2>1 DEF Updates
    <2>3. <<[op |-> "remove", key |-> Key(messages[i])]>> \in Seq(Updates)
        BY <2>2
    <2>4. QED
        BY <1>16, <2>3, ClickTypes DEF DeleteMessage, pageVars
<1>17. ASSUME NEW i \in 1 .. Len(messages), OpenEditor(i)
       PROVE  ListTypes'
    BY <1>17, <1>t, ListUntouched DEF OpenEditor
<1>18. ASSUME NEW i \in 1 .. Len(messages), ApplyEdit(i)
       PROVE  ListTypes'
    <2>1. EditMessage(messages, i) \in Seq(Messages)
        BY <1>t, EditElements DEF ListTypes
    <2>2. SetTo(EditMessage(messages, i)) \in Seq(Updates)
        BY <2>1, SetUpdate
    <2>3. QED
        BY <1>18, <2>2, ClickTypes DEF ApplyEdit
<1>19. ASSUME NEW i \in 1 .. Len(messages), ApplyEditAndSubmit(i)
       PROVE  ListTypes'
    <2>1. generation + 1 \in Gens
        BY <1>19, SendChatFacts DEF ApplyEditAndSubmit
    <2>2. EditMessage(messages, i) \in Seq(Messages) /\ i \in 1 .. Len(EditMessage(messages, i))
        BY <1>t, EditElements DEF ListTypes
    <2>3. CreateRegeneratedMessages(EditMessage(messages, i), i, generation + 1) \in Seq(Messages)
        BY <2>1, <2>2, RegeneratedElements
    <2>4. QED
        BY <1>19, <2>3, SendingTypes DEF ApplyEditAndSubmit
<1>20. CASE HandleSubmit
    BY <1>20, <1>t, ListUntouched DEF HandleSubmit
<1>21. CASE CloseEditor
    BY <1>21, <1>t, ListUntouched DEF CloseEditor
<1>22. CASE OpenClearDialog
    BY <1>22, <1>t, ListUntouched DEF OpenClearDialog
<1>23. CASE CloseClearDialog
    BY <1>23, <1>t, ListUntouched DEF CloseClearDialog
<1>24. CASE ClearMessages
    <2>1. <<>> \in Seq(Messages)
        OBVIOUS
    <2>2. SetTo(<<>>) \in Seq(Updates)
        BY <2>1, SetUpdate
    <2>3. QED
        BY <1>24, <2>2, ClickTypes DEF ClearMessages
<1>25. CASE Mount
    BY <1>25, <1>t, LoadPageTypes DEF Mount
<1>26. CASE Reload
    BY <1>26, <1>t, LoadPageTypes DEF Reload
<1>27. CASE Unmount
    <2>1. messages' = messages /\ latest' = latest /\ updates' = <<>>
        BY <1>27 DEF Unmount
    <2>2. shown' \in BOOLEAN /\ saveTimer' \in BOOLEAN
        BY <1>27, Zenon DEF Unmount
    <2>3. stored' \in Seq(Messages) /\ saveFailed' \in BOOLEAN
        <3>1. CASE UNCHANGED <<stored, saveFailed>>
            BY <3>1, <1>t DEF ListTypes
        <3>2. CASE SaveMessages(latest)
            BY <3>2, <1>t, SaveTypes DEF ListTypes
        <3>3. QED
            BY <1>27, <3>1, <3>2 DEF Unmount, SaveOnLeave
    <2>4. updates' \in Seq(Updates)
        BY <2>1
    <2>5. QED
        BY <2>1, <2>2, <2>3, <2>4, <1>t DEF ListTypes
<1>28. CASE SaveTimerFires
    <2>1. stored' \in Seq(Messages) /\ saveFailed' \in BOOLEAN
        BY <1>28, <1>t, SaveTypes DEF SaveTimerFires, ListTypes
    <2>2. saveTimer' \in BOOLEAN
        BY <1>28, Zenon DEF SaveTimerFires
    <2>3. QED
        BY <1>28, <2>1, <2>2, <1>t DEF SaveTimerFires, ListTypes, pageVars
<1>29. CASE UNCHANGED vars
    BY <1>29, <1>t, ListUntouched DEF vars, pageVars
<1>30. CASE Counted
    BY <1>30, <1>15, <1>16, <1>17, <1>18, <1>19, <1>20, <1>21, <1>22, <1>23, <1>24,
       <1>25, <1>26, <1>27, <1>28 DEF Counted, UserStep, MessageStep
<1>31. CASE Uncounted
    BY <1>31, <1>1, <1>2, <1>3, <1>4, <1>5, <1>6, <1>7, <1>8, <1>9, <1>10, <1>11,
       <1>12, <1>l, <1>13, <1>14 DEF Uncounted, PageStep, StreamStep, ReplyStep
<1>32. QED
    BY <1>29, <1>30, <1>31 DEF Next

LEMMA RequestUntouched ==
    ASSUME RequestTypes,
           UNCHANGED <<requestVars, flagVars, clearOpen, mounted, mode, done, generation>>,
           acts' \in 0..MaxActs
    PROVE  RequestTypes'
BY DEF RequestTypes, requestVars, flagVars

LEMMA SendChatTypes ==
    ASSUME Types, SendChat(generation + 1), UNCHANGED <<clearOpen, mounted>>, acts' \in 0..MaxActs
    PROVE  RequestTypes'
<1>1. generation + 1 \in Gens /\ generation' = generation + 1 /\ isStreaming' = FALSE /\ isRequesting' = TRUE
    BY SendChatFacts
<1>2. generation' \in 0..MaxGen
    BY <1>1 DEF Gens
<1>3. isStreaming' \in BOOLEAN /\ isRequesting' \in BOOLEAN
    BY <1>1, Zenon
<1>4. mode' \in [Gens -> Modes \cup {"none"}]
    BY DEF SendChat, Types, RequestTypes
<1>5. StartGeneration(generation + 1)
    BY DEF SendChat, SendStreamingChat, SendRequest
<1>6. aborted' \subseteq Gens /\ source' \in Gens \cup {None}
    BY <1>5 DEF StartGeneration, Abort, Types, RequestTypes
<1>7. headers' \subseteq Gens /\ requests' \subseteq Gens /\ abortRef' \in Gens \cup {None}
    BY <1>1 DEF SendChat, SendStreamingChat, SendRequest, Types, RequestTypes
<1>8. streams' = streams /\ done' = done 
    BY DEF SendChat
<1>9. QED
    BY <1>2, <1>3, <1>4, <1>6, <1>7, <1>8 DEF Types, RequestTypes

LEMMA StopTypes ==
    ASSUME Types, generation < MaxGen, StartGeneration(generation + 1), abortRef' = None,
           isRequesting' = FALSE, clearOpen' \in BOOLEAN, mounted' \in BOOLEAN,
           acts' \in 0..MaxActs, UNCHANGED <<headers, streams, requests, mode, done>>
    PROVE  RequestTypes'
<1>1. generation' \in 0..MaxGen
    BY PlaygroundAssumption DEF StartGeneration, Types, RequestTypes
<1>2. isStreaming' = FALSE
    BY DEF StartGeneration
<1>3. isStreaming' \in BOOLEAN /\ isRequesting' \in BOOLEAN
    BY <1>2, Zenon
<1>4. aborted' \subseteq Gens /\ source' \in Gens \cup {None}
    BY DEF StartGeneration, Abort, Types, RequestTypes
<1>5. QED
    BY <1>1, <1>3, <1>4 DEF Types, RequestTypes

LEMMA LoadRequestTypes ==
    ASSUME RequestTypes, LoadPage, acts' \in 0..MaxActs,
           headers' \subseteq Gens, streams' \subseteq Gens, source' \in Gens \cup {None},
           requests' \subseteq Gens, aborted' \subseteq Gens, abortRef' \in Gens \cup {None}
    PROVE  RequestTypes'
<1>1. /\ isStreaming' \in BOOLEAN /\ isRequesting' \in BOOLEAN
      /\ clearOpen' \in BOOLEAN /\ mounted' \in BOOLEAN
    BY Zenon DEF LoadPage
<1>2. done' \subseteq done /\ UNCHANGED <<mode, generation>>
    BY DEF LoadPage
<1>3. QED
    BY <1>1, <1>2 DEF RequestTypes

LEMMA NextRequestTypes == Types /\ [Next]_vars => RequestTypes'
<1> SUFFICES ASSUME Types, [Next]_vars PROVE RequestTypes'
    OBVIOUS
<1>t. RequestTypes
    BY DEF Types
<1>a. acts' \in 0..MaxActs
    BY PlaygroundAssumption DEF Next, Counted, Uncounted, vars, Types, RequestTypes
<1>1. ASSUME NEW g \in Gens, HeadersReady(g)
      PROVE  RequestTypes'
    <2>1. isStreaming' \in BOOLEAN /\ isRequesting' \in BOOLEAN
        BY <1>1, <1>t DEF HeadersReady, RequestTypes, flagVars
    <2>2. QED
        BY <1>1, <2>1, <1>t, <1>a DEF HeadersReady, requestVars, flagVars, pageVars, historyVars, RequestTypes
<1>2. ASSUME NEW g \in Gens, HeadersFail(g)
      PROVE  RequestTypes'
    <2>1. isStreaming' \in BOOLEAN /\ isRequesting' \in BOOLEAN
        BY <1>2, <1>t DEF HeadersFail, EndGeneration, RequestTypes, flagVars
    <2>2. QED
        BY <1>2, <2>1, <1>t, <1>a DEF HeadersFail, EndGeneration, requestVars, flagVars, pageVars, historyVars, RequestTypes
<1>3. ASSUME NEW g \in Gens, NEW c \in Channels, StreamMessage(g, c)
      PROVE  RequestTypes'
    BY <1>3, <1>t, <1>a, RequestUntouched DEF StreamMessage, pageVars, historyVars
<1>4. ASSUME NEW g \in Gens, StreamDone(g)
      PROVE  RequestTypes'
    <2>1. isStreaming' \in BOOLEAN /\ isRequesting' \in BOOLEAN
        BY <1>4, <1>t DEF StreamDone, EndGeneration, CloseActiveSource, RequestTypes, flagVars
    <2>2. QED
        BY <1>4, <2>1, <1>t, <1>a DEF StreamDone, EndGeneration, CloseActiveSource, requestVars, flagVars, pageVars, historyVars, RequestTypes
<1>5. ASSUME NEW g \in Gens, StreamError(g)
      PROVE  RequestTypes'
    <2>1. isStreaming' \in BOOLEAN /\ isRequesting' \in BOOLEAN
        BY <1>5, <1>t DEF StreamError, EndGeneration, CloseActiveSource, RequestTypes, flagVars
    <2>2. QED
        BY <1>5, <2>1, <1>t, <1>a DEF StreamError, EndGeneration, CloseActiveSource, requestVars, flagVars, pageVars, historyVars, RequestTypes
<1>6. ASSUME NEW g \in Gens, StreamSilentlyCloses(g)
      PROVE  RequestTypes'
    <2>1. isStreaming' \in BOOLEAN /\ isRequesting' \in BOOLEAN
        BY <1>6, <1>t DEF StreamSilentlyCloses, RequestTypes, flagVars
    <2>2. QED
        BY <1>6, <2>1, <1>t, <1>a DEF StreamSilentlyCloses, requestVars, flagVars, pageVars, historyVars, RequestTypes
<1>7. ASSUME NEW g \in Gens, ReplyArrives(g)
      PROVE  RequestTypes'
    <2>1. isStreaming' \in BOOLEAN /\ isRequesting' \in BOOLEAN
        BY <1>7, <1>t DEF ReplyArrives, RequestTypes, flagVars
    <2>2. QED
        BY <1>7, <2>1, <1>t, <1>a DEF ReplyArrives, requestVars, flagVars, pageVars, historyVars, RequestTypes
<1>8. ASSUME NEW g \in Gens, ReplyFails(g)
      PROVE  RequestTypes'
    <2>1. isStreaming' \in BOOLEAN /\ isRequesting' \in BOOLEAN
        BY <1>8, <1>t DEF ReplyFails, EndGeneration, RequestTypes, flagVars
    <2>2. QED
        BY <1>8, <2>1, <1>t, <1>a DEF ReplyFails, EndGeneration, requestVars, flagVars, pageVars, historyVars, RequestTypes
<1>9. CASE Render
    BY <1>9, <1>t, <1>a, RequestUntouched DEF Render, pageVars, historyVars
<1>10. CASE FlushTimer
    BY <1>10, <1>t, <1>a, RequestUntouched DEF FlushTimer, pageVars, historyVars
<1>11. CASE SubmitContinues
    <2>1. SendChat(generation + 1) /\ UNCHANGED <<clearOpen, mounted>>
        BY <1>11 DEF SubmitContinues, pageVars
    <2>2. QED
        BY <2>1, SendChatTypes, <1>a
<1>12. CASE SubmitFails
    BY <1>12, <1>t, <1>a, RequestUntouched DEF SubmitFails, pageVars, historyVars
<1>l. CASE LateSubmit
    BY <1>l, <1>t, <1>a, RequestUntouched DEF LateSubmit, pageVars, historyVars
<1>13. CASE SendMessage
    <2>1. SendChat(generation + 1) /\ UNCHANGED <<clearOpen, mounted>>
        BY <1>13 DEF SendMessage, pageVars
    <2>2. QED
        BY <2>1, SendChatTypes, <1>a
<1>14. CASE StopGeneration
    BY <1>14, <1>t, <1>a, StopTypes DEF StopGeneration, RequestTypes, pageVars
<1>15. ASSUME NEW i \in 1 .. Len(messages), RegenerateMessage(i)
      PROVE  RequestTypes'
    <2>1. SendChat(generation + 1) /\ UNCHANGED <<clearOpen, mounted>>
        BY <1>15 DEF RegenerateMessage, pageVars
    <2>2. QED
        BY <2>1, SendChatTypes, <1>a
<1>16. ASSUME NEW i \in 1 .. Len(messages), DeleteMessage(i)
      PROVE  RequestTypes'
    BY <1>16, <1>t, <1>a, RequestUntouched DEF DeleteMessage, pageVars, historyVars
<1>17. ASSUME NEW i \in 1 .. Len(messages), OpenEditor(i)
      PROVE  RequestTypes'
    BY <1>17, <1>t, <1>a, RequestUntouched DEF OpenEditor, pageVars, historyVars
<1>18. ASSUME NEW i \in 1 .. Len(messages), ApplyEdit(i)
      PROVE  RequestTypes'
    BY <1>18, <1>t, <1>a, RequestUntouched DEF ApplyEdit, pageVars, historyVars
<1>19. ASSUME NEW i \in 1 .. Len(messages), ApplyEditAndSubmit(i)
      PROVE  RequestTypes'
    <2>1. SendChat(generation + 1) /\ UNCHANGED <<clearOpen, mounted>>
        BY <1>19 DEF ApplyEditAndSubmit, pageVars
    <2>2. QED
        BY <2>1, SendChatTypes, <1>a
<1>20. CASE HandleSubmit
    BY <1>20, <1>t, <1>a, RequestUntouched DEF HandleSubmit, pageVars, historyVars
<1>21. CASE CloseEditor
    BY <1>21, <1>t, <1>a, RequestUntouched DEF CloseEditor, pageVars, historyVars
<1>22. CASE OpenClearDialog
    <2>1. clearOpen' \in BOOLEAN
        BY <1>22, Zenon DEF OpenClearDialog
    <2>2. QED
        BY <1>22, <2>1, <1>t, <1>a DEF OpenClearDialog, requestVars, flagVars, pageVars, historyVars, RequestTypes
<1>23. CASE CloseClearDialog
    <2>1. clearOpen' \in BOOLEAN
        BY <1>23, Zenon DEF CloseClearDialog
    <2>2. QED
        BY <1>23, <2>1, <1>t, <1>a DEF CloseClearDialog, requestVars, flagVars, pageVars, historyVars, RequestTypes
<1>24. CASE ClearMessages
    <2>1. clearOpen' \in BOOLEAN
        BY <1>24, Zenon DEF ClearMessages
    <2>2. QED
        BY <1>24, <2>1, <1>t, <1>a DEF ClearMessages, requestVars, flagVars, pageVars, historyVars, RequestTypes
<1>25. CASE Mount
    BY <1>25, <1>t, <1>a, LoadRequestTypes DEF Mount, RequestTypes, requestVars
<1>26. CASE Reload
    BY <1>26, <1>t, <1>a, LoadRequestTypes DEF Reload
<1>27. CASE Unmount
    <2>1. clearOpen' \in BOOLEAN /\ mounted' \in BOOLEAN
        BY <1>27, Zenon DEF Unmount
    <2>2. QED
        BY <1>27, <2>1, <1>a, StopTypes DEF Unmount, historyVars
<1>28. CASE SaveTimerFires
    BY <1>28, <1>t, <1>a, RequestUntouched DEF SaveTimerFires, pageVars, historyVars
<1>29. CASE UNCHANGED vars
    BY <1>29, <1>t, <1>a, RequestUntouched DEF vars, pageVars, historyVars
<1>30. CASE Counted
    BY <1>30, <1>15, <1>16, <1>17, <1>18, <1>19, <1>20, <1>21, <1>22, <1>23, <1>24,
       <1>25, <1>26, <1>27, <1>28 DEF Counted, UserStep, MessageStep
<1>31. CASE Uncounted
    BY <1>31, <1>1, <1>2, <1>3, <1>4, <1>5, <1>6, <1>7, <1>8, <1>9, <1>10, <1>11,
       <1>12, <1>l, <1>13, <1>14 DEF Uncounted, PageStep, StreamStep, ReplyStep
<1>32. QED
    BY <1>29, <1>30, <1>31 DEF Next

LEMMA NoChunksType ==
    ASSUME NEW g \in 0..MaxGen
    PROVE  NoChunks(g) \in [gen : 0..MaxGen, text : Texts] /\ NoChunks(g).text = NoText
BY TextTypes DEF NoChunks

\* A step that empties the buffer, or leaves it.
LEMMA ChunksDropped ==
    ASSUME ChunkTypes, NEW g \in 0..MaxGen, pending' = NoChunks(g),
           flushTimer' = None, UNCHANGED received
    PROVE  ChunkTypes'
BY NoChunksType DEF ChunkTypes

LEMMA ChunksUntouched ==
    ASSUME ChunkTypes, UNCHANGED <<chunkVars, received, generation>>
    PROVE  ChunkTypes'
BY DEF ChunkTypes, chunkVars

LEMMA SendChatChunks ==
    ASSUME Types, SendChat(generation + 1)
    PROVE  ChunkTypes'
<1>1. generation + 1 \in 0..MaxGen
    BY SendChatFacts DEF Gens
<1>2. StartGeneration(generation + 1) /\ UNCHANGED received
    BY DEF SendChat, SendStreamingChat, SendRequest
<1>3. QED
    BY <1>1, <1>2, ChunksDropped DEF StartGeneration, Types

LEMMA MessageChunk ==
    ASSUME NEW r \in Nat, NEW k \in 1 .. MaxPieces, r + k <= MaxPieces
    PROVE  /\ [i \in 1..k |-> r + i] \in Seq(Pieces)
           /\ [i \in 1..r + k |-> i] \in Seq(Pieces)
<1>1. 1 .. r + k \subseteq Pieces /\ r + k \in Nat /\ k \in Nat
    BY PlaygroundAssumption DEF Pieces, EditPiece
<1>2. \A i \in 1..k : r + i \in Pieces
    BY <1>1
<1>3. QED
    BY <1>1, <1>2

LEMMA StreamMessageChunks ==
    ASSUME Types, NEW g \in Gens, NEW c \in Channels, StreamMessage(g, c)
    PROVE  ChunkTypes'
<1> DEFINE n(k) == received[g][c] + k
           chunk(k) == IF mode[g] = "delta" THEN [i \in 1..k |-> received[g][c] + i]
                       ELSE [i \in 1..n(k) |-> i]
<1>1. PICK k \in 1 .. MaxPieces :
          /\ received[g]["content"] + received[g]["reasoning"] + k <= MaxPieces
          /\ received' = [received EXCEPT ![g][c] = n(k)]
          /\ \/ /\ pending' = [pending EXCEPT
                       !.text[c] = MergePendingStreamChunk(pending.text[c], chunk(k))]
                /\ flushTimer' = g
             \/ UNCHANGED chunkVars
    BY Zenon DEF StreamMessage
<1>2. received[g][c] \in Nat /\ n(k) \in 1 .. MaxPieces /\ n(k) \in 0 .. MaxPieces + 1
    <2>1. received[g] \in [Channels -> 0..MaxPieces + 1]
        BY DEF Types, ChunkTypes
    <2>2. received[g]["content"] \in Nat /\ received[g]["reasoning"] \in Nat /\ c \in {"content", "reasoning"}
        BY <2>1, PlaygroundAssumption DEF Channels
    <2>3. received[g]["content"] + received[g]["reasoning"] + k <= MaxPieces /\ k \in 1 .. MaxPieces
        BY <1>1, Zenon
    <2>4. QED
        BY <2>2, <2>3, PlaygroundAssumption
<1>3. chunk(k) \in Seq(Pieces)
    <2>1. received[g][c] + k <= MaxPieces
        BY <1>2, PlaygroundAssumption
    <2> QED
        BY <1>2, <2>1, MessageChunk
<1>4. received' = [received EXCEPT ![g] = [received[g] EXCEPT ![c] = n(k)]]
    BY <1>1 DEF Types, ChunkTypes
<1>5. pending' = pending \/ pending' = [pending EXCEPT !.text =
          [pending.text EXCEPT ![c] = MergePendingStreamChunk(pending.text[c], chunk(k))]]
    BY <1>1 DEF chunkVars
<1>6. flushTimer' = flushTimer \/ flushTimer' = g
    BY <1>1 DEF chunkVars
<1> HIDE DEF n, chunk
<1>7. received' \in [Gens -> [Channels -> 0..MaxPieces + 1]]
    BY <1>2, <1>4 DEF Types, ChunkTypes
<1>8. MergePendingStreamChunk(pending.text[c], chunk(k)) \in Seq(Pieces)
    BY <1>3, AppendableType DEF Types, ChunkTypes, Texts
<1>9. pending' \in [gen : 0..MaxGen, text : Texts]
    <2> DEFINE t == MergePendingStreamChunk(pending.text[c], chunk(k))
               new == [pending.text EXCEPT ![c] = t]
    <2>1. pending \in [gen : 0..MaxGen, text : Texts]
        BY DEF Types, ChunkTypes
    <2>2. pending.text \in [Channels -> Seq(Pieces)] /\ t \in Seq(Pieces)
        BY <1>8, <2>1 DEF Texts
    <2> HIDE DEF t
    <2>3. new \in Texts
        BY <2>2 DEF Texts
    <2>4. pending' = pending \/ pending' = [pending EXCEPT !.text = new]
        BY <1>5 DEF t
    <2> HIDE DEF new
    <2>5. QED
        BY <2>1, <2>3, <2>4
<1>10. generation' = generation /\ generation # 0
    BY DEF StreamMessage, IsCurrent, Gens
<1>11. QED
    BY <1>6, <1>7, <1>9, <1>10 DEF Types, ChunkTypes

LEMMA NextChunkTypes == Types /\ [Next]_vars => ChunkTypes'
<1> SUFFICES ASSUME Types, [Next]_vars PROVE ChunkTypes'
    OBVIOUS
<1>t. ChunkTypes
    BY DEF Types
<1>g. generation \in 0..MaxGen /\ Gens \subseteq 0..MaxGen
    BY DEF Types, RequestTypes, Gens
<1>1. ASSUME NEW g \in Gens, HeadersReady(g)
      PROVE  ChunkTypes'
    BY <1>1, <1>t, ChunksUntouched DEF HeadersReady, historyVars
<1>2. ASSUME NEW g \in Gens, HeadersFail(g)
      PROVE  ChunkTypes'
    BY <1>2, <1>t, <1>g, ChunksUntouched, ChunksDropped DEF HeadersFail, EndGeneration, historyVars
<1>3. ASSUME NEW g \in Gens, NEW c \in Channels, StreamMessage(g, c)
      PROVE  ChunkTypes'
    BY <1>3, StreamMessageChunks
<1>4. ASSUME NEW g \in Gens, StreamDone(g)
      PROVE  ChunkTypes'
    BY <1>4, <1>t, <1>g, ChunksDropped DEF StreamDone, EndGeneration, historyVars
<1>5. ASSUME NEW g \in Gens, StreamError(g)
      PROVE  ChunkTypes'
    BY <1>5, <1>t, <1>g, ChunksDropped DEF StreamError, EndGeneration, historyVars
<1>6. ASSUME NEW g \in Gens, StreamSilentlyCloses(g)
      PROVE  ChunkTypes'
    BY <1>6, <1>t, ChunksUntouched DEF StreamSilentlyCloses, historyVars
<1>7. ASSUME NEW g \in Gens, ReplyArrives(g)
      PROVE  ChunkTypes'
    <2>1. received' = received \/ received' = [received EXCEPT ![g] = [received[g] EXCEPT !["content"] = 1]]
        BY <1>7 DEF ReplyArrives
    <2>2. received' \in [Gens -> [Channels -> 0..MaxPieces + 1]]
        BY <2>1, <1>t, PlaygroundAssumption DEF ChunkTypes
    <2>3. UNCHANGED <<chunkVars, generation>>
        BY <1>7 DEF ReplyArrives
    <2>4. QED
        BY <2>2, <2>3, <1>t DEF ChunkTypes, chunkVars
<1>8. ASSUME NEW g \in Gens, ReplyFails(g)
      PROVE  ChunkTypes'
    BY <1>8, <1>t, <1>g, ChunksUntouched, ChunksDropped DEF ReplyFails, EndGeneration, historyVars
<1>9. CASE Render
    BY <1>9, <1>t, ChunksUntouched DEF Render, historyVars
<1>10. CASE FlushTimer
    <2>1. CASE flushTimer = generation /\ pending.gen = flushTimer
        <3>1. pending' = NoChunks(pending.gen) /\ flushTimer' = None /\ UNCHANGED <<received, generation>>
            BY <1>10, <2>1 DEF FlushTimer, historyVars
        <3>2. pending.gen \in 0..MaxGen
            BY <1>t DEF ChunkTypes
        <3>3. QED
            BY <3>1, <3>2, <1>t, ChunksDropped
    <2>2. CASE ~(flushTimer = generation /\ pending.gen = flushTimer)
        BY <1>10, <2>2, <1>t DEF FlushTimer, ChunkTypes, chunkVars, historyVars
    <2>3. QED
        BY <2>1, <2>2
<1>11. CASE SubmitContinues
    BY <1>11, SendChatChunks DEF SubmitContinues
<1>12. CASE SubmitFails
    BY <1>12, <1>t, ChunksUntouched DEF SubmitFails, historyVars
<1>l. CASE LateSubmit
    BY <1>l, <1>t, ChunksUntouched DEF LateSubmit, historyVars
<1>13. CASE SendMessage
    BY <1>13, SendChatChunks DEF SendMessage
<1>14. CASE StopGeneration
    <2>1. generation < MaxGen /\ StartGeneration(generation + 1) /\ UNCHANGED received
        BY <1>14 DEF StopGeneration, historyVars
    <2>2. generation + 1 \in 0..MaxGen
        BY <2>1, <1>g, PlaygroundAssumption
    <2>3. QED
        BY <2>1, <2>2, <1>t, ChunksDropped DEF StartGeneration
<1>15. ASSUME NEW i \in 1 .. Len(messages), RegenerateMessage(i)
      PROVE  ChunkTypes'
    BY <1>15, SendChatChunks DEF RegenerateMessage
<1>16. ASSUME NEW i \in 1 .. Len(messages), DeleteMessage(i)
      PROVE  ChunkTypes'
    BY <1>16, <1>t, ChunksUntouched DEF DeleteMessage, historyVars
<1>17. ASSUME NEW i \in 1 .. Len(messages), OpenEditor(i)
      PROVE  ChunkTypes'
    BY <1>17, <1>t, ChunksUntouched DEF OpenEditor, historyVars
<1>18. ASSUME NEW i \in 1 .. Len(messages), ApplyEdit(i)
      PROVE  ChunkTypes'
    BY <1>18, <1>t, ChunksUntouched DEF ApplyEdit, historyVars
<1>19. ASSUME NEW i \in 1 .. Len(messages), ApplyEditAndSubmit(i)
      PROVE  ChunkTypes'
    BY <1>19, SendChatChunks DEF ApplyEditAndSubmit
<1>20. CASE HandleSubmit
    BY <1>20, <1>t, ChunksUntouched DEF HandleSubmit, historyVars
<1>21. CASE CloseEditor
    BY <1>21, <1>t, ChunksUntouched DEF CloseEditor, historyVars
<1>22. CASE OpenClearDialog
    BY <1>22, <1>t, ChunksUntouched DEF OpenClearDialog, historyVars
<1>23. CASE CloseClearDialog
    BY <1>23, <1>t, ChunksUntouched DEF CloseClearDialog, historyVars
<1>24. CASE ClearMessages
    BY <1>24, <1>t, ChunksUntouched DEF ClearMessages, historyVars
<1>25. CASE Mount
    BY <1>25, <1>t, <1>g, ChunksDropped DEF Mount, LoadPage
<1>26. CASE Reload
    BY <1>26, <1>t, <1>g, ChunksDropped DEF Reload, LoadPage
<1>27. CASE Unmount
    <2>1. generation < MaxGen /\ StartGeneration(generation + 1) /\ UNCHANGED received
        BY <1>27 DEF Unmount, historyVars
    <2>2. generation + 1 \in 0..MaxGen
        BY <2>1, <1>g, PlaygroundAssumption
    <2>3. QED
        BY <2>1, <2>2, <1>t, ChunksDropped DEF StartGeneration
<1>28. CASE SaveTimerFires
    BY <1>28, <1>t, ChunksUntouched DEF SaveTimerFires, historyVars
<1>29. CASE UNCHANGED vars
    BY <1>29, <1>t, ChunksUntouched DEF vars, historyVars
<1>30. CASE Counted
    BY <1>30, <1>15, <1>16, <1>17, <1>18, <1>19, <1>20, <1>21, <1>22, <1>23, <1>24,
       <1>25, <1>26, <1>27, <1>28 DEF Counted, UserStep, MessageStep
<1>31. CASE Uncounted
    BY <1>31, <1>1, <1>2, <1>3, <1>4, <1>5, <1>6, <1>7, <1>8, <1>9, <1>10, <1>11,
       <1>12, <1>l, <1>13, <1>14 DEF Uncounted, PageStep, StreamStep, ReplyStep
<1>32. QED
    BY <1>29, <1>30, <1>31 DEF Next

LEMMA CutQueueType ==
    ASSUME Types, CutQueue
    PROVE  cut' \subseteq Gens
<1>1. \A i \in 1 .. Len(messages) : messages[i].gen \in Gens
    <2>1. \A i \in 1 .. Len(messages) : messages[i] \in Messages
        BY ElementOfSeq DEF Types, ListTypes
    <2>2. QED
        BY <2>1 DEF Messages
<1>2. updates # <<>> => generation \in Gens
    BY DEF Types, ListTypes, RequestTypes, Gens
<1>3. QED
    BY <1>1, <1>2 DEF CutQueue, Types, EditTypes

LEMMA NextEditTypes == Types /\ [Next]_vars => EditTypes'
<1> SUFFICES ASSUME Types, [Next]_vars PROVE EditTypes'
    OBVIOUS
<1>t. EditTypes
    BY DEF Types
<1>m. \A i \in 1 .. Len(messages) : Key(messages[i]) \in Keys
    <2>1. \A i \in 1 .. Len(messages) : messages[i] \in Messages
        BY ElementOfSeq DEF Types, ListTypes
    <2>2. QED
        BY <2>1 DEF Messages, Key, Keys
<1>1. ASSUME NEW g \in Gens, HeadersReady(g)
      PROVE  EditTypes'
    BY <1>1, <1>t DEF HeadersReady, EditTypes, pageVars, historyVars
<1>2. ASSUME NEW g \in Gens, HeadersFail(g)
      PROVE  EditTypes'
    BY <1>2, <1>t DEF HeadersFail, EditTypes, pageVars, historyVars
<1>3. ASSUME NEW g \in Gens, NEW c \in Channels, StreamMessage(g, c)
      PROVE  EditTypes'
    <2>1. swallowed' \subseteq swallowed \cup {g}
        BY <1>3 DEF StreamMessage
    <2>2. QED
        BY <1>3, <2>1, <1>t DEF StreamMessage, EditTypes, pageVars
<1>4. ASSUME NEW g \in Gens, StreamDone(g)
      PROVE  EditTypes'
    BY <1>4, <1>t DEF StreamDone, EditTypes, pageVars, historyVars
<1>5. ASSUME NEW g \in Gens, StreamError(g)
      PROVE  EditTypes'
    BY <1>5, <1>t DEF StreamError, EditTypes, pageVars, historyVars
<1>6. ASSUME NEW g \in Gens, StreamSilentlyCloses(g)
      PROVE  EditTypes'
    BY <1>6, <1>t DEF StreamSilentlyCloses, EditTypes, pageVars, historyVars
<1>7. ASSUME NEW g \in Gens, ReplyArrives(g)
      PROVE  EditTypes'
    BY <1>7, <1>t DEF ReplyArrives, EditTypes, pageVars, historyVars
<1>8. ASSUME NEW g \in Gens, ReplyFails(g)
      PROVE  EditTypes'
    BY <1>8, <1>t DEF ReplyFails, EditTypes, pageVars, historyVars
<1>9. CASE Render
    BY <1>9, <1>t DEF Render, EditTypes, pageVars, historyVars
<1>10. CASE FlushTimer
    BY <1>10, <1>t DEF FlushTimer, EditTypes, pageVars, historyVars
<1>11. CASE SubmitContinues
    BY <1>11, <1>t DEF SendChat, SubmitContinues, EditTypes, pageVars, historyVars
<1>12. CASE SubmitFails
    BY <1>12, <1>t DEF SubmitFails, EditTypes, pageVars, historyVars
<1>l. CASE LateSubmit
    BY <1>l, <1>t DEF LateSubmit, EditTypes, pageVars, historyVars
<1>13. CASE SendMessage
    BY <1>13, <1>t DEF SendChat, SendMessage, EditTypes, pageVars, historyVars
<1>14. CASE StopGeneration
    BY <1>14, <1>t, CutQueueType DEF StopGeneration, EditTypes, pageVars
<1>15. ASSUME NEW i \in 1 .. Len(messages), RegenerateMessage(i)
      PROVE  EditTypes'
    BY <1>15, <1>t DEF SendChat, RegenerateMessage, EditTypes, pageVars, historyVars
<1>16. ASSUME NEW i \in 1 .. Len(messages), DeleteMessage(i)
      PROVE  EditTypes'
    BY <1>16, <1>t DEF DeleteMessage, EditTypes, pageVars, historyVars
<1>17. ASSUME NEW i \in 1 .. Len(messages), OpenEditor(i)
      PROVE  EditTypes'
    BY <1>17, <1>t, <1>m, SmallSets DEF OpenEditor, EditTypes, historyVars
<1>18. ASSUME NEW i \in 1 .. Len(messages), ApplyEdit(i)
      PROVE  EditTypes'
    BY <1>18, <1>t, SmallSets, CutQueueType DEF ApplyEdit, EditTypes
<1>19. ASSUME NEW i \in 1 .. Len(messages), ApplyEditAndSubmit(i)
      PROVE  EditTypes'
    BY <1>19, <1>t, SmallSets DEF SendChat, ApplyEditAndSubmit, EditTypes, historyVars
<1>20. CASE HandleSubmit
    BY <1>20, <1>t DEF HandleSubmit, EditTypes, pageVars, historyVars
<1>21. CASE CloseEditor
    BY <1>21, <1>t, SmallSets DEF CloseEditor, EditTypes, historyVars
<1>22. CASE OpenClearDialog
    BY <1>22, <1>t DEF OpenClearDialog, EditTypes, pageVars, historyVars
<1>23. CASE CloseClearDialog
    BY <1>23, <1>t DEF CloseClearDialog, EditTypes, pageVars, historyVars
<1>24. CASE ClearMessages
    BY <1>24, <1>t, SmallSets DEF ClearMessages, EditTypes, historyVars
<1>25. CASE Mount
    BY <1>25, <1>t, SmallSets DEF Mount, LoadPage, EditTypes, historyVars
<1>26. CASE Reload
    BY <1>26, <1>t, SmallSets DEF Reload, LoadPage, EditTypes, historyVars
<1>27. CASE Unmount
    BY <1>27, <1>t, SmallSets DEF Unmount, EditTypes, historyVars
<1>28. CASE SaveTimerFires
    BY <1>28, <1>t DEF SaveTimerFires, EditTypes, pageVars, historyVars
<1>29. CASE UNCHANGED vars
    BY <1>29, <1>t DEF vars, EditTypes, pageVars, historyVars
<1>30. CASE Counted
    BY <1>30, <1>15, <1>16, <1>17, <1>18, <1>19, <1>20, <1>21, <1>22, <1>23, <1>24,
       <1>25, <1>26, <1>27, <1>28 DEF Counted, UserStep, MessageStep
<1>31. CASE Uncounted
    BY <1>31, <1>1, <1>2, <1>3, <1>4, <1>5, <1>6, <1>7, <1>8, <1>9, <1>10, <1>11,
       <1>12, <1>l, <1>13, <1>14 DEF Uncounted, PageStep, StreamStep, ReplyStep
<1>32. QED
    BY <1>29, <1>30, <1>31 DEF Next

LEMMA NextSubmitTypes == Types /\ [Next]_vars => SubmitTypes'
<1> SUFFICES ASSUME Types, [Next]_vars PROVE SubmitTypes'
    OBVIOUS
<1>t. SubmitTypes
    BY DEF Types
<1>0. ASSUME UNCHANGED <<converting, orphans>> PROVE SubmitTypes'
    BY <1>0, <1>t DEF SubmitTypes
<1>1. ASSUME NEW g \in Gens, StreamStep(g) \/ ReplyStep(g) PROVE SubmitTypes'
    BY <1>1, <1>0 DEF StreamStep, ReplyStep, HeadersReady, HeadersFail, StreamMessage,
       StreamDone, StreamError, StreamSilentlyCloses, ReplyArrives, ReplyFails,
       pageVars, saveVars
<1>2. CASE Render \/ FlushTimer \/ SendMessage \/ StopGeneration
    BY <1>2, <1>0 DEF Render, FlushTimer, SendMessage, StopGeneration, pageVars, saveVars
<1>3. CASE SubmitContinues \/ SubmitFails
    BY <1>3, <1>t DEF SubmitContinues, SubmitFails, SubmitTypes, saveVars
<1>4. CASE LateSubmit
    BY <1>4, <1>t DEF LateSubmit, SubmitTypes, pageVars
<1>5. ASSUME NEW i \in 1 .. Len(messages), MessageStep(i) PROVE SubmitTypes'
    BY <1>5, <1>0 DEF MessageStep, RegenerateMessage, DeleteMessage, OpenEditor, ApplyEdit,
       ApplyEditAndSubmit, pageVars, saveVars
<1>6. CASE HandleSubmit
    <2>1. PICK n \in FreeIds, image \in BOOLEAN :
              converting' = converting \cup {[id |-> n, list |-> messages, image |-> image]}
        BY <1>6 DEF HandleSubmit
    <2>2. [id |-> n, list |-> messages, image |-> image] \in Submits
        BY DEF FreeIds, Submits, Types, ListTypes
    <2>3. QED
        BY <1>6, <2>1, <2>2, <1>t DEF HandleSubmit, SubmitTypes, saveVars
<1>7. CASE CloseEditor \/ OpenClearDialog \/ CloseClearDialog \/ ClearMessages \/ SaveTimerFires
    BY <1>7, <1>0 DEF CloseEditor, OpenClearDialog, CloseClearDialog, ClearMessages,
       SaveTimerFires, pageVars, saveVars
<1>8. CASE Mount \/ Reload
    BY <1>8, <1>t DEF Mount, Reload, LoadPage, SubmitTypes
<1>9. CASE Unmount
    <2>1. generation + 1 \in Gens
        BY <1>9, PlaygroundAssumption DEF Unmount, Types, RequestTypes, Gens
    <2>2. \A q \in converting : AppendUserMessagePair(q.list, generation + 1, q.image) \in Seq(Messages)
        BY <2>1, SubmitFields, PairElements
    <2>3. QED
        BY <1>9, <2>2, <1>t DEF Unmount, SubmitTypes
<1>10. CASE UNCHANGED vars
    BY <1>10, <1>0 DEF vars, pageVars, saveVars
<1>11. CASE Counted
    BY <1>11, <1>5, <1>6, <1>7, <1>8, <1>9 DEF Counted, UserStep
<1>12. CASE Uncounted
    BY <1>12, <1>1, <1>2, <1>3, <1>4 DEF Uncounted, PageStep
<1>13. QED
    BY <1>10, <1>11, <1>12 DEF Next

LEMMA NextTypes == Types /\ [Next]_vars => Types'
BY NextListTypes, NextRequestTypes, NextChunkTypes, NextEditTypes, NextSubmitTypes DEF Types

\* The state of the page keeps its types: every list, however many updates are
\* queued and applied, is a list of messages, and every queued update has the
\* shape its reader expects.
THEOREM TypesCorrect == Spec => []TypeOK
<1>1. Types => TypeOK
    BY DEF Types, ListTypes, RequestTypes, ChunkTypes, EditTypes, SubmitTypes, Submits, TypeOK
<1>2. QED
    BY <1>1, InitTypes, NextTypes, PTL DEF Spec

-----------------------------------------------------------------------------
\* Saving. What is stored is a list as saving writes it, so that a page that
\* loads it unchanged need not save it again.

SaveInv == ConversationSaved /\ Saved(stored) = stored

LEMMA InitSaveInv == Init => SaveInv
<1> SUFFICES ASSUME Init PROVE SaveInv
    OBVIOUS
<1>1. messages = <<>> /\ latest = <<>> /\ stored = <<>>
    BY DEF Init
<1>2. Saved(<<>>) = <<>>
    <2>1. <<>> \in Seq(Messages) /\ Len(<<>>) = 0
        OBVIOUS
    <2>2. Len(<<>>) <= MaxStored /\ \A j \in 1 .. Len(<<>>) : ~(<<>>)[j].image
        BY <2>1, PlaygroundAssumption
    <2>3. QED
        BY <2>1, <2>2, SavedElements
<1>3. QED
    BY <1>1, <1>2 DEF SaveInv, ConversationSaved

LEMMA SaveUntouched ==
    ASSUME SaveInv, UNCHANGED <<listVars, saveVars, mounted>>
    PROVE  SaveInv'
BY DEF SaveInv, ConversationSaved, listVars, saveVars

\* An update that is run at once is in the list to save, and a save is due.
LEMMA EnqueueSaves ==
    ASSUME ListTypes, SaveInv, NEW us \in Seq(Updates), Enqueue(us),
           UNCHANGED <<saveVars, mounted>>
    PROVE  SaveInv'
<1>1. PICK atOnce \in MayRunAtOnce(us) :
          /\ updates' = Queued(us, atOnce, generation)
          /\ IF atOnce THEN latest' = updates'[1].list /\ saveTimer' = TRUE
             ELSE UNCHANGED <<latest, saveTimer>>
    BY DEF Enqueue
<1>2. updates' = <<>> => updates = <<>> /\ ~atOnce
    BY <1>1, QueuedType
<1>3. messages' = messages
    BY DEF Enqueue
<1>4. QED
    BY <1>1, <1>2, <1>3 DEF SaveInv, ConversationSaved, saveVars

LEMMA EndSaves ==
    ASSUME Types, SaveInv, NEW g \in Gens, g = generation, UNCHANGED <<saveVars, mounted>>,
           NEW op \in {"complete", "error"}, EndGeneration(g, op)
    PROVE  SaveInv'
<1> DEFINE u == [op |-> op, gen |-> g]
<1>1. FlushedChunks(g) \in Seq(Updates) /\ u \in Updates
    BY FlushedType, SimpleUpdate
<1>2. Enqueue(FlushedChunks(g) \o <<u>>)
    BY DEF EndGeneration
<1> HIDE DEF u
<1>3. FlushedChunks(g) \o <<u>> \in Seq(Updates)
    BY <1>1
<1>4. QED
    BY <1>2, <1>3, EnqueueSaves DEF Types

\* A render shows the list that is saved next.
LEMMA RenderSaves ==
    ASSUME ListTypes, SaveInv, NEW us \in Seq(Updates), NEW first, UpdateAndRender(us, first),
           UNCHANGED <<saveVars, mounted>>
    PROVE  SaveInv'
<1>1. PICK atOnce \in MayRunAtOnce(us) :
          LET q == Queued(us, atOnce, first) IN
          /\ messages' = ApplyAll(messages, q, generation')
          /\ updates' = <<>>
          /\ shown' = (isStreaming' \/ isRequesting')
          /\ IF q = <<>> THEN UNCHANGED <<latest, saveTimer>>
             ELSE latest' = messages' /\ saveTimer' = TRUE
    BY DEF UpdateAndRender
<1>2. CASE Queued(us, atOnce, first) = <<>>
    <2>1. messages' = messages /\ latest' = latest /\ saveTimer' = saveTimer
        BY <1>1, <1>2, ApplyAllEmpty
    <2>2. updates = <<>>
        BY <1>2, QueuedType
    <2>3. QED
        BY <2>1, <2>2 DEF SaveInv, ConversationSaved, saveVars
<1>3. CASE Queued(us, atOnce, first) # <<>>
    BY <1>1, <1>3 DEF SaveInv, ConversationSaved, saveVars
<1>4. QED
    BY <1>2, <1>3

LEMMA LoadPageSaves ==
    ASSUME ListTypes, SaveInv, LoadPage
    PROVE  SaveInv'
<1>1. Loaded(stored) \in Seq(Messages)
    BY LoadedElements DEF ListTypes
<1>2. messages' = Loaded(stored) /\ latest' = Loaded(stored)
    BY DEF LoadPage
<1>3. CASE Loaded(stored) = stored
    BY <1>2, <1>3 DEF LoadPage, saveVars, SaveInv, ConversationSaved
<1>4. CASE Loaded(stored) # stored
    <2>1. SaveMessages(latest')
        BY <1>2, <1>4 DEF LoadPage
    <2>2. Saved(stored') = stored'
        BY <2>1, <1>1, <1>2, SavedTwice DEF SaveMessages, SaveInv
    <2>3. ~saveFailed' => stored' = Saved(latest')
        BY <2>1 DEF SaveMessages
    <2>4. QED
        BY <1>2, <2>2, <2>3 DEF SaveInv, ConversationSaved
<1>5. QED
    BY <1>3, <1>4

LEMMA NextSaveInv == Types /\ SaveInv /\ [Next]_vars => SaveInv'
<1> SUFFICES ASSUME Types, SaveInv, [Next]_vars PROVE SaveInv'
    OBVIOUS
<1>t. ListTypes
    BY DEF Types
<1>s. stored' = Saved(latest) /\ saveFailed' = FALSE => Saved(stored') = stored'
    BY <1>t, SavedTwice DEF ListTypes
<1>1. ASSUME NEW g \in Gens, HeadersReady(g)
      PROVE  SaveInv'
    BY <1>1, SaveUntouched DEF HeadersReady, pageVars
<1>2. ASSUME NEW g \in Gens, HeadersFail(g)
      PROVE  SaveInv'
    BY <1>2, EndSaves, SaveUntouched DEF HeadersFail, pageVars
<1>3. ASSUME NEW g \in Gens, NEW c \in Channels, StreamMessage(g, c)
      PROVE  SaveInv'
    BY <1>3, SaveUntouched DEF StreamMessage, pageVars
<1>4. ASSUME NEW g \in Gens, StreamDone(g)
      PROVE  SaveInv'
    BY <1>4, EndSaves DEF StreamDone, IsCurrent, pageVars
<1>5. ASSUME NEW g \in Gens, StreamError(g)
      PROVE  SaveInv'
    BY <1>5, EndSaves DEF StreamError, IsCurrent, pageVars
<1>6. ASSUME NEW g \in Gens, StreamSilentlyCloses(g)
      PROVE  SaveInv'
    BY <1>6, SaveUntouched DEF StreamSilentlyCloses, pageVars
<1>7. ASSUME NEW g \in Gens, ReplyArrives(g)
      PROVE  SaveInv'
    <2>1. CASE ReplyCounts(g)
        <3> DEFINE o == IF mode[g] = "image" THEN "image" ELSE "answer"
        <3>1. Enqueue(<<[op |-> o, gen |-> g]>>) /\ UNCHANGED <<saveVars, mounted>>
            BY <1>7, <2>1 DEF ReplyArrives, pageVars
        <3>2. o \in {"answer", "image", "complete", "stopped", "error"}
            OBVIOUS
        <3> HIDE DEF o
        <3>3. [op |-> o, gen |-> g] \in Updates
            BY <3>2, SimpleUpdate
        <3>4. <<[op |-> o, gen |-> g]>> \in Seq(Updates)
            BY <3>3
        <3>5. QED
            BY <3>1, <3>4, <1>t, EnqueueSaves
    <2>2. CASE ~ReplyCounts(g)
        BY <1>7, <2>2, SaveUntouched DEF ReplyArrives, pageVars
    <2>3. QED
        BY <2>1, <2>2
<1>8. ASSUME NEW g \in Gens, ReplyFails(g)
      PROVE  SaveInv'
    BY <1>8, EndSaves, SaveUntouched DEF ReplyFails, ReplyCounts, pageVars
<1>9. CASE Render
    <2>1. <<>> \in Seq(Updates)
        OBVIOUS
    <2>2. QED
        BY <1>9, <2>1, <1>t, RenderSaves DEF Render, pageVars
<1>10. CASE FlushTimer
    BY <1>10, <1>t, FlushedType, EnqueueSaves, SaveUntouched DEF FlushTimer, pageVars
<1>11. CASE SubmitContinues
    <2>1. PICK q \in converting :
              /\ SendChat(generation + 1)
              /\ Enqueue(SetTo(AppendUserMessagePair(q.list, generation + 1, q.image)))
        BY <1>11 DEF SubmitContinues
    <2>2. q.list \in Seq(Messages) /\ q.image \in BOOLEAN /\ generation + 1 \in Gens
        BY <2>1, SubmitFields, SendChatFacts
    <2>3. AppendUserMessagePair(q.list, generation + 1, q.image) \in Seq(Messages)
        BY <2>2, PairElements
    <2>4. SetTo(AppendUserMessagePair(q.list, generation + 1, q.image)) \in Seq(Updates)
        BY <2>3, SetUpdate
    <2>5. QED
        BY <1>11, <2>1, <2>4, <1>t, EnqueueSaves DEF SubmitContinues
<1>12. CASE SubmitFails
    BY <1>12, SaveUntouched DEF SubmitFails, pageVars
<1>l. CASE LateSubmit
    <2>1. PICK list \in orphans : stored' = Saved(list)
        BY <1>l DEF LateSubmit
    <2>2. Saved(stored') = stored'
        BY <2>1, SavedTwice DEF Types, SubmitTypes
    <2>3. QED
        BY <1>l, <2>2 DEF LateSubmit, SaveInv, ConversationSaved, listVars, pageVars
<1>13. CASE SendMessage
    <2>1. generation + 1 \in Gens
        BY <1>13, SendChatFacts DEF SendMessage
    <2>2. AppendUserMessagePair(messages, generation + 1, FALSE) \in Seq(Messages)
        BY <2>1, <1>t, PairElements DEF ListTypes
    <2>3. QED
        BY <1>13, <2>2, <1>t, SetUpdate, RenderSaves DEF SendMessage, pageVars
<1>14. CASE StopGeneration
    <2> DEFINE fl == FlushedChunks(generation)
               u == [op |-> "stopped", gen |-> generation + 1]
    <2>1. generation + 1 \in Gens
        <3>1. generation < MaxGen
            BY <1>14 DEF StopGeneration
        <3>2. QED
            BY <3>1, PlaygroundAssumption DEF Types, RequestTypes, Gens
    <2>2. fl \in Seq(Updates) /\ u \in Updates
        BY <2>1, FlushedType, SimpleUpdate
    <2>3. PICK first : UpdateAndRender(fl \o <<u>>, first)
        BY <1>14 DEF StopGeneration
    <2> HIDE DEF fl, u
    <2>4. fl \o <<u>> \in Seq(Updates)
        BY <2>2
    <2>5. QED
        BY <1>14, <2>3, <2>4, <1>t, RenderSaves DEF StopGeneration, pageVars
<1>15. ASSUME NEW i \in 1 .. Len(messages), RegenerateMessage(i)
      PROVE  SaveInv'
    <2>1. generation + 1 \in Gens
        BY <1>15, SendChatFacts DEF RegenerateMessage
    <2>2. CreateRegeneratedMessages(messages, i, generation + 1) \in Seq(Messages)
        BY <2>1, <1>t, RegeneratedElements DEF ListTypes
    <2>3. QED
        BY <1>15, <2>2, <1>t, SetUpdate, RenderSaves DEF RegenerateMessage, pageVars
<1>16. ASSUME NEW i \in 1 .. Len(messages), DeleteMessage(i)
      PROVE  SaveInv'
    <2>1. messages[i] \in Messages
        BY <1>t, ElementOfSeq DEF ListTypes
    <2>2. [op |-> "remove", key |-> Key(messages[i])] \in Updates
        BY <2>1 DEF Updates, Key, Keys, Messages
    <2>3. <<[op |-> "remove", key |-> Key(messages[i])]>> \in Seq(Updates)
        BY <2>2
    <2>4. QED
        BY <1>16, <2>3, <1>t, RenderSaves DEF DeleteMessage, pageVars
<1>17. ASSUME NEW i \in 1 .. Len(messages), OpenEditor(i)
      PROVE  SaveInv'
    BY <1>17, SaveUntouched DEF OpenEditor, pageVars
<1>18. ASSUME NEW i \in 1 .. Len(messages), ApplyEdit(i)
      PROVE  SaveInv'
    <2>1. EditMessage(messages, i) \in Seq(Messages)
        BY <1>t, EditElements DEF ListTypes
    <2>2. QED
        BY <1>18, <2>1, <1>t, SetUpdate, RenderSaves DEF ApplyEdit
<1>19. ASSUME NEW i \in 1 .. Len(messages), ApplyEditAndSubmit(i)
      PROVE  SaveInv'
    <2>1. generation + 1 \in Gens
        BY <1>19, SendChatFacts DEF ApplyEditAndSubmit
    <2>2. EditMessage(messages, i) \in Seq(Messages) /\ i \in 1 .. Len(EditMessage(messages, i))
        BY <1>t, EditElements DEF ListTypes
    <2>3. CreateRegeneratedMessages(EditMessage(messages, i), i, generation + 1) \in Seq(Messages)
        BY <2>1, <2>2, RegeneratedElements
    <2>4. QED
        BY <1>19, <2>3, <1>t, SetUpdate, RenderSaves DEF ApplyEditAndSubmit
<1>20. CASE HandleSubmit
    BY <1>20, SaveUntouched DEF HandleSubmit, pageVars
<1>21. CASE CloseEditor
    BY <1>21, SaveUntouched DEF CloseEditor, pageVars
<1>22. CASE OpenClearDialog
    BY <1>22, SaveUntouched DEF OpenClearDialog, pageVars
<1>23. CASE CloseClearDialog
    BY <1>23, SaveUntouched DEF CloseClearDialog, pageVars
<1>24. CASE ClearMessages
    <2>1. <<>> \in Seq(Messages)
        OBVIOUS
    <2>2. QED
        BY <1>24, <2>1, <1>t, SetUpdate, RenderSaves DEF ClearMessages
<1>25. CASE Mount
    BY <1>25, <1>t, LoadPageSaves DEF Mount
<1>26. CASE Reload
    BY <1>26, <1>t, LoadPageSaves DEF Reload
<1>27. CASE Unmount
    <2>1. ~mounted' /\ ~saveTimer' /\ latest' = latest
        BY <1>27 DEF Unmount
    <2>2. CASE saveTimer
        BY <1>27, <2>1, <2>2, <1>s DEF Unmount, SaveOnLeave, SaveMessages, SaveInv, ConversationSaved
    <2>3. CASE ~saveTimer
        BY <1>27, <2>1, <2>3 DEF Unmount, SaveOnLeave, SaveInv, ConversationSaved, saveVars
    <2>4. QED
        BY <2>2, <2>3
<1>28. CASE SaveTimerFires
    BY <1>28, <1>s DEF SaveTimerFires, SaveMessages, SaveInv, ConversationSaved, pageVars
<1>29. CASE UNCHANGED vars
    BY <1>29, SaveUntouched DEF vars, pageVars
<1>30. CASE Counted
    BY <1>30, <1>15, <1>16, <1>17, <1>18, <1>19, <1>20, <1>21, <1>22, <1>23, <1>24,
       <1>25, <1>26, <1>27, <1>28 DEF Counted, UserStep, MessageStep
<1>31. CASE Uncounted
    BY <1>31, <1>1, <1>2, <1>3, <1>4, <1>5, <1>6, <1>7, <1>8, <1>9, <1>10, <1>11,
       <1>12, <1>l, <1>13, <1>14 DEF Uncounted, PageStep, StreamStep, ReplyStep
<1>32. QED
    BY <1>29, <1>30, <1>31 DEF Next

\* Whenever no save is scheduled, localStorage holds the conversation as last
\* rendered, on the page and after leaving it, unless it refused the write or
\* a submit of a page left before wrote to it: no order of renders, debounced saves, reloads and mounts loses an update
\* (usePlaygroundState's persistMessages, its timer and its cleanup).
THEOREM ConversationSavedCorrect == Spec => []ConversationSaved
<1>1. SaveInv => ConversationSaved
    BY DEF SaveInv
<1>2. QED
    BY <1>1, InitTypes, NextTypes, InitSaveInv, NextSaveInv, PTL DEF Spec

-----------------------------------------------------------------------------
\* The view: the list the next render shows.

Busy == isStreaming \/ isRequesting

\* The list the next render would show if the generation ended before it: what a
\* click that stops the answer finds.
Kept == ApplyAll(messages, updates, generation + 1)

-----------------------------------------------------------------------------
\* The queue.

LEMMA ApplySet ==
    ASSUME NEW list, NEW l, NEW g
    PROVE  ApplyMessageStateUpdate(list, [op |-> "set", list |-> l], g) = l
BY DEF ApplyMessageStateUpdate

LEMMA ApplyAnswer ==
    ASSUME NEW list, NEW u, u.op \in AnswerOps, NEW g
    PROVE  ApplyMessageStateUpdate(list, u, g)
               = IF u.gen = g THEN UpdateLastAssistantMessage(list, u) ELSE list
BY DEF ApplyMessageStateUpdate, AnswerOps

\* Short sequences, and a sequence with one or two elements more.
LEMMA TwoElements ==
    ASSUME NEW S, NEW u \in S, NEW v \in S
    PROVE  <<u>> \o <<v>> = <<u, v>>
<1>1. <<u>> \in Seq(S) /\ <<v>> \in Seq(S) /\ Len(<<u>>) = 1 /\ Len(<<v>>) = 1
    OBVIOUS
<1>2. <<u>> \o <<v>> \in Seq(S) /\ Len(<<u>> \o <<v>>) = 2
    BY <1>1, ConcatProperties
<1>3. (<<u>> \o <<v>>)[1] = u /\ (<<u>> \o <<v>>)[2] = v
    BY <1>1, ConcatProperties
<1>4. \A s \in Seq(S) : Len(s) = 2 /\ s[1] = u /\ s[2] = v => s = <<u, v>>
    OBVIOUS
<1> QED
    BY <1>2, <1>3, <1>4

LEMMA ShortSequences ==
    ASSUME NEW S, NEW u \in S, NEW v \in S
    PROVE  /\ <<u>> \in Seq(S) /\ <<u, v>> \in Seq(S)
           /\ <<u>>[1] = u /\ Tail(<<u>>) = <<>>
           /\ <<u, v>>[1] = u /\ Tail(<<u, v>>) = <<v>>
           /\ Append(<<>>, u) = <<u>> /\ Append(<<u>>, v) = <<u, v>>
<1>1. <<u>> \in Seq(S) /\ <<u, v>> \in Seq(S)
    OBVIOUS
<1>2. <<u>>[1] = u /\ Tail(<<u>>) = <<>>
    OBVIOUS
<1>3. <<u, v>>[1] = u
    OBVIOUS
<1>4. Tail(<<u, v>>) = <<v>>
    OBVIOUS
<1>5. Append(<<>>, u) = <<u>>
    OBVIOUS
<1>6. \A ws \in Seq(S), w \in S : ws \o <<w>> = Append(ws, w)
    OBVIOUS
<1>7. Append(<<u>>, v) = <<u, v>>
    BY <1>1, <1>6, TwoElements
<1> QED
    BY <1>1, <1>2, <1>3, <1>4, <1>5, <1>7

LEMMA LongerSequences ==
    ASSUME NEW S, NEW u \in S, NEW v \in S, NEW us \in Seq(S)
    PROVE  /\ us \o <<u>> = Append(us, u) /\ us \o <<>> = us /\ Append(us, u) \in Seq(S)
           /\ us \o <<u, v>> = Append(Append(us, u), v)
<1>1. us \o <<u>> = Append(us, u) /\ Append(us, u) \in Seq(S)
    OBVIOUS
<1>2. us \o <<u, v>> = Append(Append(us, u), v)
    <2>1. ASSUME NEW w, w = us \o <<u>> PROVE us \o <<u, v>> = Append(w, v)
        BY <2>1
    <2> QED
        BY <2>1, <1>1
<1>3. us \o <<>> = us
    OBVIOUS
<1> QED
    BY <1>1, <1>2, <1>3

\* A queue of one and of two.
LEMMA ApplyOne ==
    ASSUME NEW list, NEW S, NEW u \in S, NEW g
    PROVE  ApplyAll(list, <<u>>, g) = ApplyMessageStateUpdate(list, u, g)
<1>1. <<>> \in Seq(S) /\ Append(<<>>, u) = <<u>>
    OBVIOUS
<1>2. ApplyAll(list, Append(<<>>, u), g) = ApplyMessageStateUpdate(ApplyAll(list, <<>>, g), u, g)
    BY <1>1, ApplyAllAppend
<1> QED
    BY <1>1, <1>2, ApplyAllEmpty

LEMMA ApplyTwo ==
    ASSUME NEW list, NEW S, NEW u \in S, NEW v \in S, NEW g
    PROVE  ApplyAll(list, <<u, v>>, g)
               = ApplyMessageStateUpdate(ApplyMessageStateUpdate(list, u, g), v, g)
<1>1. <<u>> \in Seq(S) /\ Append(<<u>>, v) = <<u, v>>
    BY ShortSequences
<1>2. ApplyAll(list, Append(<<u>>, v), g)
          = ApplyMessageStateUpdate(ApplyAll(list, <<u>>, g), v, g)
    BY <1>1, ApplyAllAppend
<1> QED
    BY <1>1, <1>2, ApplyOne

\* A longer queue with one and with two updaters more.
LEMMA ApplyMore ==
    ASSUME NEW list, NEW S, NEW us \in Seq(S), NEW u \in S, NEW g
    PROVE  ApplyAll(list, us \o <<u>>, g) = ApplyMessageStateUpdate(ApplyAll(list, us, g), u, g)
<1>1. us \o <<u>> = Append(us, u)
    BY LongerSequences
<1>2. ApplyAll(list, Append(us, u), g) = ApplyMessageStateUpdate(ApplyAll(list, us, g), u, g)
    BY ApplyAllAppend
<1> QED
    BY <1>1, <1>2

LEMMA ApplyTwoMore ==
    ASSUME NEW list, NEW S, NEW us \in Seq(S), NEW u \in S, NEW v \in S, NEW g
    PROVE  ApplyAll(list, us \o <<u, v>>, g)
               = ApplyMessageStateUpdate(
                     ApplyMessageStateUpdate(ApplyAll(list, us, g), u, g), v, g)
<1>1. us \o <<u, v>> = Append(Append(us, u), v) /\ Append(us, u) \in Seq(S)
    BY LongerSequences
<1>2. ApplyAll(list, Append(Append(us, u), v), g)
          = ApplyMessageStateUpdate(ApplyAll(list, Append(us, u), g), v, g)
    BY <1>1, ApplyAllAppend
<1>3. ApplyAll(list, Append(us, u), g) = ApplyMessageStateUpdate(ApplyAll(list, us, g), u, g)
    BY ApplyAllAppend
<1> QED
    BY <1>1, <1>2, <1>3

\* With nothing queued there is one list.
LEMMA NothingQueued ==
    ASSUME updates = <<>>
    PROVE  View = messages /\ Kept = messages
BY ApplyAllEmpty DEF View, Kept

LEMMA ViewTypes ==
    ASSUME Types
    PROVE  View \in Seq(Messages) /\ Kept \in Seq(Messages)
BY ApplyAllType DEF Types, ListTypes, View, Kept

-----------------------------------------------------------------------------
\* What queueing does to the lists. An updater of the current generation
\* changes the view; it changes what a stop finds only if React runs it at once.

QueueRuns(k) ==
    \/ Kept' = Kept /\ latest' = latest
    \/ updates = <<>> /\ Kept' = k /\ latest' = k

LEMMA EnqueueOne ==
    ASSUME Types, NEW u \in Updates, u.op \in AnswerOps, u.gen = generation,
           Enqueue(<<u>>), generation' = generation
    PROVE  /\ messages' = messages /\ shown' = shown
           /\ View' = UpdateLastAssistantMessage(View, u)
           /\ QueueRuns(UpdateLastAssistantMessage(messages, u))
<1> DEFINE after == UpdateLastAssistantMessage(messages, u)
           set == [op |-> "set", list |-> after]
<1>g. generation \in Nat /\ generation # generation + 1
    BY PlaygroundAssumption DEF Types, RequestTypes
<1>t. messages \in Seq(Messages) /\ updates \in Seq(Updates)
    BY DEF Types, ListTypes
<1>1. PICK atOnce \in MayRunAtOnce(<<u>>) :
          /\ updates' = Queued(<<u>>, atOnce, generation)
          /\ IF atOnce THEN latest' = updates'[1].list /\ saveTimer' = TRUE
             ELSE UNCHANGED <<latest, saveTimer>>
    BY DEF Enqueue
<1>2. messages' = messages /\ shown' = shown
    BY DEF Enqueue
<1>3. after = ApplyMessageStateUpdate(messages, u, generation)
    BY ApplyAnswer
<1>4. CASE atOnce
    <2>1. updates = <<>>
        BY <1>4 DEF MayRunAtOnce
    <2>2. updates' = <<set>>
        <3>1. updates' = <<[op |-> "set", list |->
                   ApplyMessageStateUpdate(messages, <<u>>[1], generation)]>> \o Tail(<<u>>)
            BY <1>1, <1>4 DEF Queued
        <3>2. <<u>>[1] = u /\ Tail(<<u>>) = <<>>
            BY ShortSequences
        <3>3. updates' = <<set>> \o <<>>
            <4> HIDE DEF after
            <4> QED
                BY <1>3, <3>1, <3>2
        <3>4. set \in Updates
            <4>1. after \in Seq(Messages)
                BY <1>3, <1>t, ApplyUpdateType
            <4> HIDE DEF after
            <4> QED
                BY <4>1, SetUpdate
        <3> HIDE DEF set
        <3> QED
            BY <3>3, <3>4, TwoElements
    <2>3. set \in Updates
        <3>1. after \in Seq(Messages)
            BY <1>3, <1>t, ApplyUpdateType
        <3> HIDE DEF after
        <3> QED
            BY <3>1, SetUpdate
    <2>4. latest' = after
        <3>1. latest' = updates'[1].list
            BY <1>1, <1>4
        <3>2. updates'[1] = set
            <4> HIDE DEF set
            <4> QED
                BY <2>2, <2>3, ShortSequences
        <3> HIDE DEF after
        <3> QED
            BY <3>1, <3>2
    <2>5. ApplyAll(messages, <<set>>, generation) = after
          /\ ApplyAll(messages, <<set>>, generation + 1) = after
        <3> HIDE DEF after
        <3>1. \A h : ApplyMessageStateUpdate(messages, set, h) = after
            BY ApplySet
        <3> HIDE DEF set
        <3> QED
            BY <2>3, <3>1, ApplyOne
    <2>6. View' = after /\ Kept' = after
        <3> HIDE DEF after, set
        <3> QED
            BY <1>2, <2>2, <2>5 DEF View, Kept
    <2>7. View' = UpdateLastAssistantMessage(View, u)
        BY <2>1, <2>6, NothingQueued
    <2> QED
        BY <1>2, <2>1, <2>4, <2>6, <2>7 DEF QueueRuns
<1>5. CASE ~atOnce
    <2>1. updates' = updates \o <<u>> /\ latest' = latest
        BY <1>1, <1>5 DEF Queued
    <2>2. ApplyAll(messages, updates \o <<u>>, generation)
              = UpdateLastAssistantMessage(View, u)
        <3>1. ApplyAll(messages, updates \o <<u>>, generation)
                  = ApplyMessageStateUpdate(View, u, generation)
            BY <1>t, ApplyMore DEF View
        <3> QED
            BY <3>1, ApplyAnswer
    <2>3. ApplyAll(messages, updates \o <<u>>, generation + 1) = Kept
        <3>1. ApplyAll(messages, updates \o <<u>>, generation + 1)
                  = ApplyMessageStateUpdate(Kept, u, generation + 1)
            BY <1>t, ApplyMore DEF Kept
        <3> QED
            BY <1>g, <3>1, ApplyAnswer
    <2>4. View' = UpdateLastAssistantMessage(View, u) /\ Kept' = Kept
        BY <1>2, <2>1, <2>2, <2>3 DEF View, Kept
    <2> QED
        BY <1>2, <2>1, <2>4 DEF QueueRuns
<1> QED
    BY <1>4, <1>5

LEMMA EnqueueTwo ==
    ASSUME Types, NEW u \in Updates, u.op \in AnswerOps, u.gen = generation,
           NEW v \in Updates, v.op \in AnswerOps, v.gen = generation,
           Enqueue(<<u, v>>), generation' = generation
    PROVE  /\ messages' = messages /\ shown' = shown
           /\ View' = UpdateLastAssistantMessage(UpdateLastAssistantMessage(View, u), v)
           /\ QueueRuns(UpdateLastAssistantMessage(messages, u))
<1> DEFINE after == UpdateLastAssistantMessage(messages, u)
           set == [op |-> "set", list |-> after]
<1>g. generation \in Nat /\ generation # generation + 1
    BY PlaygroundAssumption DEF Types, RequestTypes
<1>t. messages \in Seq(Messages) /\ updates \in Seq(Updates)
    BY DEF Types, ListTypes
<1>1. PICK atOnce \in MayRunAtOnce(<<u, v>>) :
          /\ updates' = Queued(<<u, v>>, atOnce, generation)
          /\ IF atOnce THEN latest' = updates'[1].list /\ saveTimer' = TRUE
             ELSE UNCHANGED <<latest, saveTimer>>
    BY DEF Enqueue
<1>2. messages' = messages /\ shown' = shown
    BY DEF Enqueue
<1>3. after = ApplyMessageStateUpdate(messages, u, generation)
    BY ApplyAnswer
<1>4. CASE atOnce
    <2>1. updates = <<>>
        BY <1>4 DEF MayRunAtOnce
    <2>2. updates' = <<set, v>>
        <3>1. updates' = <<[op |-> "set", list |->
                   ApplyMessageStateUpdate(messages, <<u, v>>[1], generation)]>> \o Tail(<<u, v>>)
            BY <1>1, <1>4 DEF Queued
        <3>2. <<u, v>>[1] = u /\ Tail(<<u, v>>) = <<v>>
            BY ShortSequences
        <3>3. updates' = <<set>> \o <<v>>
            <4> HIDE DEF after
            <4> QED
                BY <1>3, <3>1, <3>2
        <3>4. set \in Updates
            <4>1. after \in Seq(Messages)
                BY <1>3, <1>t, ApplyUpdateType
            <4> HIDE DEF after
            <4> QED
                BY <4>1, SetUpdate
        <3> HIDE DEF set
        <3> QED
            BY <3>3, <3>4, TwoElements
    <2>3. set \in Updates
        <3>1. after \in Seq(Messages)
            BY <1>3, <1>t, ApplyUpdateType
        <3> HIDE DEF after
        <3> QED
            BY <3>1, SetUpdate
    <2>4. latest' = after
        <3>1. latest' = updates'[1].list
            BY <1>1, <1>4
        <3>2. updates'[1] = set
            <4> HIDE DEF set
            <4> QED
                BY <2>2, <2>3, ShortSequences
        <3> HIDE DEF after
        <3> QED
            BY <3>1, <3>2
    <2>5. ApplyAll(messages, <<set, v>>, generation) = UpdateLastAssistantMessage(after, v)
          /\ ApplyAll(messages, <<set, v>>, generation + 1) = after
        <3> HIDE DEF after
        <3>1. \A h : ApplyMessageStateUpdate(messages, set, h) = after
            BY ApplySet
        <3>2. ApplyMessageStateUpdate(after, v, generation) = UpdateLastAssistantMessage(after, v)
            BY ApplyAnswer
        <3>4. ApplyMessageStateUpdate(after, v, generation + 1) = after
            BY <1>g, ApplyAnswer
        <3> HIDE DEF set
        <3>3. \A h : ApplyAll(messages, <<set, v>>, h)
                  = ApplyMessageStateUpdate(ApplyMessageStateUpdate(messages, set, h), v, h)
            BY <2>3, ApplyTwo
        <3> QED
            BY <3>1, <3>2, <3>3, <3>4
    <2>6. View' = UpdateLastAssistantMessage(after, v) /\ Kept' = after
        <3> HIDE DEF after, set
        <3> QED
            BY <1>2, <2>2, <2>5 DEF View, Kept
    <2>7. View' = UpdateLastAssistantMessage(UpdateLastAssistantMessage(View, u), v)
        BY <2>1, <2>6, NothingQueued
    <2> QED
        BY <1>2, <2>1, <2>4, <2>6, <2>7 DEF QueueRuns
<1>5. CASE ~atOnce
    <2>1. updates' = updates \o <<u, v>> /\ latest' = latest
        BY <1>1, <1>5 DEF Queued
    <2>2. ApplyAll(messages, updates \o <<u, v>>, generation)
              = UpdateLastAssistantMessage(UpdateLastAssistantMessage(View, u), v)
        <3>1. ApplyAll(messages, updates \o <<u, v>>, generation)
                  = ApplyMessageStateUpdate(
                        ApplyMessageStateUpdate(View, u, generation), v, generation)
            BY <1>t, ApplyTwoMore DEF View
        <3> QED
            BY <3>1, ApplyAnswer
    <2>3. ApplyAll(messages, updates \o <<u, v>>, generation + 1) = Kept
        <3>1. ApplyAll(messages, updates \o <<u, v>>, generation + 1)
                  = ApplyMessageStateUpdate(
                        ApplyMessageStateUpdate(Kept, u, generation + 1), v, generation + 1)
            BY <1>t, ApplyTwoMore DEF Kept
        <3> QED
            BY <1>g, <3>1, ApplyAnswer
    <2>4. /\ View' = UpdateLastAssistantMessage(UpdateLastAssistantMessage(View, u), v)
          /\ Kept' = Kept
        BY <1>2, <2>1, <2>2, <2>3 DEF View, Kept
    <2> QED
        BY <1>2, <2>1, <2>4 DEF QueueRuns
<1> QED
    BY <1>4, <1>5

LEMMA EnqueueSet ==
    ASSUME Types, NEW l \in Seq(Messages), Enqueue(SetTo(l))
    PROVE  /\ messages' = messages /\ shown' = shown /\ updates' # <<>>
           /\ View' = l /\ Kept' = l /\ latest' \in {latest, l}
<1> DEFINE set == [op |-> "set", list |-> l]
<1>t. messages \in Seq(Messages) /\ updates \in Seq(Updates) /\ set \in Updates
    BY SetUpdate DEF Types, ListTypes
<1>s. \A list, h : ApplyMessageStateUpdate(list, set, h) = l
    BY ApplySet
<1>l. set.list = l
    OBVIOUS
<1>u. SetTo(l) = <<set>>
    BY DEF SetTo
<1> HIDE DEF set
<1>1. PICK atOnce \in MayRunAtOnce(<<set>>) :
          /\ updates' = Queued(<<set>>, atOnce, generation)
          /\ IF atOnce THEN latest' = updates'[1].list /\ saveTimer' = TRUE
             ELSE UNCHANGED <<latest, saveTimer>>
    BY <1>u DEF Enqueue
<1>2. messages' = messages /\ shown' = shown
    BY DEF Enqueue
<1>3. CASE atOnce
    <2>1. updates' = <<[op |-> "set", list |->
               ApplyMessageStateUpdate(messages, <<set>>[1], generation)]>> \o Tail(<<set>>)
        BY <1>1, <1>3 DEF Queued
    <2>2. <<set>>[1] = set /\ Tail(<<set>>) = <<>>
        BY <1>t, ShortSequences
    <2>3. updates' = <<set>> \o <<>>
        BY <2>1, <2>2, <1>s DEF set
    <2>4. updates' = <<set>>
        BY <2>3
    <2>5. latest' = updates'[1].list
        BY <1>1, <1>3
    <2>6. latest' = l
        BY <1>l, <2>2, <2>4, <2>5
    <2>7. \A list, h : ApplyAll(list, <<set>>, h) = l
        BY <1>t, <1>s, ApplyOne
    <2> QED
        BY <1>2, <2>4, <2>6, <2>7 DEF View, Kept
<1>4. CASE ~atOnce
    <2>1. updates' = updates \o <<set>> /\ latest' = latest
        BY <1>1, <1>4 DEF Queued
    <2>2. \A h : ApplyAll(messages, updates \o <<set>>, h) = l
        BY <1>t, <1>s, ApplyMore
    <2>3. updates' # <<>>
        BY <2>1, <1>t
    <2> QED
        BY <1>2, <2>1, <2>2, <2>3 DEF View, Kept
<1> QED
    BY <1>3, <1>4

-----------------------------------------------------------------------------
\* What a render shows.

Displays(l) ==
    /\ messages' = l /\ updates' = <<>> /\ View' = l /\ Kept' = l
    /\ shown' = Busy'
    /\ latest' = l \/ (latest' = latest /\ updates = <<>> /\ l = messages)

LEMMA RenderDisplays ==
    ASSUME Types, NEW us \in Seq(Updates), NEW first, UpdateAndRender(us, first)
    PROVE  \E atOnce \in MayRunAtOnce(us) :
               Displays(ApplyAll(messages, Queued(us, atOnce, first), generation'))
<1>1. PICK atOnce \in MayRunAtOnce(us) :
          LET q == Queued(us, atOnce, first) IN
          /\ messages' = ApplyAll(messages, q, generation')
          /\ updates' = <<>>
          /\ shown' = (isStreaming' \/ isRequesting')
          /\ IF q = <<>> THEN UNCHANGED <<latest, saveTimer>>
             ELSE latest' = messages' /\ saveTimer' = TRUE
    BY DEF UpdateAndRender
<1> DEFINE q == Queued(us, atOnce, first)
<1>2. messages' = ApplyAll(messages, q, generation')
    BY <1>1
<1>3. updates' = <<>> /\ shown' = Busy'
    BY <1>1 DEF Busy
<1>4. View' = messages' /\ Kept' = messages'
    BY <1>3, ApplyAllEmpty DEF View, Kept
<1>5. latest' = messages' \/ (latest' = latest /\ updates = <<>> /\ messages' = messages)
    <2>1. CASE q = <<>>
        <3>1. updates = <<>>
            BY <2>1, QueuedType DEF Types
        <3>2. latest' = latest
            BY <1>1, <2>1
        <3>3. messages' = messages
            BY <1>2, <2>1, ApplyAllEmpty
        <3> QED
            BY <3>1, <3>2, <3>3
    <2>2. CASE q # <<>>
        BY <1>1, <2>2
    <2> QED
        BY <2>1, <2>2
<1>6. Displays(ApplyAll(messages, q, generation'))
    <2> HIDE DEF q
    <2> QED
        BY <1>2, <1>3, <1>4, <1>5 DEF Displays
<1> QED
    BY <1>6

LEMMA DisplaysSet ==
    ASSUME Types, NEW l \in Seq(Messages), NEW first, UpdateAndRender(SetTo(l), first)
    PROVE  Displays(l)
<1> DEFINE set == [op |-> "set", list |-> l]
<1>t. messages \in Seq(Messages) /\ updates \in Seq(Updates) /\ set \in Updates
    BY SetUpdate DEF Types, ListTypes
<1>s. \A list, h : ApplyMessageStateUpdate(list, set, h) = l
    BY ApplySet
<1>u. SetTo(l) = <<set>> /\ SetTo(l) \in Seq(Updates)
    BY SetUpdate DEF SetTo
<1> HIDE DEF set
<1>1. PICK atOnce \in MayRunAtOnce(<<set>>) :
          Displays(ApplyAll(messages, Queued(<<set>>, atOnce, first), generation'))
    BY <1>u, RenderDisplays
<1>2. CASE atOnce
    <2>1. Queued(<<set>>, atOnce, first) = <<[op |-> "set", list |->
               ApplyMessageStateUpdate(messages, <<set>>[1], first)]>> \o Tail(<<set>>)
        BY <1>2 DEF Queued
    <2>2. <<set>>[1] = set /\ Tail(<<set>>) = <<>>
        BY <1>t, ShortSequences
    <2>3. Queued(<<set>>, atOnce, first) = <<set>> \o <<>>
        BY <2>1, <2>2, <1>s DEF set
    <2>4. Queued(<<set>>, atOnce, first) = <<set>>
        BY <2>3
    <2>5. \A list, h : ApplyAll(list, <<set>>, h) = l
        BY <1>t, <1>s, ApplyOne
    <2> QED
        BY <1>1, <2>4, <2>5
<1>3. CASE ~atOnce
    <2>1. Queued(<<set>>, atOnce, first) = updates \o <<set>>
        BY <1>3 DEF Queued
    <2>2. \A h : ApplyAll(messages, updates \o <<set>>, h) = l
        BY <1>t, <1>s, ApplyMore
    <2> QED
        BY <1>1, <2>1, <2>2
<1> QED
    BY <1>2, <1>3

LEMMA DisplaysView ==
    ASSUME Types, NEW first, UpdateAndRender(<<>>, first), generation' = generation
    PROVE  Displays(View)
<1>1. <<>> \in Seq(Updates) /\ updates \in Seq(Updates)
    BY DEF Types, ListTypes
<1>2. PICK atOnce \in MayRunAtOnce(<<>>) :
          Displays(ApplyAll(messages, Queued(<<>>, atOnce, first), generation'))
    BY <1>1, RenderDisplays
<1>3. ~atOnce
    BY <1>2 DEF MayRunAtOnce
<1>4. Queued(<<>>, atOnce, first) = updates \o <<>>
    BY <1>3 DEF Queued
<1>5. Queued(<<>>, atOnce, first) = updates
    BY <1>1, <1>4
<1> QED
    BY <1>2, <1>5 DEF View

LEMMA DisplaysRemoved ==
    ASSUME Types, NEW k \in Keys,
           UpdateAndRender(<<[op |-> "remove", key |-> k]>>, generation),
           generation' = generation
    PROVE  Displays(RemoveMessageByKey(View, k))
<1> DEFINE u == [op |-> "remove", key |-> k]
           after == RemoveMessageByKey(messages, k)
           set == [op |-> "set", list |-> after]
<1>t. messages \in Seq(Messages) /\ updates \in Seq(Updates) /\ u \in Updates
    BY DEF Types, ListTypes, Updates
<1>s. \A list, h : ApplyMessageStateUpdate(list, u, h) = RemoveMessageByKey(list, k)
    BY DEF ApplyMessageStateUpdate
<1> HIDE DEF u
<1>u. <<u>> \in Seq(Updates) /\ <<u>>[1] = u /\ Tail(<<u>>) = <<>>
    BY <1>t, ShortSequences
<1>1. PICK atOnce \in MayRunAtOnce(<<u>>) :
          Displays(ApplyAll(messages, Queued(<<u>>, atOnce, generation), generation'))
    BY <1>u, RenderDisplays DEF u
<1>2. CASE atOnce
    <2>1. Queued(<<u>>, atOnce, generation) = <<[op |-> "set", list |->
               ApplyMessageStateUpdate(messages, <<u>>[1], generation)]>> \o Tail(<<u>>)
        BY <1>2 DEF Queued
    <2>2. Queued(<<u>>, atOnce, generation) = <<set>> \o <<>>
        <3> HIDE DEF after
        <3> QED
            BY <2>1, <1>u, <1>s DEF after
    <2>3. set \in Updates
        <3>1. after \in Seq(Messages)
            BY <1>s, <1>t, ApplyUpdateType
        <3> HIDE DEF after
        <3> QED
            BY <3>1, SetUpdate
    <2>4. \A list, h : ApplyMessageStateUpdate(list, set, h) = after
        <3> HIDE DEF after
        <3> QED
            BY ApplySet
    <2>5. Queued(<<u>>, atOnce, generation) = <<set>>
        <3> HIDE DEF set
        <3> QED
            BY <2>2
    <2>6. \A list, h : ApplyAll(list, <<set>>, h) = after
        <3> HIDE DEF set, after
        <3> QED
            BY <2>3, <2>4, ApplyOne
    <2>7. View = messages
        BY <1>2, NothingQueued DEF MayRunAtOnce
    <2> HIDE DEF set
    <2> QED
        BY <1>1, <2>5, <2>6, <2>7
<1>3. CASE ~atOnce
    <2>1. Queued(<<u>>, atOnce, generation) = updates \o <<u>>
        BY <1>3 DEF Queued
    <2>2. ApplyAll(messages, updates \o <<u>>, generation) = ApplyMessageStateUpdate(View, u, generation)
        BY <1>t, ApplyMore DEF View
    <2> QED
        BY <1>1, <1>s, <2>1, <2>2
<1> QED
    BY <1>2, <1>3

\* The chunks that the current generation still holds, and a list with them.
Chunk == [op |-> "chunks", gen |-> generation, text |-> pending.text]
Heard(l) == IF pending.text = NoText THEN l ELSE UpdateLastAssistantMessage(l, Chunk)
Ending(o) == [op |-> o, gen |-> generation]
Stop == [op |-> "stopped", gen |-> generation + 1]

LEMMA OwnUpdates ==
    ASSUME Types, generation \in Gens
    PROVE  /\ Chunk \in Updates /\ Chunk.op \in AnswerOps /\ Chunk.gen = generation
           /\ \A o \in {"answer", "image", "complete", "stopped", "error"} :
                  /\ Ending(o) \in Updates /\ Ending(o).op \in AnswerOps
                  /\ Ending(o).gen = generation
<1>1. pending.text \in Texts
    BY DEF Types, ChunkTypes
<1> QED
    BY <1>1, SimpleUpdate DEF Chunk, Ending, Updates, AnswerOps

\* A stop ends what the generation that is over has left, unless its last
\* chunks were the first thing queued and React has run them.
LEMMA DisplaysStopped ==
    ASSUME Types, pending.gen = generation, generation + 1 \in Gens, generation' = generation + 1,
           UpdateAndRender(FlushedChunks(generation) \o <<Stop>>,
                           IF FlushedChunks(generation) = <<>> THEN generation + 1 ELSE generation)
    PROVE  \/ Displays(UpdateLastAssistantMessage(Kept, Stop))
           \/ /\ updates = <<>> /\ pending.text # NoText
              /\ Displays(UpdateLastAssistantMessage(Heard(messages), Stop))
<1>g. generation \in Nat /\ generation # generation + 1
    BY PlaygroundAssumption DEF Types, RequestTypes
<1>t. messages \in Seq(Messages) /\ updates \in Seq(Updates)
    BY DEF Types, ListTypes
<1>v. Stop \in Updates /\ Stop.op \in AnswerOps /\ Stop.gen = generation + 1
    BY SimpleUpdate DEF Stop, AnswerOps
<1>k. ApplyMessageStateUpdate(Kept, Stop, generation + 1) = UpdateLastAssistantMessage(Kept, Stop)
    BY <1>v, ApplyAnswer
<1>1. CASE pending.text = NoText
    <2> DEFINE after == UpdateLastAssistantMessage(messages, Stop)
               set == [op |-> "set", list |-> after]
    <2>1. FlushedChunks(generation) = <<>>
        BY <1>1 DEF FlushedChunks
    <2>2. <<Stop>> \in Seq(Updates) /\ <<Stop>>[1] = Stop /\ Tail(<<Stop>>) = <<>>
        BY <1>v, ShortSequences
    <2>3. FlushedChunks(generation) \o <<Stop>> = <<Stop>>
        BY <2>1, <2>2
    <2>4. UpdateAndRender(<<Stop>>, generation + 1)
        BY <2>1, <2>3
    <2>5. PICK atOnce \in MayRunAtOnce(<<Stop>>) :
              Displays(ApplyAll(messages, Queued(<<Stop>>, atOnce, generation + 1), generation'))
        BY <2>2, <2>4, RenderDisplays
    <2>6. after = ApplyMessageStateUpdate(messages, Stop, generation + 1)
        BY <1>v, ApplyAnswer
    <2>7. CASE atOnce
        <3>1. Queued(<<Stop>>, atOnce, generation + 1) = <<[op |-> "set", list |->
                   ApplyMessageStateUpdate(messages, <<Stop>>[1], generation + 1)]>> \o Tail(<<Stop>>)
            BY <2>7 DEF Queued
        <3>2. Queued(<<Stop>>, atOnce, generation + 1) = <<set>> \o <<>>
            <4> HIDE DEF after
            <4> QED
                BY <3>1, <2>2, <2>6
        <3>3. set \in Updates
            <4>1. after \in Seq(Messages)
                BY <1>v, <1>t, <2>6, ApplyUpdateType
            <4> HIDE DEF after
            <4> QED
                BY <4>1, SetUpdate
        <3>4. \A list, h : ApplyMessageStateUpdate(list, set, h) = after
            <4> HIDE DEF after
            <4> QED
                BY ApplySet
        <3>5. Queued(<<Stop>>, atOnce, generation + 1) = <<set>>
            <4> HIDE DEF set
            <4> QED
                BY <3>2
        <3>6. \A list, h : ApplyAll(list, <<set>>, h) = after
            <4> HIDE DEF set, after
            <4> QED
                BY <3>3, <3>4, ApplyOne
        <3>7. Kept = messages
            BY <2>7, NothingQueued DEF MayRunAtOnce
        <3> HIDE DEF set
        <3> QED
            BY <2>5, <3>5, <3>6, <3>7
    <2>8. CASE ~atOnce
        <3>1. Queued(<<Stop>>, atOnce, generation + 1) = updates \o <<Stop>>
            BY <2>8 DEF Queued
        <3>2. ApplyAll(messages, updates \o <<Stop>>, generation + 1)
                  = ApplyMessageStateUpdate(Kept, Stop, generation + 1)
            BY <1>t, <1>v, ApplyMore DEF Kept
        <3> QED
            BY <1>k, <2>5, <3>1, <3>2
    <2> QED
        BY <2>7, <2>8
<1>2. CASE pending.text # NoText
    <2> DEFINE us == <<Chunk, Stop>>
               after == UpdateLastAssistantMessage(messages, Chunk)
               set == [op |-> "set", list |-> after]
    <2>1. FlushedChunks(generation) = <<Chunk>>
        BY <1>2 DEF FlushedChunks, Chunk
    <2>u. Chunk \in Updates /\ Chunk.op \in AnswerOps /\ Chunk.gen = generation
        <3>1. FlushedChunks(generation) # <<>>
            BY <2>1
        <3> QED
            BY <3>1, FlushedType, OwnUpdates
    <2>2. us \in Seq(Updates) /\ us[1] = Chunk /\ Tail(us) = <<Stop>>
        BY <1>v, <2>u, ShortSequences
    <2>3. FlushedChunks(generation) \o <<Stop>> = us /\ FlushedChunks(generation) # <<>>
        BY <1>v, <2>1, <2>u, TwoElements
    <2>4. UpdateAndRender(us, generation)
        <3> HIDE DEF us
        <3> QED
            BY <2>3
    <2>5. PICK atOnce \in MayRunAtOnce(us) :
              Displays(ApplyAll(messages, Queued(us, atOnce, generation), generation'))
        <3> HIDE DEF us
        <3> QED
            BY <2>2, <2>4, RenderDisplays
    <2>6. after = ApplyMessageStateUpdate(messages, Chunk, generation)
        BY <2>u, ApplyAnswer
    <2>7. CASE atOnce
        <3>1. Queued(us, atOnce, generation) = <<[op |-> "set", list |->
                   ApplyMessageStateUpdate(messages, us[1], generation)]>> \o Tail(us)
            BY <2>7 DEF Queued
        <3>2. Queued(us, atOnce, generation) = <<set>> \o <<Stop>>
            <4> HIDE DEF after, us
            <4> QED
                BY <3>1, <2>2, <2>6
        <3>3. set \in Updates
            <4>1. after \in Seq(Messages)
                BY <2>u, <1>t, <2>6, ApplyUpdateType
            <4> HIDE DEF after
            <4> QED
                BY <4>1, SetUpdate
        <3>4. \A list, h : ApplyMessageStateUpdate(list, set, h) = after
            <4> HIDE DEF after
            <4> QED
                BY ApplySet
        <3>5. Queued(us, atOnce, generation) = <<set, Stop>>
            <4> HIDE DEF set, us
            <4> QED
                BY <1>v, <3>2, <3>3, TwoElements
        <3>6. ApplyAll(messages, <<set, Stop>>, generation + 1)
                  = UpdateLastAssistantMessage(after, Stop)
            <4> HIDE DEF set, after
            <4>1. ApplyAll(messages, <<set, Stop>>, generation + 1)
                      = ApplyMessageStateUpdate(
                            ApplyMessageStateUpdate(messages, set, generation + 1), Stop, generation + 1)
                BY <1>v, <3>3, ApplyTwo
            <4>2. ApplyMessageStateUpdate(after, Stop, generation + 1)
                      = UpdateLastAssistantMessage(after, Stop)
                BY <1>v, ApplyAnswer
            <4> QED
                BY <3>4, <4>1, <4>2
        <3>7. updates = <<>>
            BY <2>7 DEF MayRunAtOnce
        <3>8. after = Heard(messages)
            BY <1>2 DEF Heard
        <3>9. Displays(UpdateLastAssistantMessage(after, Stop))
            <4> HIDE DEF set, us, after
            <4> QED
                BY <2>5, <3>5, <3>6
        <3> HIDE DEF set, us, after
        <3> QED
            BY <1>2, <3>7, <3>8, <3>9
    <2>8. CASE ~atOnce
        <3>1. Queued(us, atOnce, generation) = updates \o us
            BY <2>8 DEF Queued
        <3>2. ApplyAll(messages, updates \o us, generation + 1)
                  = ApplyMessageStateUpdate(
                        ApplyMessageStateUpdate(Kept, Chunk, generation + 1), Stop, generation + 1)
            BY <1>t, <1>v, <2>u, ApplyTwoMore DEF Kept
        <3>3. ApplyMessageStateUpdate(Kept, Chunk, generation + 1) = Kept
            BY <1>g, <2>u, ApplyAnswer
        <3> HIDE DEF us
        <3> QED
            BY <1>k, <2>5, <3>1, <3>2, <3>3
    <2> QED
        BY <2>7, <2>8
<1> QED
    BY <1>1, <1>2

-----------------------------------------------------------------------------
\* The buffered chunks are those of the current generation, and it has a stream.

ChunkInv == pending.gen = generation /\ (pending.text # NoText => source = generation)

-----------------------------------------------------------------------------
\* The moves: what each step does to the lists. The actions come down to these,
\* and the invariants below are proved once for each move.

\* The lists that submits under way captured, and those that storage holds or
\* that a page left before may still save.
Submitted == {q.list : q \in converting}
Left == {stored} \cup orphans

\* No list changes; saving, opening an editor, submitting may happen.
Rests ==
    /\ UNCHANGED <<messages, updates, latest, shown, generation, mounted, cut, mode, done>>
    /\ (Busy' <=> Busy)
    /\ Left' \subseteq Left \cup {Saved(latest)} \cup {Saved(l) : l \in Left}
    /\ \/ Submitted' \subseteq Submitted
       \/ Submitted' \subseteq Submitted \cup {messages} /\ mounted /\ ~shown
    /\ \/ editing' \subseteq editing
       \/ mounted /\ ~shown /\ \E i \in 1 .. Len(messages) : editing' = {Key(messages[i])}

Quiet == UNCHANGED <<received, pending>>

\* The next pieces of the current stream reach the buffer.
Hears ==
    \E c \in Channels, k \in 1 .. MaxPieces :
        LET n == received[generation][c] + k
            chunk == IF mode[generation] = "delta" THEN [i \in 1..k |-> received[generation][c] + i]
                     ELSE [i \in 1..n |-> i]
            merged == MergePendingStreamChunk(pending.text[c], chunk)
        IN  /\ generation \in Gens /\ source = generation
            /\ n \in 1 .. MaxPieces
            /\ received' = [received EXCEPT ![generation][c] = n]
            /\ pending' = [pending EXCEPT !.text[c] = merged]
            /\ swallowed' = IF /\ mode[generation] = "delta"
                               /\ \/ Repeats(chunk, pending.text[c])
                                  \/ Repeats(merged, LastText(View, c))
                            THEN swallowed \cup {generation} ELSE swallowed

\* The current request queues updates: the view becomes v, the queue's first
\* updater makes k of the messages.
Tells(v, k) ==
    /\ UNCHANGED <<messages, shown, generation, mounted, cut, mode, editing>>
    /\ Left' = Left /\ Submitted' = Submitted
    /\ View' = v /\ QueueRuns(k)
    /\ pending' = NoChunks(generation)
    /\ Busy /\ generation \in Gens

Flushes ==
    /\ Tells(Heard(View), Heard(messages))
    /\ pending.text # NoText /\ Busy'
    /\ UNCHANGED <<received, done>>

Ends(o) ==
    /\ Tells(UpdateLastAssistantMessage(Heard(View), Ending(o)),
             IF pending.text = NoText THEN UpdateLastAssistantMessage(messages, Ending(o))
             ELSE Heard(messages))
    /\ ~Busy'

EndsComplete ==
    /\ Ends("complete")
    /\ source = generation /\ done' = done \cup {generation} /\ received' = received
EndsWithError == Ends("error") /\ UNCHANGED <<done, received>>
EndsWithReply ==
    /\ Ends("answer")
    /\ generation \in requests /\ mode[generation] # "image"
    /\ done' = done \cup {generation}
    /\ received' = [received EXCEPT ![generation]["content"] = 1]
EndsWithImage ==
    /\ Ends("image")
    /\ generation \in requests /\ mode[generation] = "image"
    /\ done' = done \cup {generation} /\ received' = received

\* Renders and clicks of the same generation.
SameRequest ==
    /\ UNCHANGED <<generation, mounted, mode, received, done, pending>>
    /\ Left' = Left /\ Submitted' = Submitted
    /\ (Busy' <=> Busy) /\ mounted

Renders == SameRequest /\ Displays(View) /\ UNCHANGED <<editing, cut>>
Deletes ==
    /\ SameRequest /\ ~shown /\ UNCHANGED <<editing, cut>>
    /\ \E i \in 1 .. Len(messages) : Displays(RemoveMessageByKey(View, Key(messages[i])))
Edits ==
    /\ SameRequest /\ CutQueue /\ editing' = {}
    /\ \E i \in 1 .. Len(messages) :
           Key(messages[i]) \in editing /\ Displays(EditMessage(messages, i))
Clears == SameRequest /\ Displays(<<>>) /\ editing' = {} /\ cut' = cut

\* A new generation.
Begins ==
    /\ generation + 1 \in Gens /\ generation' = generation + 1
    /\ pending' = NoChunks(generation + 1)
    /\ mounted /\ UNCHANGED <<mounted, received>> /\ Left' = Left

Asks ==
    /\ Begins /\ Busy' /\ UNCHANGED <<done, cut>>
    /\ \E md \in Modes : mode' = [mode EXCEPT ![generation + 1] = md]

Sends ==
    /\ Asks /\ Submitted' = Submitted /\ editing' \subseteq editing
    /\ \/ /\ ~shown \/ messages = <<>>
          /\ Displays(AppendUserMessagePair(messages, generation + 1, FALSE))
       \/ /\ ~shown
          /\ \E i \in 1 .. Len(messages) :
                 Displays(CreateRegeneratedMessages(messages, i, generation + 1))
       \/ \E i \in 1 .. Len(messages) :
              /\ ~IsAnswer(messages[i])
              /\ Displays(CreateRegeneratedMessages(EditMessage(messages, i), i, generation + 1))

Converts ==
    /\ Asks /\ UNCHANGED <<messages, shown, editing>> /\ Submitted' \subseteq Submitted
    /\ \E list \in Submitted, image \in BOOLEAN :
           LET l == AppendUserMessagePair(list, generation + 1, image) IN
           View' = l /\ Kept' = l /\ latest' \in {latest, l}

Stops ==
    /\ Begins /\ ~Busy' /\ shown /\ CutQueue
    /\ UNCHANGED <<mode, done, editing>> /\ Submitted' = Submitted
    /\ \/ Displays(UpdateLastAssistantMessage(Kept, Stop))
       \/ /\ updates = <<>> /\ pending.text # NoText
          /\ Displays(UpdateLastAssistantMessage(Heard(messages), Stop))

\* Loading and leaving the page.
Loads ==
    /\ UNCHANGED <<generation, mode, received, cut>>
    /\ mounted' /\ ~Busy' /\ ~shown'
    /\ messages' = Loaded(stored) /\ latest' = messages' /\ View' = messages' /\ Kept' = messages'
    /\ Left' \subseteq Left \cup {Saved(Loaded(stored))}
    /\ Submitted' = {} /\ editing' = {} /\ pending' = NoChunks(generation)
    /\ done' = {g \in done : \A i \in 1..Len(stored) :
                                 stored[i].gen = g => ~OlderInStorage(stored[i])}
    /\ Mount \/ Reload

Leaves ==
    /\ generation + 1 \in Gens /\ generation' = generation + 1
    /\ pending' = NoChunks(generation + 1)
    /\ UNCHANGED <<messages, latest, cut, mode, received, done>>
    /\ View' = messages /\ Kept' = messages
    /\ mounted /\ ~mounted' /\ ~Busy'
    /\ \A l \in Left' : \/ l \in Left \cup {Saved(latest)}
                        \/ \E list \in Submitted, image \in BOOLEAN :
                               l = AppendUserMessagePair(list, generation + 1, image)
    /\ Submitted' = {} /\ editing' = {}

Moves ==
    \/ Rests /\ Quiet
    \/ Rests /\ Hears
    \/ Flushes \/ EndsComplete \/ EndsWithError \/ EndsWithReply \/ EndsWithImage
    \/ Renders \/ Deletes \/ Edits \/ Clears
    \/ Sends \/ Converts \/ Stops \/ Loads \/ Leaves

LEMMA NextChunkInv == Types /\ ChunkInv /\ [Next]_vars => ChunkInv'
<1> SUFFICES ASSUME Types, ChunkInv, [Next]_vars PROVE ChunkInv'
    OBVIOUS
<1>c. ChunkInv
    OBVIOUS
<1>n. \A h : NoChunks(h).gen = h /\ NoChunks(h).text = NoText
    BY DEF NoChunks
<1>1. ASSUME NEW g \in Gens, HeadersReady(g)
      PROVE  ChunkInv'
    BY <1>1, <1>c DEF HeadersReady, ChunkInv, chunkVars
<1>2. ASSUME NEW g \in Gens, HeadersFail(g)
      PROVE  ChunkInv'
    BY <1>2, <1>c, <1>n DEF HeadersFail, EndGeneration, ChunkInv, chunkVars
<1>3. ASSUME NEW g \in Gens, NEW c \in Channels, StreamMessage(g, c)
      PROVE  ChunkInv'
    <2>1. generation' = generation /\ source' = source /\ source = generation
        BY <1>3 DEF StreamMessage, IsCurrent, requestVars
    <2>2. pending' = pending \/ pending'.gen = pending.gen
        <3>1. pending \in [gen : 0..MaxGen, text : Texts]
            BY DEF Types, ChunkTypes
        <3>2. pending' = pending \/ \E t : pending' = [pending EXCEPT !.text[c] = t]
            BY <1>3, Zenon DEF StreamMessage, chunkVars
        <3> QED
            BY <3>1, <3>2
    <2> QED
        BY <1>c, <2>1, <2>2 DEF ChunkInv
<1>4. ASSUME NEW g \in Gens, StreamDone(g)
      PROVE  ChunkInv'
    BY <1>4, <1>c, <1>n DEF StreamDone, IsCurrent, EndGeneration, ChunkInv
<1>5. ASSUME NEW g \in Gens, StreamError(g)
      PROVE  ChunkInv'
    BY <1>5, <1>c, <1>n DEF StreamError, IsCurrent, EndGeneration, ChunkInv
<1>6. ASSUME NEW g \in Gens, StreamSilentlyCloses(g)
      PROVE  ChunkInv'
    BY <1>6, <1>c DEF StreamSilentlyCloses, ChunkInv, chunkVars
<1>7. ASSUME NEW g \in Gens, ReplyArrives(g)
      PROVE  ChunkInv'
    BY <1>7, <1>c DEF ReplyArrives, ChunkInv, chunkVars
<1>8. ASSUME NEW g \in Gens, ReplyFails(g)
      PROVE  ChunkInv'
    BY <1>8, <1>c, <1>n DEF ReplyFails, ReplyCounts, EndGeneration, ChunkInv, chunkVars
<1>9. CASE Render
    BY <1>9, <1>c DEF Render, ChunkInv, requestVars, chunkVars
<1>10. CASE FlushTimer
    BY <1>10, <1>c, <1>n DEF FlushTimer, ChunkInv, chunkVars, requestVars
<1>11. CASE SubmitContinues
    BY <1>11, <1>n DEF SubmitContinues, SendChat, SendStreamingChat, SendRequest, StartGeneration, ChunkInv
<1>12. CASE SubmitFails
    BY <1>12, <1>c DEF SubmitFails, ChunkInv, requestVars, chunkVars
<1>l. CASE LateSubmit
    BY <1>l, <1>c DEF LateSubmit, ChunkInv, requestVars, chunkVars
<1>13. CASE SendMessage
    BY <1>13, <1>n DEF SendMessage, SendChat, SendStreamingChat, SendRequest, StartGeneration, ChunkInv
<1>14. CASE StopGeneration
    BY <1>14, <1>n DEF StopGeneration, StartGeneration, ChunkInv
<1>15. ASSUME NEW i \in 1 .. Len(messages), RegenerateMessage(i)
      PROVE  ChunkInv'
    BY <1>15, <1>n DEF RegenerateMessage, SendChat, SendStreamingChat, SendRequest, StartGeneration, ChunkInv
<1>16. ASSUME NEW i \in 1 .. Len(messages), DeleteMessage(i)
      PROVE  ChunkInv'
    BY <1>16, <1>c DEF DeleteMessage, ChunkInv, requestVars, chunkVars
<1>17. ASSUME NEW i \in 1 .. Len(messages), OpenEditor(i)
      PROVE  ChunkInv'
    BY <1>17, <1>c DEF OpenEditor, ChunkInv, requestVars, chunkVars
<1>18. ASSUME NEW i \in 1 .. Len(messages), ApplyEdit(i)
      PROVE  ChunkInv'
    BY <1>18, <1>c DEF ApplyEdit, ChunkInv, requestVars, chunkVars
<1>19. ASSUME NEW i \in 1 .. Len(messages), ApplyEditAndSubmit(i)
      PROVE  ChunkInv'
    BY <1>19, <1>n DEF ApplyEditAndSubmit, SendChat, SendStreamingChat, SendRequest, StartGeneration, ChunkInv
<1>20. CASE HandleSubmit
    BY <1>20, <1>c DEF HandleSubmit, ChunkInv, requestVars, chunkVars
<1>21. CASE CloseEditor
    BY <1>21, <1>c DEF CloseEditor, ChunkInv, requestVars, chunkVars
<1>22. CASE OpenClearDialog
    BY <1>22, <1>c DEF OpenClearDialog, ChunkInv, requestVars, chunkVars
<1>23. CASE CloseClearDialog
    BY <1>23, <1>c DEF CloseClearDialog, ChunkInv, requestVars, chunkVars
<1>24. CASE ClearMessages
    BY <1>24, <1>c DEF ClearMessages, ChunkInv, requestVars, chunkVars
<1>25. CASE Mount
    BY <1>25, <1>n DEF Mount, LoadPage, ChunkInv
<1>26. CASE Reload
    BY <1>26, <1>n DEF Reload, LoadPage, ChunkInv
<1>27. CASE Unmount
    BY <1>27, <1>n DEF Unmount, StartGeneration, ChunkInv
<1>28. CASE SaveTimerFires
    BY <1>28, <1>c DEF SaveTimerFires, ChunkInv, requestVars, chunkVars
<1>29. CASE UNCHANGED vars
    BY <1>29, <1>c DEF vars, requestVars, chunkVars, ChunkInv
<1>30. CASE Counted
    BY <1>30, <1>15, <1>16, <1>17, <1>18, <1>19, <1>20, <1>21, <1>22, <1>23, <1>24,
       <1>25, <1>26, <1>27, <1>28 DEF Counted, UserStep, MessageStep
<1>31. CASE Uncounted
    BY <1>31, <1>1, <1>2, <1>3, <1>4, <1>5, <1>6, <1>7, <1>8, <1>9, <1>10, <1>11,
       <1>12, <1>l, <1>13, <1>14 DEF Uncounted, PageStep, StreamStep, ReplyStep
<1>32. QED
    BY <1>29, <1>30, <1>31 DEF Next

\* Steps that leave the lists alone.
LEMMA RestMoves ==
    ASSUME UNCHANGED <<messages, updates, latest, shown, generation, mounted, cut, mode, done,
                       stored, orphans, received, pending>>,
           Busy' <=> Busy,
           \/ converting' \subseteq converting
           \/ Submitted' \subseteq Submitted \cup {messages} /\ mounted /\ ~shown,
           \/ editing' \subseteq editing
           \/ mounted /\ ~shown /\ \E i \in 1 .. Len(messages) : editing' = {Key(messages[i])}
    PROVE  Rests /\ Quiet
<1>1. converting' \subseteq converting => Submitted' \subseteq Submitted
    BY DEF Submitted
<1>2. Left' = Left
    BY DEF Left
<1> QED
    BY <1>1, <1>2 DEF Rests, Quiet

\* The end of the current generation.
LEMMA EndMoves ==
    ASSUME Types, ChunkInv, generation \in Gens, NEW o \in {"complete", "error"},
           EndGeneration(generation, o), Busy, ~isStreaming',
           UNCHANGED <<generation, mounted, cut, mode, stored, orphans, converting, editing>>
    PROVE  Ends(o)
<1>1. /\ Chunk \in Updates /\ Chunk.op \in AnswerOps /\ Chunk.gen = generation
      /\ Ending(o) \in Updates /\ Ending(o).op \in AnswerOps /\ Ending(o).gen = generation
    BY OwnUpdates
<1>2. /\ Enqueue(FlushedChunks(generation) \o <<Ending(o)>>)
      /\ pending' = NoChunks(generation) /\ isRequesting' = FALSE
    BY DEF EndGeneration, Ending
<1>3. CASE pending.text = NoText
    <2>1. FlushedChunks(generation) = <<>>
        BY <1>3 DEF FlushedChunks
    <2>2. <<>> \o <<Ending(o)>> = <<Ending(o)>>
        <3> HIDE DEF Ending
        <3> QED
            BY <1>1
    <2>3. Enqueue(<<Ending(o)>>)
        BY <1>2, <2>1, <2>2
    <2>4. /\ messages' = messages /\ shown' = shown
          /\ View' = UpdateLastAssistantMessage(View, Ending(o))
          /\ QueueRuns(UpdateLastAssistantMessage(messages, Ending(o)))
        BY <1>1, <2>3, EnqueueOne
    <2>5. Heard(View) = View
        BY <1>3 DEF Heard
    <2> QED
        BY <1>2, <1>3, <2>4, <2>5 DEF Ends, Tells, Busy, Left, Submitted
<1>4. CASE pending.text # NoText
    <2>1. FlushedChunks(generation) = <<Chunk>>
        BY <1>4 DEF FlushedChunks, Chunk, ChunkInv
    <2>2. <<Chunk>> \o <<Ending(o)>> = <<Chunk, Ending(o)>>
        BY <1>1, TwoElements
    <2>3. Enqueue(<<Chunk, Ending(o)>>)
        BY <1>2, <2>1, <2>2
    <2>4. /\ messages' = messages /\ shown' = shown
          /\ View' = UpdateLastAssistantMessage(UpdateLastAssistantMessage(View, Chunk), Ending(o))
          /\ QueueRuns(UpdateLastAssistantMessage(messages, Chunk))
        BY <1>1, <2>3, EnqueueTwo
    <2>5. /\ Heard(View) = UpdateLastAssistantMessage(View, Chunk)
          /\ Heard(messages) = UpdateLastAssistantMessage(messages, Chunk)
        BY <1>4 DEF Heard
    <2> QED
        BY <1>2, <1>4, <2>4, <2>5 DEF Ends, Tells, Busy, Left, Submitted
<1> QED
    BY <1>3, <1>4

\* A new request.
LEMMA AskMoves ==
    ASSUME Types, SendChat(generation + 1), mounted, UNCHANGED <<mounted, stored, orphans, cut>>
    PROVE  Asks
<1>1. generation + 1 \in Gens /\ generation' = generation + 1 /\ isRequesting' = TRUE
    BY SendChatFacts
<1>2. pending' = NoChunks(generation + 1)
    BY DEF SendChat, SendStreamingChat, SendRequest, StartGeneration
<1>3. UNCHANGED <<received, done>>
    BY DEF SendChat
<1>4. \E md \in Modes : mode' = [mode EXCEPT ![generation + 1] = md]
    BY DEF SendChat
<1> QED
    BY <1>1, <1>2, <1>3, <1>4 DEF Asks, Begins, Busy, Left

LEMMA LoadMoves ==
    ASSUME LoadPage, Mount \/ Reload
    PROVE  Loads
<1>1. /\ UNCHANGED <<generation, mode, received, cut>>
      /\ mounted' = TRUE /\ isStreaming' = FALSE /\ isRequesting' = FALSE /\ shown' = FALSE
      /\ messages' = Loaded(stored) /\ latest' = Loaded(stored) /\ updates' = <<>>
      /\ converting' = {} /\ editing' = {} /\ pending' = NoChunks(generation)
      /\ done' = {g \in done : \A i \in 1..Len(stored) :
                                   stored[i].gen = g => ~OlderInStorage(stored[i])}
    BY DEF LoadPage
<1>2. View' = messages' /\ Kept' = messages'
    BY <1>1, ApplyAllEmpty DEF View, Kept
<1>3. stored' \in {stored, Saved(Loaded(stored))}
    BY DEF LoadPage, SaveMessages
<1>4. orphans' \subseteq orphans
    BY DEF Mount, Reload
<1>5. Left' \subseteq Left \cup {Saved(Loaded(stored))}
    BY <1>3, <1>4 DEF Left
<1>6. Submitted' = {}
    BY <1>1 DEF Submitted
<1> QED
    BY <1>1, <1>2, <1>5, <1>6 DEF Loads, Busy

\* A message of the current stream.
LEMMA HearMoves ==
    ASSUME Types, ChunkInv, NEW g \in Gens, NEW c \in Channels, StreamMessage(g, c)
    PROVE  Rests /\ Hears
<1>1. UNCHANGED <<messages, updates, latest, shown, generation, mounted, cut, mode, done, stored, orphans>>
    BY DEF StreamMessage, pageVars, listVars, saveVars
<1>2. converting' = converting /\ editing' = editing /\ (Busy' <=> Busy)
    BY DEF StreamMessage, pageVars, flagVars, Busy
<1>3. Rests
    BY <1>1, <1>2 DEF Rests, Left, Submitted
<1>4. g = generation /\ source = generation /\ pending.gen = g
    BY DEF StreamMessage, IsCurrent, ChunkInv
<1> DEFINE n(k) == received[generation][c] + k
           chunk(k) == IF mode[generation] = "delta" THEN [i \in 1..k |-> received[generation][c] + i]
                       ELSE [i \in 1..n(k) |-> i]
           merged(k) == MergePendingStreamChunk(pending.text[c], chunk(k))
<1>5. PICK k \in 1 .. MaxPieces :
          /\ received[g]["content"] + received[g]["reasoning"] + k <= MaxPieces
          /\ received' = [received EXCEPT ![generation][c] = n(k)]
          /\ pending' = [pending EXCEPT !.text[c] = merged(k)]
          /\ swallowed' = IF /\ mode[generation] = "delta"
                             /\ \/ Repeats(chunk(k), pending.text[c])
                                \/ Repeats(merged(k), LastText(View, c))
                          THEN swallowed \cup {generation} ELSE swallowed
    BY <1>4, Zenon DEF StreamMessage
<1>6. n(k) \in 1 .. MaxPieces
    <2>1. received[g]["content"] \in Nat /\ received[g]["reasoning"] \in Nat
        BY PlaygroundAssumption DEF Types, ChunkTypes, Channels
    <2>2. received[g]["content"] + received[g]["reasoning"] + k <= MaxPieces /\ k \in 1 .. MaxPieces
        BY <1>5, Zenon
    <2> QED
        BY <1>4, <2>1, <2>2, PlaygroundAssumption DEF Channels
<1>7. Hears
    BY <1>4, <1>5, <1>6, Zenon DEF Hears
<1> QED
    BY <1>3, <1>7

\* Every step of the page is one of the moves.
LEMMA MovesCover ==
    ASSUME Types, Ctl, ChunkInv, [Next]_vars
    PROVE  Moves
<1>c. Ctl
    OBVIOUS
<1>k. ChunkInv
    OBVIOUS
<1>m. \A i \in 1 .. Len(messages) : Key(messages[i]) \in Keys
    <2>1. \A i \in 1 .. Len(messages) : messages[i] \in Messages
        BY ElementOfSeq DEF Types, ListTypes
    <2> QED
        BY <2>1 DEF Messages, Key, Keys
<1>1. ASSUME NEW g \in Gens, HeadersReady(g)
      PROVE  Moves
    <2>1. UNCHANGED <<messages, updates, latest, shown, generation, mounted, cut, mode, done, stored, orphans, received, pending>>
        BY <1>1 DEF HeadersReady, chunkVars, pageVars, listVars, saveVars, historyVars
    <2>2. converting' = converting /\ editing' = editing
        BY <1>1 DEF HeadersReady, pageVars
    <2>3. Busy' <=> Busy
        BY <1>1, <1>c DEF HeadersReady, Ctl, Busy
    <2> QED
        BY <2>1, <2>2, <2>3, RestMoves DEF Moves
<1>2. ASSUME NEW g \in Gens, HeadersFail(g)
      PROVE  Moves
    <2>1. CASE g = generation
        <3>1. EndGeneration(generation, "error") /\ generation \in Gens
            BY <1>2, <2>1 DEF HeadersFail
        <3>2. UNCHANGED <<generation, mounted, cut, mode, stored, orphans, converting, editing, done, received, isStreaming>>
            BY <1>2 DEF HeadersFail, pageVars, saveVars, historyVars
        <3>3. Busy /\ ~isStreaming
            BY <1>2, <2>1, <1>c DEF HeadersFail, Ctl, Busy
        <3> QED
            BY <3>1, <3>2, <3>3, EndMoves DEF Busy, Moves, EndsWithError
    <2>2. CASE g # generation
        <3>1. UNCHANGED <<messages, updates, latest, shown, generation, mounted, cut, mode, done, stored, orphans, received, pending>>
            BY <1>2, <2>2 DEF HeadersFail, pageVars, listVars, chunkVars, saveVars, historyVars
        <3>2. converting' = converting /\ editing' = editing /\ (Busy' <=> Busy)
            BY <1>2, <2>2 DEF HeadersFail, pageVars, Busy, listVars, chunkVars, saveVars, historyVars
        <3> QED
            BY <3>1, <3>2, RestMoves DEF Moves
    <2> QED
        BY <2>1, <2>2
<1>3. ASSUME NEW g \in Gens, NEW c \in Channels, StreamMessage(g, c)
      PROVE  Moves
    BY <1>3, HearMoves DEF Moves
<1>4. ASSUME NEW g \in Gens, StreamDone(g)
      PROVE  Moves
    <2>1. EndGeneration(generation, "complete") /\ generation \in Gens /\ source = generation
        BY <1>4 DEF StreamDone, IsCurrent
    <2>2. UNCHANGED <<generation, mounted, cut, mode, stored, orphans, converting, editing>> /\ isStreaming' = FALSE
        BY <1>4 DEF StreamDone, CloseActiveSource, pageVars, saveVars, historyVars
    <2>3. done' = done \cup {generation} /\ received' = received
        BY <1>4, <2>1 DEF StreamDone, IsCurrent, historyVars
    <2>4. Busy
        BY <2>1, <1>c DEF Ctl, Busy
    <2> QED
        BY <2>1, <2>2, <2>3, <2>4, EndMoves DEF Moves, EndsComplete
<1>5. ASSUME NEW g \in Gens, StreamError(g)
      PROVE  Moves
    <2>1. EndGeneration(generation, "error") /\ generation \in Gens /\ source = generation
        BY <1>5 DEF StreamError, IsCurrent
    <2>2. UNCHANGED <<generation, mounted, cut, mode, stored, orphans, converting, editing>> /\ isStreaming' = FALSE
        BY <1>5 DEF StreamError, CloseActiveSource, pageVars, saveVars, historyVars
    <2>3. UNCHANGED <<done, received>>
        BY <1>5, <2>1 DEF StreamError, IsCurrent, historyVars
    <2>4. Busy
        BY <2>1, <1>c DEF Ctl, Busy
    <2> QED
        BY <2>1, <2>2, <2>3, <2>4, EndMoves DEF Moves, EndsWithError
<1>6. ASSUME NEW g \in Gens, StreamSilentlyCloses(g)
      PROVE  Moves
    <2>1. UNCHANGED <<messages, updates, latest, shown, generation, mounted, cut, mode, done, stored, orphans, received, pending>>
        BY <1>6 DEF StreamSilentlyCloses, requestVars, flagVars, chunkVars, pageVars, listVars, saveVars, historyVars
    <2>2. converting' = converting /\ editing' = editing /\ isStreaming' = isStreaming /\ isRequesting' = isRequesting
        BY <1>6 DEF StreamSilentlyCloses, requestVars, flagVars, chunkVars, pageVars, listVars, saveVars, historyVars
    <2> QED
        BY <2>1, <2>2, RestMoves DEF Busy, Moves
<1>7. ASSUME NEW g \in Gens, ReplyArrives(g)
      PROVE  Moves
    <2>1. CASE ReplyCounts(g)
        <3> DEFINE o == IF mode[g] = "image" THEN "image" ELSE "answer"
        <3>1. g = generation /\ generation \in Gens /\ generation \in requests
            BY <1>7, <2>1 DEF ReplyCounts, ReplyArrives
        <3>2. Enqueue(<<Ending(o)>>) /\ isRequesting' = FALSE /\ done' = done \cup {generation}
            BY <1>7, <2>1, <3>1 DEF ReplyArrives, Ending
        <3>3. UNCHANGED <<generation, mounted, cut, mode, stored, orphans, converting, editing, pending, isStreaming>>
            BY <1>7 DEF ReplyArrives, pageVars, saveVars, chunkVars
        <3>4. Busy /\ ~isStreaming /\ source # generation
            BY <3>1, <1>c DEF Ctl, Busy
        <3>5. pending.text = NoText /\ pending.gen = generation /\ pending = NoChunks(generation)
            BY <3>4, <1>k DEF ChunkInv, NoChunks, Types, ChunkTypes
        <3>6. /\ messages' = messages /\ shown' = shown
              /\ View' = UpdateLastAssistantMessage(View, Ending(o))
              /\ QueueRuns(UpdateLastAssistantMessage(messages, Ending(o)))
            <4>1. o \in {"answer", "image", "complete", "stopped", "error"}
                OBVIOUS
            <4> HIDE DEF o
            <4>2. Ending(o) \in Updates /\ Ending(o).op \in AnswerOps /\ Ending(o).gen = generation
                BY <3>1, <4>1, OwnUpdates
            <4> QED
                BY <3>2, <3>3, <4>2, EnqueueOne
        <3>7. Heard(View) = View
            BY <3>5 DEF Heard
        <3>8. Ends(o)
            <4> HIDE DEF o
            <4> QED
                BY <3>1, <3>2, <3>3, <3>4, <3>5, <3>6, <3>7 DEF Ends, Tells, Busy, Left, Submitted
        <3>9. received' = IF mode[generation] = "image" THEN received
                          ELSE [received EXCEPT ![generation]["content"] = 1]
            BY <1>7, <2>1, <3>1 DEF ReplyArrives
        <3>10. CASE mode[generation] = "image"
            BY <3>1, <3>2, <3>8, <3>9, <3>10 DEF EndsWithImage, Moves
        <3>11. CASE mode[generation] # "image"
            BY <3>1, <3>2, <3>8, <3>9, <3>11 DEF EndsWithReply, Moves
        <3> QED
            BY <3>10, <3>11
    <2>2. CASE ~ReplyCounts(g)
        <3>1. UNCHANGED <<messages, updates, latest, shown, generation, mounted, cut, mode, done, stored, orphans, received, pending>>
            BY <1>7, <2>2 DEF ReplyArrives, pageVars, listVars, chunkVars, saveVars
        <3>2. converting' = converting /\ editing' = editing /\ (Busy' <=> Busy)
            BY <1>7, <2>2 DEF ReplyArrives, pageVars, Busy, listVars, chunkVars, saveVars
        <3> QED
            BY <3>1, <3>2, RestMoves DEF Moves
    <2> QED
        BY <2>1, <2>2
<1>8. ASSUME NEW g \in Gens, ReplyFails(g)
      PROVE  Moves
    <2>1. CASE ReplyCounts(g)
        <3>1. EndGeneration(generation, "error") /\ generation \in Gens /\ generation \in requests
            BY <1>8, <2>1 DEF ReplyFails, ReplyCounts
        <3>2. UNCHANGED <<generation, mounted, cut, mode, stored, orphans, converting, editing, done, received, isStreaming>>
            BY <1>8 DEF ReplyFails, pageVars, saveVars, historyVars
        <3>3. Busy /\ ~isStreaming
            BY <3>1, <1>c DEF Ctl, Busy
        <3> QED
            BY <3>1, <3>2, <3>3, EndMoves DEF Busy, Moves, EndsWithError
    <2>2. CASE ~ReplyCounts(g)
        <3>1. UNCHANGED <<messages, updates, latest, shown, generation, mounted, cut, mode, done, stored, orphans, received, pending>>
            BY <1>8, <2>2 DEF ReplyFails, pageVars, listVars, chunkVars, saveVars, historyVars
        <3>2. converting' = converting /\ editing' = editing /\ (Busy' <=> Busy)
            BY <1>8, <2>2 DEF ReplyFails, pageVars, Busy, listVars, chunkVars, saveVars, historyVars
        <3> QED
            BY <3>1, <3>2, RestMoves DEF Moves
    <2> QED
        BY <2>1, <2>2
<1>9. CASE Render
    <2>1. SameRequest /\ UNCHANGED <<editing, cut>>
        BY <1>9 DEF Render, requestVars, flagVars, chunkVars, pageVars, saveVars, historyVars, SameRequest, Busy, Left, Submitted
    <2>2. UpdateAndRender(<<>>, generation) /\ generation' = generation
        BY <1>9 DEF Render
    <2> QED
        BY <2>1, <2>2, DisplaysView DEF Moves, Renders
<1>10. CASE FlushTimer
    <2>1. CASE flushTimer = generation /\ pending.text # NoText
        <3>1. source = generation /\ generation \in Gens /\ Busy
            <4>1. source = generation /\ Busy
                BY <2>1, <1>c, <1>k DEF Ctl, ChunkInv, Busy
            <4>2. generation \in 0 .. MaxGen /\ generation # 0
                BY <2>1 DEF Types, RequestTypes, ChunkTypes
            <4> QED
                BY <4>1, <4>2, PlaygroundAssumption DEF Gens
        <3>2. FlushedChunks(generation) = <<Chunk>>
            BY <2>1, <1>k DEF FlushedChunks, Chunk, ChunkInv
        <3>3. Enqueue(<<Chunk>>) /\ pending' = NoChunks(generation)
            BY <1>10, <2>1, <3>2, <1>k DEF FlushTimer, ChunkInv
        <3>4. UNCHANGED <<generation, mounted, cut, mode, stored, orphans, converting, editing, received, done>>
              /\ (Busy' <=> Busy)
            BY <1>10 DEF FlushTimer, pageVars, saveVars, historyVars, flagVars, Busy
        <3>5. Chunk \in Updates /\ Chunk.op \in AnswerOps /\ Chunk.gen = generation
            BY <3>1, OwnUpdates
        <3>6. /\ messages' = messages /\ shown' = shown
              /\ View' = UpdateLastAssistantMessage(View, Chunk)
              /\ QueueRuns(UpdateLastAssistantMessage(messages, Chunk))
            BY <3>3, <3>4, <3>5, EnqueueOne
        <3> QED
            BY <2>1, <3>1, <3>3, <3>4, <3>6 DEF Moves, Flushes, Tells, Heard, Left, Submitted
    <2>2. CASE flushTimer # generation \/ pending.text = NoText
        <3>1. /\ UNCHANGED <<generation, mounted, cut, mode, done, stored, orphans, received>>
              /\ converting' = converting /\ editing' = editing /\ (Busy' <=> Busy)
            BY <1>10 DEF FlushTimer, flagVars, pageVars, saveVars, historyVars, Busy
        <3>2. UNCHANGED <<messages, updates, latest, shown, pending>>
            <4>1. CASE flushTimer # generation
                BY <1>10, <4>1 DEF FlushTimer, listVars, chunkVars
            <4>2. CASE flushTimer = generation
                <5>1. FlushedChunks(flushTimer) = <<>>
                    BY <4>2, <2>2 DEF FlushedChunks
                <5>2. Enqueue(<<>>)
                    BY <1>10, <4>2, <5>1 DEF FlushTimer
                <5>3. pending' = NoChunks(pending.gen)
                    BY <1>10, <4>2, <1>k DEF FlushTimer, ChunkInv
                <5>4. pending = NoChunks(pending.gen)
                    BY <2>2, <4>2 DEF NoChunks, Types, ChunkTypes
                <5>5. PICK atOnce \in MayRunAtOnce(<<>>) :
                          /\ updates' = Queued(<<>>, atOnce, generation)
                          /\ IF atOnce THEN latest' = updates'[1].list /\ saveTimer' = TRUE
                             ELSE UNCHANGED <<latest, saveTimer>>
                    BY <5>2 DEF Enqueue
                <5>6. ~atOnce
                    BY <5>5 DEF MayRunAtOnce
                <5>7. updates' = updates \o <<>> /\ latest' = latest
                    BY <5>5, <5>6 DEF Queued
                <5>8. updates' = updates
                    BY <5>7 DEF Types, ListTypes
                <5> QED
                    BY <5>2, <5>3, <5>4, <5>7, <5>8 DEF Enqueue
            <4> QED
                BY <4>1, <4>2
        <3> QED
            BY <3>1, <3>2, RestMoves DEF Moves
    <2> QED
        BY <2>1, <2>2
<1>11. CASE SubmitContinues
    <2>1. PICK q \in converting :
              /\ SendChat(generation + 1)
              /\ Enqueue(SetTo(AppendUserMessagePair(q.list, generation + 1, q.image)))
        BY <1>11 DEF SubmitContinues
    <2> DEFINE l == AppendUserMessagePair(q.list, generation + 1, q.image)
    <2>2. Asks
        <3>1. mounted /\ UNCHANGED <<mounted, stored, orphans, cut>>
            BY <1>11 DEF SubmitContinues, saveVars
        <3> QED
            BY <2>1, <3>1, AskMoves
    <2>3. converting' \subseteq converting /\ editing' = editing
        BY <1>11 DEF SubmitContinues
    <2>4. l \in Seq(Messages) /\ q.image \in BOOLEAN /\ q.list \in Submitted
        <3>1. q.list \in Seq(Messages) /\ generation + 1 \in Gens /\ q.image \in BOOLEAN
            BY <2>1, SubmitFields, SendChatFacts
        <3> QED
            BY <3>1, PairElements DEF Submitted
    <2>5. Enqueue(SetTo(l))
        BY <2>1
    <2> HIDE DEF l
    <2>6. messages' = messages /\ shown' = shown /\ View' = l /\ Kept' = l /\ latest' \in {latest, l}
        BY <2>4, <2>5, EnqueueSet
    <2>7. Submitted' \subseteq Submitted
        BY <2>3 DEF Submitted
    <2> QED
        BY <2>2, <2>3, <2>4, <2>6, <2>7 DEF Moves, Converts, l
<1>12. CASE SubmitFails
    <2>1. UNCHANGED <<messages, updates, latest, shown, generation, mounted, cut, mode, done, stored, orphans, received, pending>>
        BY <1>12 DEF SubmitFails, requestVars, flagVars, chunkVars, pageVars, listVars, saveVars, historyVars
    <2>2. converting' \subseteq converting /\ editing' = editing /\ isStreaming' = isStreaming /\ isRequesting' = isRequesting
        BY <1>12 DEF SubmitFails, requestVars, flagVars, chunkVars, pageVars, listVars, saveVars, historyVars
    <2> QED
        BY <2>1, <2>2, RestMoves DEF Busy, Moves
<1>l. CASE LateSubmit
    <2>1. UNCHANGED <<messages, updates, latest, shown, generation, mounted, cut, mode, done, received, pending>>
        BY <1>l DEF LateSubmit, chunkVars, pageVars, listVars, historyVars
    <2>2. converting' = converting /\ editing' = editing /\ isStreaming' = isStreaming /\ isRequesting' = isRequesting
        BY <1>l DEF LateSubmit, pageVars, flagVars
    <2>3. orphans' \subseteq orphans /\ \E list \in orphans : stored' = Saved(list)
        BY <1>l DEF LateSubmit
    <2>4. Left' \subseteq Left \cup {Saved(latest)} \cup {Saved(l) : l \in Left}
        BY <2>3 DEF Left
    <2>5. Rests /\ Quiet
        BY <2>1, <2>2, <2>4 DEF Rests, Quiet, Submitted, Busy
    <2> QED
        BY <2>5 DEF Moves
<1>13. CASE SendMessage
    <2>1. SendChat(generation + 1) /\ generation + 1 \in Gens
        BY <1>13, SendChatFacts DEF SendMessage
    <2>2. Asks
        <3>1. mounted /\ UNCHANGED <<mounted, stored, orphans, cut>>
            BY <1>13 DEF SendMessage, UserMayAct, pageVars, saveVars
        <3> QED
            BY <2>1, <3>1, AskMoves
    <2>3. converting' = converting /\ editing' \subseteq editing
        BY <1>13 DEF SendMessage, pageVars
    <2>4. AppendUserMessagePair(messages, generation + 1, FALSE) \in Seq(Messages)
        BY <2>1, PairElements DEF Types, ListTypes
    <2>5. Displays(AppendUserMessagePair(messages, generation + 1, FALSE))
        BY <1>13, <2>4, DisplaysSet DEF SendMessage
    <2>6. ~shown \/ messages = <<>>
        BY <1>13 DEF SendMessage
    <2> QED
        BY <2>2, <2>3, <2>5, <2>6 DEF Moves, Sends, Submitted
<1>14. CASE StopGeneration
    <2>1. /\ UpdateAndRender(FlushedChunks(generation) \o <<Stop>>,
                            IF FlushedChunks(generation) = <<>> THEN generation + 1 ELSE generation)
          /\ mounted /\ shown /\ CutQueue /\ generation < MaxGen
        BY <1>14 DEF StopGeneration, Stop, UserMayAct
    <2>2. /\ generation' = generation + 1 /\ pending' = NoChunks(generation + 1)
          /\ isStreaming' = FALSE /\ isRequesting' = FALSE
        BY <1>14 DEF StopGeneration, StartGeneration
    <2>3. UNCHANGED <<mode, done, converting, editing, mounted, received, stored, orphans>>
        BY <1>14 DEF StopGeneration, pageVars, saveVars
    <2>4. generation + 1 \in Gens
        BY <2>1, PlaygroundAssumption DEF Types, RequestTypes, Gens
    <2>5. \/ Displays(UpdateLastAssistantMessage(Kept, Stop))
          \/ /\ updates = <<>> /\ pending.text # NoText
             /\ Displays(UpdateLastAssistantMessage(Heard(messages), Stop))
        BY <2>1, <2>2, <2>4, <1>k, DisplaysStopped DEF ChunkInv
    <2> QED
        BY <2>1, <2>2, <2>3, <2>4, <2>5 DEF Moves, Stops, Begins, Busy, Left, Submitted
<1>15. ASSUME NEW i \in 1 .. Len(messages), RegenerateMessage(i)
      PROVE  Moves
    <2>1. SendChat(generation + 1) /\ generation + 1 \in Gens
        BY <1>15, SendChatFacts DEF RegenerateMessage
    <2>2. Asks
        <3>1. mounted /\ UNCHANGED <<mounted, stored, orphans, cut>>
            BY <1>15 DEF RegenerateMessage, UserMayAct, pageVars, saveVars
        <3> QED
            BY <2>1, <3>1, AskMoves
    <2>3. converting' = converting /\ editing' \subseteq editing /\ ~shown
        BY <1>15 DEF RegenerateMessage, pageVars
    <2>4. CreateRegeneratedMessages(messages, i, generation + 1) \in Seq(Messages)
        BY <2>1, RegeneratedElements DEF Types, ListTypes
    <2>5. Displays(CreateRegeneratedMessages(messages, i, generation + 1))
        BY <1>15, <2>4, DisplaysSet DEF RegenerateMessage
    <2> QED
        BY <2>2, <2>3, <2>5 DEF Moves, Sends, Submitted
<1>16. ASSUME NEW i \in 1 .. Len(messages), DeleteMessage(i)
      PROVE  Moves
    <2>1. SameRequest /\ UNCHANGED <<editing, cut>> /\ ~shown
        BY <1>16 DEF DeleteMessage, UserMayAct, requestVars, flagVars, chunkVars, pageVars, saveVars, historyVars, SameRequest, Busy, Left, Submitted
    <2>2. UpdateAndRender(<<[op |-> "remove", key |-> Key(messages[i])]>>, generation)
          /\ generation' = generation
        BY <1>16 DEF DeleteMessage
    <2>3. Key(messages[i]) \in Keys
        BY <1>m
    <2>4. Displays(RemoveMessageByKey(View, Key(messages[i])))
        BY <2>2, <2>3, DisplaysRemoved
    <2> QED
        BY <2>1, <2>4 DEF Moves, Deletes
<1>17. ASSUME NEW i \in 1 .. Len(messages), OpenEditor(i)
      PROVE  Moves
    <2>1. UNCHANGED <<messages, updates, latest, shown, generation, mounted, cut, mode, done, stored, orphans, received, pending>>
        BY <1>17 DEF OpenEditor, UserMayAct, requestVars, flagVars, chunkVars, listVars, saveVars, historyVars
    <2>2. converting' = converting /\ editing' = {Key(messages[i])} /\ mounted /\ ~shown /\ isStreaming' = isStreaming /\ isRequesting' = isRequesting
        BY <1>17 DEF OpenEditor, UserMayAct, requestVars, flagVars, chunkVars, listVars, saveVars, historyVars
    <2> QED
        BY <2>1, <2>2, RestMoves DEF Busy, Moves
<1>18. ASSUME NEW i \in 1 .. Len(messages), ApplyEdit(i)
      PROVE  Moves
    <2>1. SameRequest /\ CutQueue /\ editing' = {} /\ Key(messages[i]) \in editing
        BY <1>18 DEF ApplyEdit, UserMayAct, requestVars, flagVars, chunkVars, pageVars, saveVars, historyVars, SameRequest, Busy, Left, Submitted
    <2>2. EditMessage(messages, i) \in Seq(Messages)
        BY EditElements DEF Types, ListTypes
    <2>3. Displays(EditMessage(messages, i))
        BY <1>18, <2>2, DisplaysSet DEF ApplyEdit
    <2> QED
        BY <2>1, <2>3 DEF Moves, Edits
<1>19. ASSUME NEW i \in 1 .. Len(messages), ApplyEditAndSubmit(i)
      PROVE  Moves
    <2>1. SendChat(generation + 1) /\ generation + 1 \in Gens
        BY <1>19, SendChatFacts DEF ApplyEditAndSubmit
    <2>2. Asks
        <3>1. mounted /\ UNCHANGED <<mounted, stored, orphans, cut>>
            BY <1>19 DEF ApplyEditAndSubmit, UserMayAct, pageVars, saveVars
        <3> QED
            BY <2>1, <3>1, AskMoves
    <2>3. converting' = converting /\ editing' \subseteq editing /\ ~IsAnswer(messages[i])
        BY <1>19 DEF ApplyEditAndSubmit
    <2>4. CreateRegeneratedMessages(EditMessage(messages, i), i, generation + 1) \in Seq(Messages)
        <3>1. EditMessage(messages, i) \in Seq(Messages) /\ i \in 1 .. Len(EditMessage(messages, i))
            BY EditElements DEF Types, ListTypes
        <3> QED
            BY <2>1, <3>1, RegeneratedElements
    <2>5. Displays(CreateRegeneratedMessages(EditMessage(messages, i), i, generation + 1))
        BY <1>19, <2>4, DisplaysSet DEF ApplyEditAndSubmit
    <2> QED
        BY <2>2, <2>3, <2>5 DEF Moves, Sends, Submitted
<1>20. CASE HandleSubmit
    <2>1. UNCHANGED <<messages, updates, latest, shown, generation, mounted, cut, mode, done, stored, orphans, received, pending>>
        BY <1>20 DEF HandleSubmit, UserMayAct, requestVars, flagVars, chunkVars, listVars, saveVars, historyVars
    <2>2. Submitted' \subseteq Submitted \cup {messages} /\ mounted /\ ~shown /\ editing' = editing /\ isStreaming' = isStreaming /\ isRequesting' = isRequesting
        BY <1>20 DEF HandleSubmit, Submitted, UserMayAct, requestVars, flagVars, chunkVars, listVars, saveVars, historyVars
    <2> QED
        BY <2>1, <2>2, RestMoves DEF Busy, Moves
<1>21. CASE CloseEditor
    <2>1. UNCHANGED <<messages, updates, latest, shown, generation, mounted, cut, mode, done, stored, orphans, received, pending>>
        BY <1>21 DEF CloseEditor, requestVars, flagVars, chunkVars, pageVars, listVars, saveVars, historyVars
    <2>2. converting' = converting /\ editing' \subseteq editing /\ isStreaming' = isStreaming /\ isRequesting' = isRequesting
        BY <1>21 DEF CloseEditor, requestVars, flagVars, chunkVars, pageVars, listVars, saveVars, historyVars
    <2> QED
        BY <2>1, <2>2, RestMoves DEF Busy, Moves
<1>22. CASE OpenClearDialog
    <2>1. UNCHANGED <<messages, updates, latest, shown, generation, mounted, cut, mode, done, stored, orphans, received, pending>>
        BY <1>22 DEF OpenClearDialog, requestVars, flagVars, chunkVars, pageVars, listVars, saveVars, historyVars
    <2>2. converting' = converting /\ editing' = editing /\ isStreaming' = isStreaming /\ isRequesting' = isRequesting
        BY <1>22 DEF OpenClearDialog, requestVars, flagVars, chunkVars, pageVars, listVars, saveVars, historyVars
    <2> QED
        BY <2>1, <2>2, RestMoves DEF Busy, Moves
<1>23. CASE CloseClearDialog
    <2>1. UNCHANGED <<messages, updates, latest, shown, generation, mounted, cut, mode, done, stored, orphans, received, pending>>
        BY <1>23 DEF CloseClearDialog, requestVars, flagVars, chunkVars, pageVars, listVars, saveVars, historyVars
    <2>2. converting' = converting /\ editing' = editing /\ isStreaming' = isStreaming /\ isRequesting' = isRequesting
        BY <1>23 DEF CloseClearDialog, requestVars, flagVars, chunkVars, pageVars, listVars, saveVars, historyVars
    <2> QED
        BY <2>1, <2>2, RestMoves DEF Busy, Moves
<1>24. CASE ClearMessages
    <2>1. SameRequest /\ cut' = cut /\ editing' = {}
        BY <1>24 DEF ClearMessages, requestVars, flagVars, chunkVars, pageVars, saveVars, historyVars, SameRequest, Busy, Left, Submitted
    <2>2. <<>> \in Seq(Messages)
        OBVIOUS
    <2>3. Displays(<<>>)
        BY <1>24, <2>2, DisplaysSet DEF ClearMessages
    <2> QED
        BY <2>1, <2>3 DEF Moves, Clears
<1>25. CASE Mount
    <2>1. LoadPage /\ (Mount \/ Reload)
        BY <1>25 DEF Mount
    <2> QED
        BY <2>1, LoadMoves DEF Moves
<1>26. CASE Reload
    <2>1. LoadPage /\ (Mount \/ Reload)
        BY <1>26 DEF Reload
    <2> QED
        BY <2>1, LoadMoves DEF Moves
<1>27. CASE Unmount
    <2>1. /\ generation' = generation + 1 /\ pending' = NoChunks(generation + 1)
          /\ isStreaming' = FALSE /\ isRequesting' = FALSE
        BY <1>27 DEF Unmount, StartGeneration
    <2>2. UNCHANGED <<messages, latest, cut, mode, received, done>> /\ updates' = <<>>
        BY <1>27 DEF Unmount, historyVars
    <2>3. View' = messages /\ Kept' = messages
        BY <2>2, ApplyAllEmpty DEF View, Kept
    <2>4. mounted /\ ~mounted' /\ converting' = {} /\ editing' = {} /\ generation < MaxGen
        BY <1>27 DEF Unmount
    <2>5. \A l \in Left' : \/ l \in Left \cup {Saved(latest)}
                          \/ \E list \in Submitted, image \in BOOLEAN :
                                 l = AppendUserMessagePair(list, generation + 1, image)
        <3>1. stored' \in {stored, Saved(latest)}
            BY <1>27 DEF Unmount, SaveOnLeave, SaveMessages
        <3>2. orphans' = orphans \cup
                  {AppendUserMessagePair(q.list, generation + 1, q.image) : q \in converting}
            BY <1>27 DEF Unmount
        <3>3. \A q \in converting : q.list \in Submitted /\ q.image \in BOOLEAN
            BY SubmitFields DEF Submitted
        <3> QED
            BY <3>1, <3>2, <3>3 DEF Left
    <2>6. generation + 1 \in Gens
        BY <2>4, PlaygroundAssumption DEF Types, RequestTypes, Gens
    <2>7. Submitted' = {}
        BY <2>4 DEF Submitted
    <2> QED
        BY <2>1, <2>2, <2>3, <2>4, <2>5, <2>6, <2>7 DEF Moves, Leaves, Busy
<1>28. CASE SaveTimerFires
    <2>1. UNCHANGED <<messages, updates, latest, shown, generation, mounted, cut, mode, done, received, pending>>
        BY <1>28 DEF SaveTimerFires, chunkVars, pageVars, historyVars
    <2>2. converting' = converting /\ editing' = editing /\ (Busy' <=> Busy)
        BY <1>28 DEF SaveTimerFires, pageVars, flagVars, Busy
    <2>3. stored' \in {stored, Saved(latest)} /\ orphans' = orphans
        BY <1>28 DEF SaveTimerFires, SaveMessages
    <2>4. Left' \subseteq Left \cup {Saved(latest)} /\ Submitted' = Submitted
        BY <2>2, <2>3 DEF Left, Submitted
    <2> QED
        BY <2>1, <2>2, <2>4 DEF Moves, Rests, Quiet
<1>29. CASE UNCHANGED vars
    <2>1. UNCHANGED <<messages, updates, latest, shown, generation, mounted, cut, mode, done, stored, orphans, received, pending>>
        BY <1>29 DEF vars, requestVars, flagVars, chunkVars, pageVars, listVars, saveVars, historyVars
    <2>2. converting' = converting /\ editing' = editing /\ (Busy' <=> Busy)
        BY <1>29 DEF vars, flagVars, pageVars, Busy
    <2> QED
        BY <2>1, <2>2, RestMoves DEF Moves
<1>30. CASE Counted
    BY <1>30, <1>15, <1>16, <1>17, <1>18, <1>19, <1>20, <1>21, <1>22, <1>23, <1>24,
       <1>25, <1>26, <1>27, <1>28 DEF Counted, UserStep, MessageStep
<1>31. CASE Uncounted
    BY <1>31, <1>1, <1>2, <1>3, <1>4, <1>5, <1>6, <1>7, <1>8, <1>9, <1>10, <1>11,
       <1>12, <1>l, <1>13, <1>14 DEF Uncounted, PageStep, StreamStep, ReplyStep
<1>32. QED
    BY <1>29, <1>30, <1>31 DEF Next

\* Only a message of the stream can find its chunk taken for a snapshot.
LEMMA SwallowCover ==
    ASSUME Types, Ctl, ChunkInv, [Next]_vars
    PROVE  (Rests /\ Hears) \/ (Moves /\ swallowed' = swallowed)
<1>1. CASE \E g \in Gens, c \in Channels : StreamMessage(g, c)
    BY <1>1, HearMoves
<1>2. CASE ~\E g \in Gens, c \in Channels : StreamMessage(g, c)
    <2>1. ASSUME NEW g \in Gens, StreamStep(g) \/ ReplyStep(g) PROVE swallowed' = swallowed
        BY <1>2, <2>1 DEF StreamStep, ReplyStep, HeadersReady, HeadersFail, StreamDone,
           StreamError, StreamSilentlyCloses, ReplyArrives, ReplyFails, historyVars
    <2>2. ASSUME PageStep PROVE swallowed' = swallowed
        BY <2>2 DEF PageStep, Render, FlushTimer, SubmitContinues, SubmitFails, LateSubmit,
           SendMessage, SendChat, StopGeneration, historyVars
    <2>3. ASSUME NEW i \in 1 .. Len(messages), MessageStep(i) PROVE swallowed' = swallowed
        BY <2>3 DEF MessageStep, RegenerateMessage, DeleteMessage, OpenEditor, ApplyEdit,
           ApplyEditAndSubmit, SendChat, historyVars
    <2>4. ASSUME HandleSubmit \/ CloseEditor \/ OpenClearDialog \/ CloseClearDialog
                 \/ ClearMessages \/ Mount \/ Reload \/ Unmount \/ SaveTimerFires
          PROVE  swallowed' = swallowed
        BY <2>4 DEF HandleSubmit, CloseEditor, OpenClearDialog, CloseClearDialog,
           ClearMessages, Mount, Reload, LoadPage, Unmount, SaveTimerFires, historyVars
    <2>5. swallowed' = swallowed
        <3>1. CASE Counted
            BY <3>1, <2>3, <2>4 DEF Counted, UserStep
        <3>2. CASE Uncounted
            BY <3>2, <2>1, <2>2 DEF Uncounted
        <3>3. CASE UNCHANGED vars
            BY <3>3 DEF vars, historyVars
        <3> QED
            BY <3>1, <3>2, <3>3 DEF Next
    <2> QED
        BY <2>5, MovesCover
<1> QED
    BY <1>1, <1>2
=============================================================================
