------------------------- MODULE PlaygroundAnswers -------------------------
(***************************************************************************)
(* Proofs about what the answers of Playground show. The invariants hold   *)
(* after every move of PlaygroundProofs.                                   *)
(*                                                                         *)
(* Only the last message of a list may be open, which is to say pending    *)
(* and not cut off from its request, and then it is the answer of the      *)
(* current generation; while the page is busy that answer is pending in    *)
(* every list and no editor and no older list knows it, and while it is    *)
(* not, none is open (AnswerInv). Hence PendingIsLast.                     *)
(*                                                                         *)
(* What the queue makes of the messages, and the lists that submits have   *)
(* captured, agree with what is shown on finished answers (StayInv). Hence *)
(* FinalStaysFinal.                                                        *)
(*                                                                         *)
(* The text of the current answer and the buffer are one text cut in two,  *)
(* or a snapshot that goes beyond what is shown (TextInv), or, after a     *)
(* delta was taken for a snapshot, some of the pieces in their order, and  *)
(* only a delta stream comes to that (SwallowInv); a request that          *)
(* runs is not done (CountInv), the current answer is pending in what is   *)
(* saved too (BusyInv), and so every list the page keeps, stores or has    *)
(* queued tells the truth about every answer (TruthInv). Hence             *)
(* AnswerFaithful.                                                         *)
(***************************************************************************)
EXTENDS PlaygroundProofs

-----------------------------------------------------------------------------
\* Open answers: pending ones that no click has cut off from their request.

Open(m, c) == IsPending(m) /\ m.gen \notin c
Own(m, c) == IsAnswer(m) /\ m.gen \notin c

\* A list is sound: its messages are of generations up to g, no two have the
\* same key, and only the last one may be open.
Sound(l, c, g) ==
    /\ \A i \in 1 .. Len(l) : l[i].gen <= g
    /\ \A i \in 1 .. Len(l) : IsAnswer(l[i]) => l[i].status # "sent"
    /\ \A i, j \in 1 .. Len(l) : Key(l[i]) = Key(l[j]) => i = j
    /\ \A i \in 1 .. Len(l) : Open(l[i], c) => i = Len(l)

NoneOpen(l, c) == \A i \in 1 .. Len(l) : ~Open(l[i], c)
OpenNow(l, c, g) == \A i \in 1 .. Len(l) : Open(l[i], c) => l[i].gen = g
StillPending(l, c, g) ==
    \A i \in 1 .. Len(l) : Own(l[i], c) /\ l[i].gen = g => IsPending(l[i])
Elsewhere(l, g) == \A i \in 1 .. Len(l) : l[i].gen # g
LastIsCurrent(l, c, g) == l # <<>> /\ Own(l[Len(l)], c) => l[Len(l)].gen = g

LEMMA KeyParts ==
    ASSUME NEW m, NEW n, Key(m) = Key(n)
    PROVE  m.from = n.from /\ m.gen = n.gen /\ (IsAnswer(m) <=> IsAnswer(n))
BY DEF Key, IsAnswer

\* A list made of another's messages, in their order; a message that was not
\* open may only become so at the end.
Derived(b, a, p, c) ==
    /\ p \in [1 .. Len(b) -> 1 .. Len(a)]
    /\ \A i, j \in 1 .. Len(b) : i < j => p[i] < p[j]
    /\ \A j \in 1 .. Len(b) :
           /\ Key(b[j]) = Key(a[p[j]])
           /\ b[j].status = "sent" => a[p[j]].status = "sent"
           /\ Open(b[j], c) => Open(a[p[j]], c) \/ p[j] = Len(a)

LEMMA DerivedSound ==
    ASSUME NEW S, NEW a \in Seq(S), NEW b \in Seq(S), NEW p, NEW c, NEW g,
           Sound(a, c, g), Derived(b, a, p, c)
    PROVE  Sound(b, c, g)
<1>1. Len(a) \in Nat /\ Len(b) \in Nat
    BY LenProperties
<1>2. \A j \in 1 .. Len(b) : p[j] \in 1 .. Len(a) /\ Key(b[j]) = Key(a[p[j]])
    BY DEF Derived
<1>3. \A j \in 1 .. Len(b) : b[j].gen <= g
    <2> TAKE j \in 1 .. Len(b)
    <2>1. b[j].gen = a[p[j]].gen /\ p[j] \in 1 .. Len(a)
        BY <1>2, KeyParts
    <2> QED
        BY <2>1 DEF Sound
<1>4. \A j \in 1 .. Len(b) : IsAnswer(b[j]) => b[j].status # "sent"
    <2> TAKE j \in 1 .. Len(b)
    <2>1. (IsAnswer(b[j]) <=> IsAnswer(a[p[j]])) /\ p[j] \in 1 .. Len(a)
        BY <1>2, KeyParts
    <2> QED
        BY <2>1 DEF Sound, Derived
<1>5. \A i, j \in 1 .. Len(b) : Key(b[i]) = Key(b[j]) => i = j
    <2> TAKE i, j \in 1 .. Len(b)
    <2> HAVE Key(b[i]) = Key(b[j])
    <2>1. p[i] = p[j]
        BY <1>2 DEF Sound
    <2>2. p[i] \in Int /\ i \in Int /\ j \in Int
        BY <1>1, <1>2
    <2>3. (i < j => p[i] < p[j]) /\ (j < i => p[j] < p[i])
        BY DEF Derived
    <2> QED
        BY <2>1, <2>2, <2>3
<1>6. \A j \in 1 .. Len(b) : Open(b[j], c) => j = Len(b)
    <2> TAKE j \in 1 .. Len(b)
    <2> HAVE Open(b[j], c)
    <2>1. p[j] = Len(a)
        BY <1>2 DEF Derived, Sound
    <2>2. Len(b) \in 1 .. Len(b) /\ p[Len(b)] \in 1 .. Len(a) /\ j \in Int /\ j <= Len(b)
        BY <1>1, <1>2
    <2>3. j < Len(b) => p[j] < p[Len(b)]
        BY <2>2 DEF Derived
    <2> QED
        BY <1>1, <2>1, <2>2, <2>3
<1> QED
    BY <1>3, <1>4, <1>5, <1>6 DEF Sound

\* A later generation and more cuts leave a list sound.
LEMMA SoundLater ==
    ASSUME NEW l \in Seq(Messages), NEW c, NEW g \in Int, NEW d, NEW h \in Int,
           c \subseteq d, g <= h, Sound(l, c, g)
    PROVE  Sound(l, d, h)
<1>1. \A i \in 1 .. Len(l) : l[i].gen \in Int
    <2>1. \A i \in 1 .. Len(l) : l[i] \in Messages
        BY ElementOfSeq
    <2> QED
        BY <2>1 DEF Messages, Gens
<1>2. \A i \in 1 .. Len(l) : l[i].gen <= h
    BY <1>1 DEF Sound
<1> QED
    BY <1>2 DEF Sound, Open

LEMMA SoundElsewhere ==
    ASSUME NEW l \in Seq(Messages), NEW c, NEW g \in Int, Sound(l, c, g)
    PROVE  Elsewhere(l, g + 1)
<1>1. ASSUME NEW i \in 1 .. Len(l) PROVE l[i].gen # g + 1
    <2>1. l[i] \in Messages /\ l[i].gen <= g
        BY ElementOfSeq DEF Sound
    <2>2. l[i].gen \in Int
        BY <2>1 DEF Messages, Gens
    <2> QED
        BY <2>1, <2>2
<1> QED
    BY <1>1 DEF Elsewhere

LEMMA OpenLater ==
    ASSUME NEW l, NEW c, NEW d, NEW g, c \subseteq d
    PROVE  /\ NoneOpen(l, c) => NoneOpen(l, d)
           /\ OpenNow(l, c, g) => OpenNow(l, d, g)
           /\ StillPending(l, c, g) => StillPending(l, d, g)
           /\ LastIsCurrent(l, c, g) => LastIsCurrent(l, d, g)
BY DEF NoneOpen, OpenNow, StillPending, LastIsCurrent, Open, Own

-----------------------------------------------------------------------------
\* What the updates of an answer do to it.

EndingOps == {"complete", "stopped", "answer", "image", "error"}

LEMMA EndingEnds ==
    ASSUME NEW m \in Messages, NEW u, u.op \in EndingOps
    PROVE  /\ ~IsPending(UpdateAnswer(m, u))
           /\ UpdateAnswer(m, u).status = "sent" => m.status = "sent"
<1>1. CASE u.op = "complete"
    BY <1>1 DEF UpdateAnswer, CompleteAssistantMessage, IsFinal, IsPending, Messages
<1>2. CASE u.op = "stopped"
    BY <1>2 DEF UpdateAnswer, CompleteAssistantMessage, IsPending, Messages
<1>3. CASE u.op = "answer"
    BY <1>3 DEF UpdateAnswer, CompleteAssistantMessage, IsPending, Messages
<1>4. CASE u.op = "image"
    BY <1>4 DEF UpdateAnswer, IsPending, Messages
<1>5. CASE u.op = "error"
    BY <1>5 DEF UpdateAnswer, IsPending, Messages
<1> QED
    BY <1>1, <1>2, <1>3, <1>4, <1>5 DEF EndingOps

LEMMA ChunksStream ==
    ASSUME NEW m \in Messages, NEW u, u.op = "chunks"
    PROVE  /\ UpdateAnswer(m, u).status = IF m.status = "error" THEN "error" ELSE "streaming"
           /\ IsAnswer(m) /\ m.status # "error" => IsPending(UpdateAnswer(m, u))
BY DEF UpdateAnswer, ApplyStreamingChunks, IsPending, IsAnswer, Messages

LEMMA UpdatedOutline ==
    ASSUME NEW l \in Seq(Messages), NEW u, u.op \in AnswerOps,
           u.op = "chunks" => u.text \in Texts
    PROVE  LET r == UpdateLastAssistantMessage(l, u) IN
           /\ r \in Seq(Messages) /\ Len(r) = Len(l) /\ Len(l) \in Nat
           /\ \A i \in 1 .. Len(l) :
                  /\ Key(r[i]) = Key(l[i]) /\ l[i] \in Messages
                  /\ r[i].status = "sent" => l[i].status = "sent"
                  /\ i # Len(l) \/ ~IsAnswer(l[i]) => r[i] = l[i]
                  /\ i = Len(l) /\ IsAnswer(l[i]) => r[i] = UpdateAnswer(l[i], u)
<1> DEFINE r == UpdateLastAssistantMessage(l, u)
<1>1. /\ r \in Seq(Messages) /\ Len(r) = Len(l)
      /\ \A i \in 1 .. Len(l) : i # Len(l) => r[i] = l[i]
      /\ l # <<>> => r[Len(l)] = IF IsAnswer(l[Len(l)]) THEN UpdateAnswer(l[Len(l)], u)
                                 ELSE l[Len(l)]
    BY UpdateLastElements
<1> HIDE DEF r
<1>2. Len(l) \in Nat /\ \A i \in 1 .. Len(l) : l[i] \in Messages /\ l # <<>>
    BY LenProperties, ElementOfSeq
<1>3. ASSUME NEW i \in 1 .. Len(l)
      PROVE  /\ Key(r[i]) = Key(l[i])
             /\ r[i].status = "sent" => l[i].status = "sent"
             /\ i # Len(l) \/ ~IsAnswer(l[i]) => r[i] = l[i]
             /\ i = Len(l) /\ IsAnswer(l[i]) => r[i] = UpdateAnswer(l[i], u)
    <2>1. l[i] \in Messages /\ l # <<>>
        BY <1>2
    <2>2. CASE i = Len(l) /\ IsAnswer(l[i])
        <3>1. r[i] = UpdateAnswer(l[i], u)
            BY <1>1, <2>1, <2>2
        <3>2. Key(r[i]) = Key(l[i])
            BY <2>1, <3>1, UpdateAnswerType
        <3>3. UpdateAnswer(l[i], u).status = "sent" => l[i].status = "sent"
            <4>1. CASE u.op = "chunks"
                BY <2>1, <4>1, ChunksStream
            <4>2. CASE u.op \in EndingOps
                BY <2>1, <4>2, EndingEnds
            <4> QED
                BY <4>1, <4>2 DEF AnswerOps, EndingOps
        <3> QED
            BY <2>2, <3>1, <3>2, <3>3
    <2>3. CASE i # Len(l) \/ ~IsAnswer(l[i])
        BY <1>1, <2>1, <2>3
    <2> QED
        BY <2>2, <2>3
<1> QED
    BY <1>1, <1>2, <1>3 DEF r

LEMMA UpdatedSound ==
    ASSUME NEW l \in Seq(Messages), NEW u, u.op \in AnswerOps,
           u.op = "chunks" => u.text \in Texts,
           NEW c, NEW g, Sound(l, c, g)
    PROVE  Sound(UpdateLastAssistantMessage(l, u), c, g)
<1> DEFINE r == UpdateLastAssistantMessage(l, u)
           p == [i \in 1 .. Len(l) |-> i]
<1>1. /\ r \in Seq(Messages) /\ Len(r) = Len(l) /\ Len(l) \in Nat
      /\ \A i \in 1 .. Len(l) :
             /\ Key(r[i]) = Key(l[i])
             /\ r[i].status = "sent" => l[i].status = "sent"
             /\ i # Len(l) \/ ~IsAnswer(l[i]) => r[i] = l[i]
    BY UpdatedOutline
<1> HIDE DEF r
<1>2. Derived(r, l, p, c)
    BY <1>1 DEF Derived
<1>3. Sound(r, c, g)
    <2> HIDE DEF p
    <2> QED
        BY <1>1, <1>2, DerivedSound
<1> QED
    BY <1>3 DEF r

\* An ending leaves nothing open.
LEMMA EndedNone ==
    ASSUME NEW l \in Seq(Messages), NEW u, u.op \in EndingOps, NEW c, NEW g, Sound(l, c, g)
    PROVE  NoneOpen(UpdateLastAssistantMessage(l, u), c)
<1> DEFINE r == UpdateLastAssistantMessage(l, u)
<1>1. u.op \in AnswerOps /\ u.op # "chunks"
    BY DEF AnswerOps, EndingOps
<1>2. /\ r \in Seq(Messages) /\ Len(r) = Len(l) /\ Len(l) \in Nat
      /\ \A i \in 1 .. Len(l) :
             /\ Key(r[i]) = Key(l[i]) /\ l[i] \in Messages
             /\ i # Len(l) \/ ~IsAnswer(l[i]) => r[i] = l[i]
             /\ i = Len(l) /\ IsAnswer(l[i]) => r[i] = UpdateAnswer(l[i], u)
    BY <1>1, UpdatedOutline
<1> HIDE DEF r
<1>3. ASSUME NEW i \in 1 .. Len(r), Open(r[i], c) PROVE FALSE
    <2>1. i \in 1 .. Len(l) /\ l[i] \in Messages
        BY <1>2
    <2>2. CASE i = Len(l) /\ IsAnswer(l[i])
        BY <1>2, <1>3, <2>1, <2>2, EndingEnds DEF Open
    <2>3. CASE i # Len(l)
        BY <1>2, <1>3, <2>1, <2>3 DEF Sound
    <2>4. CASE ~IsAnswer(l[i])
        BY <1>2, <1>3, <2>1, <2>4 DEF Open, IsPending
    <2> QED
        BY <2>2, <2>3, <2>4
<1> QED
    BY <1>3 DEF NoneOpen, r

\* Chunks keep the current answer open, and open no other one.
LEMMA ChunksOpen ==
    ASSUME NEW l \in Seq(Messages), NEW u, u.op = "chunks", u.text \in Texts, NEW c, NEW g
    PROVE  LET r == UpdateLastAssistantMessage(l, u) IN
           /\ OpenNow(l, c, g) /\ LastIsCurrent(l, c, g) => OpenNow(r, c, g)
           /\ StillPending(l, c, g) => StillPending(r, c, g)
<1> DEFINE r == UpdateLastAssistantMessage(l, u)
<1>1. u.op \in AnswerOps
    BY DEF AnswerOps
<1>2. /\ r \in Seq(Messages) /\ Len(r) = Len(l) /\ Len(l) \in Nat
      /\ \A i \in 1 .. Len(l) :
             /\ Key(r[i]) = Key(l[i]) /\ l[i] \in Messages
             /\ i # Len(l) \/ ~IsAnswer(l[i]) => r[i] = l[i]
             /\ i = Len(l) /\ IsAnswer(l[i]) => r[i] = UpdateAnswer(l[i], u)
    BY <1>1, UpdatedOutline
<1> HIDE DEF r
<1>3. ASSUME OpenNow(l, c, g), LastIsCurrent(l, c, g), NEW i \in 1 .. Len(r), Open(r[i], c)
      PROVE  r[i].gen = g
    <2>1. i \in 1 .. Len(l) /\ r[i].gen = l[i].gen
        BY <1>2, KeyParts
    <2>2. CASE i = Len(l) /\ IsAnswer(l[i])
        <3>1. l # <<>> /\ Own(l[Len(l)], c)
            BY <1>3, <2>1, <2>2 DEF Open, Own
        <3> QED
            BY <1>3, <2>1, <2>2, <3>1 DEF LastIsCurrent
    <2>3. CASE ~(i = Len(l) /\ IsAnswer(l[i]))
        BY <1>2, <1>3, <2>1, <2>3 DEF OpenNow
    <2> QED
        BY <2>2, <2>3
<1>4. ASSUME StillPending(l, c, g), NEW i \in 1 .. Len(r), Own(r[i], c), r[i].gen = g
      PROVE  IsPending(r[i])
    <2>1. i \in 1 .. Len(l) /\ r[i].gen = l[i].gen /\ (IsAnswer(r[i]) <=> IsAnswer(l[i]))
        BY <1>2, KeyParts
    <2>2. IsPending(l[i])
        BY <1>4, <2>1 DEF StillPending, Own
    <2>3. CASE i = Len(l) /\ IsAnswer(l[i])
        <3>1. l[i] \in Messages /\ l[i].status # "error"
            BY <1>2, <2>1, <2>2 DEF IsPending
        <3> QED
            BY <1>2, <2>1, <2>3, <3>1, ChunksStream
    <2>4. CASE ~(i = Len(l) /\ IsAnswer(l[i]))
        BY <1>2, <2>1, <2>2, <2>4
    <2> QED
        BY <2>3, <2>4
<1> QED
    BY <1>3, <1>4 DEF OpenNow, StillPending, r

\* No update changes whose answer is the last.
LEMMA UpdatedLast ==
    ASSUME NEW l \in Seq(Messages), NEW u, u.op \in AnswerOps,
           u.op = "chunks" => u.text \in Texts, NEW c, NEW g
    PROVE  LET r == UpdateLastAssistantMessage(l, u) IN
           /\ LastIsCurrent(l, c, g) => LastIsCurrent(r, c, g)
           /\ l # <<>> => r # <<>> /\ Key(r[Len(r)]) = Key(l[Len(l)])
<1> DEFINE r == UpdateLastAssistantMessage(l, u)
<1>1. /\ r \in Seq(Messages) /\ Len(r) = Len(l) /\ Len(l) \in Nat
      /\ \A i \in 1 .. Len(l) : Key(r[i]) = Key(l[i])
    BY UpdatedOutline
<1> HIDE DEF r
<1>2. l # <<>> <=> r # <<>>
    BY <1>1
<1>3. l # <<>> => Len(l) \in 1 .. Len(l)
    BY <1>1
<1>4. l # <<>> => Key(r[Len(r)]) = Key(l[Len(l)])
    BY <1>1, <1>3
<1>5. LastIsCurrent(l, c, g) => LastIsCurrent(r, c, g)
    BY <1>2, <1>4, KeyParts DEF LastIsCurrent, Own
<1> QED
    BY <1>2, <1>4, <1>5 DEF r

-----------------------------------------------------------------------------
\* What editing, deleting and asking do to open answers.

\* Lists that differ in what messages say only.
SameOutline(b, a) ==
    /\ Len(b) = Len(a)
    /\ \A i \in 1 .. Len(a) : Key(b[i]) = Key(a[i]) /\ b[i].status = a[i].status

LEMMA OutlineOpen ==
    ASSUME NEW a \in Seq(Messages), NEW b \in Seq(Messages), SameOutline(b, a), NEW c, NEW g
    PROVE  /\ Sound(a, c, g) => Sound(b, c, g)
           /\ NoneOpen(a, c) => NoneOpen(b, c)
           /\ OpenNow(a, c, g) => OpenNow(b, c, g)
           /\ StillPending(a, c, g) => StillPending(b, c, g)
           /\ LastIsCurrent(a, c, g) => LastIsCurrent(b, c, g)
<1> DEFINE p == [i \in 1 .. Len(a) |-> i]
<1>1. Len(a) \in Nat /\ Len(b) = Len(a)
    BY LenProperties DEF SameOutline
<1>2. \A i \in 1 .. Len(a) :
          /\ Key(b[i]) = Key(a[i]) /\ b[i].gen = a[i].gen /\ b[i].status = a[i].status
          /\ IsAnswer(b[i]) <=> IsAnswer(a[i])
    BY KeyParts DEF SameOutline
<1>3. \A i \in 1 .. Len(a) :
          /\ IsPending(b[i]) <=> IsPending(a[i])
          /\ Open(b[i], c) <=> Open(a[i], c)
          /\ Own(b[i], c) <=> Own(a[i], c)
    BY <1>2 DEF IsPending, Open, Own
<1>4. Derived(b, a, p, c)
    BY <1>1, <1>2, <1>3 DEF Derived
<1> HIDE DEF p
<1>5. Sound(a, c, g) => Sound(b, c, g)
    BY <1>4, DerivedSound
<1>6. NoneOpen(a, c) => NoneOpen(b, c)
    BY <1>1, <1>3 DEF NoneOpen
<1>7. OpenNow(a, c, g) => OpenNow(b, c, g)
    BY <1>1, <1>2, <1>3 DEF OpenNow
<1>8. StillPending(a, c, g) => StillPending(b, c, g)
    BY <1>1, <1>2, <1>3 DEF StillPending
<1>9. LastIsCurrent(a, c, g) => LastIsCurrent(b, c, g)
    <2>1. a = <<>> <=> b = <<>>
        BY <1>1
    <2>2. a # <<>> => Len(a) \in 1 .. Len(a)
        BY <1>1
    <2> QED
        BY <1>1, <1>2, <1>3, <2>1, <2>2 DEF LastIsCurrent
<1> QED
    BY <1>5, <1>6, <1>7, <1>8, <1>9

LEMMA EditOutline ==
    ASSUME NEW l \in Seq(Messages), NEW i \in 1 .. Len(l)
    PROVE  EditMessage(l, i) \in Seq(Messages) /\ SameOutline(EditMessage(l, i), l)
<1> DEFINE r == EditMessage(l, i)
<1>1. /\ r \in Seq(Messages) /\ Len(r) = Len(l)
      /\ \A j \in 1 .. Len(l) : j # i => r[j] = l[j]
      /\ r[i] = [l[i] EXCEPT !.text = [l[i].text EXCEPT !["content"] = <<EditPiece>>]]
    BY EditElements
<1>2. l[i] \in Messages
    BY ElementOfSeq
<1> HIDE DEF r
<1>3. Key(r[i]) = Key(l[i]) /\ r[i].status = l[i].status
    BY <1>1, <1>2 DEF Key, Messages
<1> QED
    BY <1>1, <1>3 DEF SameOutline, r

LEMMA RemovedOpen ==
    ASSUME NEW l \in Seq(Messages), NEW k, NEW c, NEW g, Sound(l, c, g)
    PROVE  LET r == RemoveMessageByKey(l, k) IN
           /\ r \in Seq(Messages) /\ Sound(r, c, g)
           /\ NoneOpen(l, c) => NoneOpen(r, c)
           /\ OpenNow(l, c, g) => OpenNow(r, c, g)
           /\ StillPending(l, c, g) => StillPending(r, c, g)
           /\ l # <<>> /\ Key(l[Len(l)]) # k => r # <<>> /\ r[Len(r)] = l[Len(l)]
<1> DEFINE r == RemoveMessageByKey(l, k)
<1>1. /\ r \in Seq(Messages)
      /\ \E p : Picks(r, l, p)
      /\ l # <<>> /\ Key(l[Len(l)]) # k => r # <<>> /\ r[Len(r)] = l[Len(l)]
    BY RemovePicks
<1> HIDE DEF r
<1>2. PICK p : Picks(r, l, p)
    BY <1>1
<1>3. \A j \in 1 .. Len(r) : p[j] \in 1 .. Len(l) /\ r[j] = l[p[j]]
    BY <1>2 DEF Picks
<1>4. Derived(r, l, p, c)
    BY <1>2 DEF Picks, Derived
<1>5. Sound(r, c, g)
    BY <1>1, <1>4, DerivedSound
<1>6. NoneOpen(l, c) => NoneOpen(r, c)
    BY <1>3 DEF NoneOpen
<1>7. OpenNow(l, c, g) => OpenNow(r, c, g)
    BY <1>3 DEF OpenNow
<1>8. StillPending(l, c, g) => StillPending(r, c, g)
    BY <1>3 DEF StillPending
<1> QED
    BY <1>1, <1>5, <1>6, <1>7, <1>8 DEF r

\* A list that ends with the new answer: what is before it is not open, and is
\* older.
NewAnswer(r, c, g) ==
    /\ Sound(r, c, g) /\ OpenNow(r, c, g) /\ StillPending(r, c, g) /\ LastIsCurrent(r, c, g)
    /\ r # <<>> /\ IsAnswer(r[Len(r)]) /\ r[Len(r)].gen = g /\ r[Len(r)] = LoadingAnswer(g)

LEMMA PairNew ==
    ASSUME NEW l \in Seq(Messages), NEW g \in Int, g + 1 \in Gens, NEW image \in BOOLEAN, NEW c,
           Sound(l, c, g), NoneOpen(l, c)
    PROVE  LET r == AppendUserMessagePair(l, g + 1, image) IN
           r \in Seq(Messages) /\ NewAnswer(r, c, g + 1)
<1> DEFINE r == AppendUserMessagePair(l, g + 1, image)
           n == Len(l)
<1>1. /\ r \in Seq(Messages) /\ n \in Nat /\ Len(r) = n + 2
      /\ \A i \in 1 .. n : r[i] = l[i]
      /\ r[n + 1] = UserMessage(g + 1, image) /\ r[n + 2] = LoadingAnswer(g + 1)
    BY PairElements
<1>2. \A i \in 1 .. n : l[i] \in Messages
    BY ElementOfSeq
<1> HIDE DEF r, n
<1>3. \A i \in 1 .. Len(r) : i \in 1 .. n \/ i = n + 1 \/ i = n + 2
    BY <1>1
<1>4. \A i \in 1 .. n : /\ r[i].gen \in Int /\ r[i].gen <= g /\ ~Open(r[i], c)
                        /\ IsAnswer(r[i]) => r[i].status # "sent"
    <2>1. \A i \in 1 .. n : r[i].gen \in Int
        BY <1>1, <1>2 DEF Messages, Gens
    <2> QED
        BY <1>1, <2>1 DEF Sound, NoneOpen, n
<1>5. /\ r[n + 1].gen = g + 1 /\ r[n + 1].from = "user" /\ ~IsAnswer(r[n + 1])
      /\ ~IsPending(r[n + 1])
    BY <1>1 DEF UserMessage, IsAnswer, IsPending
<1>6. /\ r[n + 2].gen = g + 1 /\ r[n + 2].from = "assistant" /\ IsAnswer(r[n + 2])
      /\ r[n + 2].status = "loading" /\ IsPending(r[n + 2])
    BY <1>1 DEF LoadingAnswer, IsAnswer, IsPending
<1>7. Sound(r, c, g + 1)
    <2>n. \A i \in 1 .. n : r[i].gen <= g + 1 /\ r[i].gen # g + 1
        BY <1>4
    <2>1. \A i \in 1 .. Len(r) : r[i].gen <= g + 1
        <3>1. g + 1 <= g + 1
            OBVIOUS
        <3> QED
            BY <1>3, <2>n, <1>5, <1>6, <3>1
    <2>2. \A i \in 1 .. Len(r) : IsAnswer(r[i]) => r[i].status # "sent"
        BY <1>3, <1>4, <1>5, <1>6
    <2>3. ASSUME NEW i \in 1 .. Len(r), NEW j \in 1 .. Len(r), Key(r[i]) = Key(r[j])
          PROVE  i = j
        <3>1. r[i].gen = r[j].gen /\ r[i].from = r[j].from
            BY <2>3, KeyParts
        <3>2. CASE i \in 1 .. n /\ j \in 1 .. n
            BY <1>1, <2>3, <3>2 DEF Sound, n
        <3>3. CASE i \notin 1 .. n \/ j \notin 1 .. n
            BY <1>3, <2>n, <1>5, <1>6, <3>1, <3>3
        <3> QED
            BY <3>2, <3>3
    <2>4. \A i \in 1 .. Len(r) : Open(r[i], c) => i = Len(r)
        BY <1>1, <1>3, <1>4, <1>5 DEF Open
    <2> QED
        BY <2>1, <2>2, <2>3, <2>4 DEF Sound
<1>8. OpenNow(r, c, g + 1)
    BY <1>3, <1>4, <1>5, <1>6 DEF OpenNow
<1>9. StillPending(r, c, g + 1)
    BY <1>3, <1>4, <1>5, <1>6 DEF StillPending, Own
<1>10. r # <<>> /\ r[Len(r)] = r[n + 2]
    BY <1>1
<1>11. LastIsCurrent(r, c, g + 1)
    BY <1>6, <1>10 DEF LastIsCurrent
<1>12. NewAnswer(r, c, g + 1)
    BY <1>1, <1>6, <1>7, <1>8, <1>9, <1>10, <1>11 DEF NewAnswer
<1> QED
    BY <1>1, <1>12 DEF r

LEMMA RegeneratedNew ==
    ASSUME NEW l \in Seq(Messages), NEW i \in 1 .. Len(l),
           NEW g \in Int, g + 1 \in Gens, NEW c, Sound(l, c, g),
           NoneOpen(l, c) \/ ~IsAnswer(l[i])
    PROVE  LET r == CreateRegeneratedMessages(l, i, g + 1) IN
           r \in Seq(Messages) /\ NewAnswer(r, c, g + 1)
<1> DEFINE r == CreateRegeneratedMessages(l, i, g + 1)
<1>1. PICK n \in 0 .. Len(l) :
          /\ n = IF IsAnswer(l[i]) THEN i - 1 ELSE i
          /\ r \in Seq(Messages) /\ Len(r) = n + 1
          /\ \A j \in 1 .. n : r[j] = l[j]
          /\ r[n + 1] = LoadingAnswer(g + 1)
    BY RegeneratedElements
<1>2. Len(l) \in Nat /\ \A j \in 1 .. Len(l) : l[j] \in Messages
    BY LenProperties, ElementOfSeq
<1> HIDE DEF r
<1>3. \A j \in 1 .. Len(r) : j \in 1 .. n \/ j = n + 1
    BY <1>1
<1>4. \A j \in 1 .. n : j \in 1 .. Len(l) /\ j <= i
    BY <1>1, <1>2
<1>5. \A j \in 1 .. n : /\ r[j].gen \in Int /\ r[j].gen <= g
                        /\ IsAnswer(r[j]) => r[j].status # "sent"
    <2>1. \A j \in 1 .. n : r[j] \in Messages
        BY <1>1, <1>2, <1>4
    <2>2. \A j \in 1 .. n : r[j].gen \in Int
        BY <2>1 DEF Messages, Gens
    <2> QED
        BY <1>1, <1>4, <2>2 DEF Sound
<1>6. \A j \in 1 .. n : ~Open(r[j], c)
    <2>1. ASSUME NEW j \in 1 .. n, Open(l[j], c) PROVE FALSE
        <3>1. ~IsAnswer(l[i]) /\ j = Len(l)
            BY <1>4, <2>1 DEF NoneOpen, Sound
        <3>2. j = i
            BY <1>2, <1>4, <3>1
        <3> QED
            BY <2>1, <3>1, <3>2 DEF Open, IsPending
    <2> QED
        BY <1>1, <2>1
<1>7. /\ r[n + 1].gen = g + 1 /\ r[n + 1].from = "assistant" /\ IsAnswer(r[n + 1])
      /\ r[n + 1].status = "loading" /\ IsPending(r[n + 1])
    BY <1>1 DEF LoadingAnswer, IsAnswer, IsPending
<1>8. Sound(r, c, g + 1)
    <2>n. \A j \in 1 .. n : r[j].gen <= g + 1 /\ r[j].gen # g + 1
        BY <1>5
    <2>1. \A j \in 1 .. Len(r) : r[j].gen <= g + 1
        <3>1. g + 1 <= g + 1
            OBVIOUS
        <3> QED
            BY <1>3, <2>n, <1>7, <3>1
    <2>2. \A j \in 1 .. Len(r) : IsAnswer(r[j]) => r[j].status # "sent"
        BY <1>3, <1>5, <1>7
    <2>3. ASSUME NEW j \in 1 .. Len(r), NEW k \in 1 .. Len(r), Key(r[j]) = Key(r[k])
          PROVE  j = k
        <3>1. r[j].gen = r[k].gen
            BY <2>3, KeyParts
        <3>2. CASE j \in 1 .. n /\ k \in 1 .. n
            BY <1>1, <1>4, <2>3, <3>2 DEF Sound
        <3>3. CASE j \notin 1 .. n \/ k \notin 1 .. n
            BY <1>3, <2>n, <1>7, <3>1, <3>3
        <3> QED
            BY <3>2, <3>3
    <2>4. \A j \in 1 .. Len(r) : Open(r[j], c) => j = Len(r)
        BY <1>1, <1>3, <1>6
    <2> QED
        BY <2>1, <2>2, <2>3, <2>4 DEF Sound
<1>9. OpenNow(r, c, g + 1)
    BY <1>3, <1>6, <1>7 DEF OpenNow
<1>10. StillPending(r, c, g + 1)
    BY <1>3, <1>5, <1>7 DEF StillPending, Own
<1>11. r # <<>> /\ r[Len(r)] = r[n + 1]
    BY <1>1
<1>12. LastIsCurrent(r, c, g + 1)
    BY <1>7, <1>11 DEF LastIsCurrent
<1>13. NewAnswer(r, c, g + 1)
    BY <1>1, <1>7, <1>8, <1>9, <1>10, <1>11, <1>12 DEF NewAnswer
<1> QED
    BY <1>1, <1>13 DEF r

-----------------------------------------------------------------------------
\* What saving and loading do to open answers.

LEMMA SavedSound ==
    ASSUME NEW l \in Seq(Messages), NEW c, NEW g, Sound(l, c, g)
    PROVE  Saved(l) \in Seq(Messages) /\ Sound(Saved(l), c, g)
<1> DEFINE r == Saved(l)
<1>1. /\ r \in Seq(Messages) /\ Len(r) \in Nat
      /\ \E d \in Nat :
             /\ Len(l) = d + Len(r)
             /\ \A j \in 1 .. Len(r) : r[j] = Serializable(l[d + j])
    BY SavedElements
<1> HIDE DEF r
<1>2. PICK d \in Nat : /\ Len(l) = d + Len(r)
                       /\ \A j \in 1 .. Len(r) : r[j] = Serializable(l[d + j])
    BY <1>1
<1> DEFINE p == [j \in 1 .. Len(r) |-> d + j]
<1>3. ASSUME NEW j \in 1 .. Len(r)
      PROVE  d + j \in 1 .. Len(l) /\ Key(r[j]) = Key(l[d + j]) /\ r[j].status = l[d + j].status
    <2>1. d + j \in 1 .. Len(l)
        BY <1>1, <1>2
    <2>2. l[d + j] \in Messages /\ r[j] = Serializable(l[d + j])
        BY <1>2, <2>1, ElementOfSeq
    <2> QED
        BY <2>1, <2>2 DEF Serializable, Key, Messages
<1>4. \A j \in 1 .. Len(r) : Open(r[j], c) <=> Open(l[d + j], c)
    BY <1>3, KeyParts DEF Open, IsPending
<1>5. Derived(r, l, p, c)
    BY <1>1, <1>3, <1>4 DEF Derived
<1>6. Sound(r, c, g)
    <2> HIDE DEF p
    <2> QED
        BY <1>1, <1>5, DerivedSound
<1> QED
    BY <1>1, <1>6 DEF r

\* A loaded list has no open answer: the one at the end has failed, or had begun
\* and is complete.
LEMMA LoadedSound ==
    ASSUME NEW l \in Seq(Messages), NEW c, NEW g, Sound(l, c, g)
    PROVE  Loaded(l) \in Seq(Messages) /\ Sound(Loaded(l), c, g) /\ NoneOpen(Loaded(l), c)
<1> DEFINE r == Loaded(l)
           N(m) == NormalizeStoredMessageForLoad(m)
<1>1. /\ r \in Seq(Messages)
      /\ \E d \in Nat :
             /\ Len(l) = d + Len(r)
             /\ \A j \in 1 .. Len(r) :
                    \/ /\ r[j] = N(l[d + j])
                       /\ IsPending(r[j]) => \E k \in j + 1 .. Len(r) : IsPending(N(l[d + k]))
                    \/ r[j] = Failed(N(l[d + j]))
    BY LoadedElements
<1> HIDE DEF r
<1>2. PICK d \in Nat :
             /\ Len(l) = d + Len(r)
             /\ \A j \in 1 .. Len(r) :
                    \/ /\ r[j] = N(l[d + j])
                       /\ IsPending(r[j]) => \E k \in j + 1 .. Len(r) : IsPending(N(l[d + k]))
                    \/ r[j] = Failed(N(l[d + j]))
    BY <1>1
<1>3. Len(r) \in Nat
    BY <1>1, LenProperties
<1> DEFINE p == [j \in 1 .. Len(r) |-> d + j]
<1>4. ASSUME NEW j \in 1 .. Len(r)
      PROVE  /\ d + j \in 1 .. Len(l) /\ Key(r[j]) = Key(l[d + j])
             /\ r[j].status = "sent" => l[d + j].status = "sent"
             /\ IsPending(r[j]) => IsPending(l[d + j])
    <2>1. d + j \in 1 .. Len(l)
        BY <1>2, <1>3
    <2>2. l[d + j] \in Messages
        BY <2>1, ElementOfSeq
    <2>3. N(l[d + j]) \in Messages /\ Key(N(l[d + j])) = Key(l[d + j])
        BY <2>2, NormalizeType
    <2>4. /\ N(l[d + j]).status = "sent" => l[d + j].status = "sent"
          /\ IsPending(N(l[d + j])) => IsPending(l[d + j])
        BY <2>2 DEF NormalizeStoredMessageForLoad, CompleteAssistantMessage, IsPending, IsAnswer, Messages
    <2> HIDE DEF N
    <2>5. CASE r[j] = N(l[d + j])
        BY <2>1, <2>3, <2>4, <2>5
    <2>6. CASE r[j] = Failed(N(l[d + j]))
        <3>1. Key(r[j]) = Key(N(l[d + j]))
            BY <2>3, <2>6, NormalizeType
        <3>2. r[j].status = "error"
            BY <2>3, <2>6 DEF Failed, Messages
        <3> QED
            BY <2>1, <2>3, <3>1, <3>2 DEF IsPending
    <2> QED
        BY <1>2, <2>5, <2>6
<1> HIDE DEF N
<1>5. \A j \in 1 .. Len(r) : Open(r[j], c) => Open(l[d + j], c)
    BY <1>4, KeyParts DEF Open
<1>6. Derived(r, l, p, c)
    BY <1>3, <1>4, <1>5 DEF Derived
<1>7. Sound(r, c, g)
    <2> HIDE DEF p
    <2> QED
        BY <1>1, <1>6, DerivedSound
<1>8. NoneOpen(r, c)
    <2>1. ASSUME NEW j \in 1 .. Len(r), Open(r[j], c) PROVE FALSE
        <3>1. j = Len(r)
            BY <1>7, <2>1 DEF Sound
        <3>2. j + 1 .. Len(r) = {}
            BY <1>3, <3>1
        <3>3. r[j] = Failed(N(l[d + j]))
            BY <1>2, <2>1, <3>2 DEF Open
        <3>4. N(l[d + j]) \in Messages
            <4>1. l[d + j] \in Messages
                BY <1>4, ElementOfSeq
            <4> QED
                BY <4>1, NormalizeType DEF N
        <3> QED
            BY <2>1, <3>3, <3>4 DEF Failed, Open, IsPending, Messages
    <2> QED
        BY <2>1 DEF NoneOpen
<1> QED
    BY <1>1, <1>7, <1>8 DEF r

-----------------------------------------------------------------------------
\* The invariant. Every list the page keeps is sound. After a render that found
\* nothing busy no answer is open, and an open answer is the current one. While
\* the page is busy, the current answer is pending wherever it is shown, it is
\* the one that updates reach, and no list captured before it and no editor
\* knows it.

SoundInv ==
    /\ Sound(messages, cut, generation) /\ Sound(View, cut, generation)
    /\ Sound(Kept, cut, generation) /\ Sound(latest, cut, generation)
    /\ \A l \in Left : Sound(l, cut, generation)
    /\ \A l \in Submitted : Sound(l, cut, generation)
    /\ \A h \in cut : h <= generation
    /\ \A k \in editing : k.gen <= generation

OpenInv ==
    /\ \A l \in Submitted : NoneOpen(l, cut)
    /\ mounted /\ ~shown => NoneOpen(messages, cut)
    /\ mounted /\ ~Busy => NoneOpen(View, cut)
    /\ mounted => OpenNow(View, cut, generation) /\ OpenNow(Kept, cut, generation)

LiveInv ==
    Busy =>
    /\ StillPending(messages, cut, generation) /\ StillPending(View, cut, generation)
    /\ LastIsCurrent(View, cut, generation)
    /\ \A l \in Submitted : Elsewhere(l, generation)
    /\ \A k \in editing : k.gen # generation
    /\ ~shown => /\ Elsewhere(messages, generation)
                 /\ View # <<>> /\ IsAnswer(View[Len(View)])
                 /\ View[Len(View)].gen = generation

AnswerInv == SoundInv /\ OpenInv /\ LiveInv

LEMMA PageFacts ==
    ASSUME Types
    PROVE  /\ generation \in Nat /\ generation \in Int
           /\ messages \in Seq(Messages) /\ latest \in Seq(Messages) /\ stored \in Seq(Messages)
           /\ View \in Seq(Messages) /\ Kept \in Seq(Messages)
           /\ stored \in Left
           /\ \A l \in Left : l \in Seq(Messages)
           /\ \A l \in Submitted : l \in Seq(Messages)
           /\ \A k \in editing : k.gen \in Int
           /\ \A h \in cut : h \in Int
<1>1. generation \in Nat /\ generation \in Int
    BY PlaygroundAssumption DEF Types, RequestTypes
<1>2. /\ messages \in Seq(Messages) /\ latest \in Seq(Messages) /\ stored \in Seq(Messages)
    BY DEF Types, ListTypes
<1>l. stored \in Left /\ \A l \in Left : l \in Seq(Messages)
    BY <1>2 DEF Left, Types, SubmitTypes
<1>s. \A l \in Submitted : l \in Seq(Messages)
    BY SubmitFields DEF Submitted
<1>3. \A k \in editing : k.gen \in Int
    <2>1. \A k \in editing : k \in Keys
        BY DEF Types, EditTypes
    <2> QED
        BY <2>1 DEF Keys, Gens
<1>4. \A h \in cut : h \in Int
    BY DEF Types, EditTypes, Gens
<1> QED
    BY <1>1, <1>2, <1>l, <1>s, <1>3, <1>4, ViewTypes

LEMMA BusyMounted ==
    ASSUME Ctl, Busy
    PROVE  mounted
BY DEF Ctl, Busy

\* Steps that end with a render.
LEMMA DisplayAnswers ==
    ASSUME Types, AnswerInv, NEW l \in Seq(Messages), Displays(l),
           Left' = Left, Submitted' = Submitted, editing' \subseteq editing,
           cut \subseteq cut', \A h \in cut' : h <= generation',
           (generation' = generation /\ (Busy' => Busy)) \/ generation' = generation + 1,
           Sound(l, cut', generation'), OpenNow(l, cut', generation'),
           ~Busy' => NoneOpen(l, cut'),
           Busy' => StillPending(l, cut', generation') /\ LastIsCurrent(l, cut', generation')
    PROVE  AnswerInv'
<1> USE PageFacts
<1>1. /\ messages' = l /\ View' = l /\ Kept' = l /\ (shown' <=> Busy')
      /\ latest' = l \/ latest' = latest
    BY DEF Displays
<1>2. generation' \in Int /\ generation <= generation'
    OBVIOUS
<1>3. /\ Sound(latest, cut', generation')
      /\ \A c \in Left : Sound(c, cut', generation')
      /\ \A c \in Submitted : Sound(c, cut', generation')
    BY <1>2, SoundLater DEF AnswerInv, SoundInv
<1>4. \A k \in editing' : k.gen <= generation'
    BY <1>2 DEF AnswerInv, SoundInv
<1>5. SoundInv'
    BY <1>1, <1>3, <1>4 DEF SoundInv
<1>6. \A c \in Submitted : NoneOpen(c, cut')
    BY OpenLater DEF AnswerInv, OpenInv
<1>7. OpenInv'
    BY <1>1, <1>6 DEF OpenInv
<1>8. ASSUME Busy'
      PROVE  /\ \A c \in Submitted : Elsewhere(c, generation')
             /\ \A k \in editing' : k.gen # generation'
    <2>1. CASE generation' = generation /\ Busy
        BY <2>1 DEF AnswerInv, LiveInv
    <2>2. CASE generation' = generation + 1
        <3>1. ASSUME NEW c \in Submitted, NEW i \in 1 .. Len(c) PROVE c[i].gen # generation + 1
            <4>1. c[i] \in Messages /\ c[i].gen <= generation
                BY ElementOfSeq DEF AnswerInv, SoundInv, Sound
            <4>2. c[i].gen \in Int
                BY <4>1 DEF Messages, Gens
            <4> QED
                BY <4>1, <4>2
        <3>2. \A k \in editing' : k.gen # generation + 1
            BY DEF AnswerInv, SoundInv
        <3> QED
            BY <2>2, <3>1, <3>2 DEF Elsewhere
    <2> QED
        BY <1>8, <2>1, <2>2
<1>9. LiveInv'
    BY <1>1, <1>8 DEF LiveInv
<1> QED
    BY <1>5, <1>7, <1>9 DEF AnswerInv

LEMMA RendersAnswers ==
    ASSUME Types, AnswerInv, Renders
    PROVE  AnswerInv'
<1>1. /\ Displays(View) /\ Left' = Left /\ Submitted' = Submitted /\ editing' = editing
      /\ cut' = cut /\ generation' = generation /\ (Busy' <=> Busy) /\ mounted
    BY DEF Renders, SameRequest
<1>2. View \in Seq(Messages) /\ \A h \in cut : h <= generation
    BY PageFacts DEF AnswerInv, SoundInv
<1>3. /\ Sound(View, cut, generation) /\ OpenNow(View, cut, generation)
      /\ ~Busy => NoneOpen(View, cut)
      /\ Busy => StillPending(View, cut, generation) /\ LastIsCurrent(View, cut, generation)
    BY <1>1 DEF AnswerInv, SoundInv, OpenInv, LiveInv
<1> QED
    BY <1>1, <1>2, <1>3, DisplayAnswers

LEMMA ClearsAnswers ==
    ASSUME Types, AnswerInv, Clears
    PROVE  AnswerInv'
<1>1. /\ Displays(<<>>) /\ Left' = Left /\ Submitted' = Submitted /\ editing' \subseteq editing
      /\ cut' = cut /\ generation' = generation /\ (Busy' <=> Busy) /\ mounted
    BY DEF Clears, SameRequest
<1>2. <<>> \in Seq(Messages) /\ \A h \in cut : h <= generation
    BY DEF AnswerInv, SoundInv
<1>3. /\ Sound(<<>>, cut, generation) /\ OpenNow(<<>>, cut, generation)
      /\ NoneOpen(<<>>, cut)
      /\ StillPending(<<>>, cut, generation) /\ LastIsCurrent(<<>>, cut, generation)
    BY DEF Sound, OpenNow, NoneOpen, StillPending, LastIsCurrent
<1> QED
    BY <1>1, <1>2, <1>3, DisplayAnswers

\* Deleting: a control that is shown while nothing was busy. If a request began
\* since, its answer is the last of the view and is not the message deleted.
LEMMA DeletesAnswers ==
    ASSUME Types, AnswerInv, Deletes
    PROVE  AnswerInv'
<1> DEFINE r(i) == RemoveMessageByKey(View, Key(messages[i]))
<1>1. PICK i \in 1 .. Len(messages) : Displays(r(i))
    BY DEF Deletes
<1> DEFINE l == r(i)
           k == Key(messages[i])
<1>2. /\ Displays(l) /\ Left' = Left /\ Submitted' = Submitted /\ editing' = editing
      /\ cut' = cut /\ generation' = generation /\ (Busy' <=> Busy) /\ mounted /\ ~shown
    BY <1>1 DEF Deletes, SameRequest
<1>3. View \in Seq(Messages) /\ messages \in Seq(Messages) /\ \A h \in cut : h <= generation
    BY PageFacts DEF AnswerInv, SoundInv
<1>4. Sound(View, cut, generation)
    BY DEF AnswerInv, SoundInv
<1>5. /\ l \in Seq(Messages) /\ Sound(l, cut, generation)
      /\ NoneOpen(View, cut) => NoneOpen(l, cut)
      /\ OpenNow(View, cut, generation) => OpenNow(l, cut, generation)
      /\ StillPending(View, cut, generation) => StillPending(l, cut, generation)
      /\ View # <<>> /\ Key(View[Len(View)]) # k => l # <<>> /\ l[Len(l)] = View[Len(View)]
    BY <1>3, <1>4, RemovedOpen
<1>6. Busy => LastIsCurrent(l, cut, generation)
    <2> SUFFICES ASSUME Busy PROVE LastIsCurrent(l, cut, generation)
        OBVIOUS
    <2>1. /\ messages[i].gen # generation
          /\ View # <<>> /\ View[Len(View)].gen = generation
        BY <1>2 DEF AnswerInv, LiveInv, Elsewhere
    <2>2. Key(View[Len(View)]) # k
        BY <2>1, KeyParts
    <2>3. l[Len(l)].gen = generation
        BY <1>5, <2>1, <2>2
    <2> HIDE DEF l
    <2> QED
        BY <2>3 DEF LastIsCurrent
<1>7. /\ OpenNow(l, cut, generation)
      /\ ~Busy => NoneOpen(l, cut)
      /\ Busy => StillPending(l, cut, generation)
    BY <1>2, <1>5 DEF AnswerInv, OpenInv, LiveInv
<1> HIDE DEF l
<1> QED
    BY <1>2, <1>3, <1>5, <1>6, <1>7, DisplayAnswers

\* What a click cuts off.
LEMMA CutFacts ==
    ASSUME Types, AnswerInv, CutQueue
    PROVE  /\ cut \subseteq cut' /\ \A h \in cut' : h <= generation
           /\ updates = <<>> => cut' = cut
           /\ updates # <<>> =>
                  /\ generation \in cut'
                  /\ messages # <<>> => messages[Len(messages)].gen \in cut'
<1>1. messages \in Seq(Messages) /\ generation \in Int /\ \A h \in cut : h <= generation
    BY PageFacts DEF AnswerInv, SoundInv
<1>2. Len(messages) \in Nat
    BY <1>1, LenProperties
<1>3. CASE updates = <<>>
    BY <1>1, <1>3 DEF CutQueue
<1>4. CASE updates # <<>>
    <2>1. cut' = cut \cup {generation} \cup
                 {messages[i].gen : i \in {j \in 1..Len(messages) : j = Len(messages)}}
        BY <1>4 DEF CutQueue
    <2>2. \A i \in 1 .. Len(messages) : messages[i].gen <= generation
        BY DEF AnswerInv, SoundInv, Sound
    <2>3. messages # <<>> => Len(messages) \in 1 .. Len(messages)
        BY <1>1, <1>2
    <2> QED
        BY <1>1, <1>4, <2>1, <2>2, <2>3
<1> QED
    BY <1>3, <1>4

\* Saving an edit shows the messages of the last render again. If anything was
\* queued, the answer at their end is cut off; otherwise they are the view.
LEMMA EditsAnswers ==
    ASSUME Types, AnswerInv, Edits
    PROVE  AnswerInv'
<1>1. PICK i \in 1 .. Len(messages) : Displays(EditMessage(messages, i))
    BY DEF Edits
<1> DEFINE l == EditMessage(messages, i)
<1>2. /\ Displays(l) /\ Left' = Left /\ Submitted' = Submitted /\ editing' \subseteq editing
      /\ generation' = generation /\ (Busy' <=> Busy) /\ mounted /\ CutQueue
    BY <1>1 DEF Edits, SameRequest
<1>3. messages \in Seq(Messages) /\ generation \in Int
    BY PageFacts
<1>4. l \in Seq(Messages) /\ SameOutline(l, messages)
    BY <1>3, EditOutline
<1> HIDE DEF l
<1>5. /\ cut \subseteq cut' /\ \A h \in cut' : h <= generation
      /\ updates = <<>> => cut' = cut
      /\ updates # <<>> =>
             /\ generation \in cut'
             /\ messages # <<>> => messages[Len(messages)].gen \in cut'
    BY <1>2, CutFacts
<1>6. Sound(messages, cut', generation)
    BY <1>3, <1>5, SoundLater DEF AnswerInv, SoundInv
<1>7. /\ OpenNow(messages, cut', generation)
      /\ ~Busy => NoneOpen(messages, cut')
      /\ Busy => StillPending(messages, cut', generation) /\ LastIsCurrent(messages, cut', generation)
    <2>1. CASE updates = <<>>
        <3>1. View = messages /\ cut' = cut
            BY <1>5, <2>1, NothingQueued
        <3> QED
            BY <1>2, <3>1 DEF AnswerInv, OpenInv, LiveInv
    <2>2. CASE updates # <<>>
        <3>1. NoneOpen(messages, cut')
            <4>1. ASSUME NEW j \in 1 .. Len(messages), Open(messages[j], cut') PROVE FALSE
                <5>1. j = Len(messages)
                    BY <1>6, <4>1 DEF Sound
                <5>2. messages # <<>>
                    BY <4>1
                <5> QED
                    BY <1>5, <2>2, <4>1, <5>1, <5>2 DEF Open
            <4> QED
                BY <4>1 DEF NoneOpen
        <3>2. OpenNow(messages, cut', generation)
            BY <3>1 DEF NoneOpen, OpenNow
        <3>3. StillPending(messages, cut', generation)
            BY <1>5, <2>2 DEF StillPending, Own
        <3>4. LastIsCurrent(messages, cut', generation)
            BY <1>5, <2>2 DEF LastIsCurrent, Own
        <3> QED
            BY <3>1, <3>2, <3>3, <3>4
    <2> QED
        BY <2>1, <2>2
<1>8. /\ Sound(l, cut', generation) /\ OpenNow(l, cut', generation)
      /\ ~Busy => NoneOpen(l, cut')
      /\ Busy => StillPending(l, cut', generation) /\ LastIsCurrent(l, cut', generation)
    BY <1>3, <1>4, <1>6, <1>7, OutlineOpen
<1> QED
    BY <1>2, <1>4, <1>5, <1>8, DisplayAnswers

\* A new request: what is shown before its answer was not open.
LEMMA SendsAnswers ==
    ASSUME Types, AnswerInv, Sends
    PROVE  AnswerInv'
<1>1. /\ Left' = Left /\ Submitted' = Submitted /\ editing' \subseteq editing
      /\ cut' = cut /\ generation' = generation + 1 /\ Busy' /\ mounted /\ generation + 1 \in Gens
    BY DEF Sends, Asks, Begins
<1>2. /\ messages \in Seq(Messages) /\ generation \in Int /\ Sound(messages, cut, generation)
      /\ \A h \in cut : h \in Int /\ h <= generation
    BY PageFacts DEF AnswerInv, SoundInv
<1>3. ~shown \/ messages = <<>> => NoneOpen(messages, cut)
    <2>1. messages = <<>> => NoneOpen(messages, cut)
        BY DEF NoneOpen
    <2> QED
        BY <1>1, <2>1 DEF AnswerInv, OpenInv
<1>4. \E l \in Seq(Messages) : Displays(l) /\ NewAnswer(l, cut, generation + 1)
    <2>1. CASE /\ ~shown \/ messages = <<>>
               /\ Displays(AppendUserMessagePair(messages, generation + 1, FALSE))
        <3>1. FALSE \in BOOLEAN
            OBVIOUS
        <3> QED
            BY <1>1, <1>2, <1>3, <2>1, <3>1, PairNew
    <2>2. ASSUME NEW i \in 1 .. Len(messages), ~shown,
                 Displays(CreateRegeneratedMessages(messages, i, generation + 1))
          PROVE  \E l \in Seq(Messages) : Displays(l) /\ NewAnswer(l, cut, generation + 1)
        BY <1>1, <1>2, <1>3, <2>2, RegeneratedNew
    <2>3. ASSUME NEW i \in 1 .. Len(messages), ~IsAnswer(messages[i]),
                 Displays(CreateRegeneratedMessages(EditMessage(messages, i), i, generation + 1))
          PROVE  \E l \in Seq(Messages) : Displays(l) /\ NewAnswer(l, cut, generation + 1)
        <3> DEFINE e == EditMessage(messages, i)
        <3>1. e \in Seq(Messages) /\ SameOutline(e, messages)
            BY <1>2, EditOutline
        <3> HIDE DEF e
        <3>2. Sound(e, cut, generation)
            BY <1>2, <3>1, OutlineOpen
        <3>3. i \in 1 .. Len(e) /\ ~IsAnswer(e[i])
            BY <2>3, <3>1, KeyParts DEF SameOutline
        <3>4. Displays(CreateRegeneratedMessages(e, i, generation + 1))
            BY <2>3 DEF e
        <3> QED
            BY <1>1, <1>2, <3>1, <3>2, <3>3, <3>4, RegeneratedNew
    <2> QED
        BY <2>1, <2>2, <2>3 DEF Sends
<1>5. PICK l \in Seq(Messages) : Displays(l) /\ NewAnswer(l, cut, generation + 1)
    BY <1>4
<1>6. \A h \in cut : h <= generation + 1
    BY <1>2
<1> QED
    BY <1>1, <1>5, <1>6, DisplayAnswers DEF NewAnswer

\* A list that hears the buffered chunks.
LEMMA HeardOpen ==
    ASSUME Types, generation \in Gens, NEW l \in Seq(Messages), NEW c, NEW g
    PROVE  /\ Heard(l) \in Seq(Messages)
           /\ Sound(l, c, g) => Sound(Heard(l), c, g)
           /\ OpenNow(l, c, g) /\ LastIsCurrent(l, c, g) => OpenNow(Heard(l), c, g)
           /\ StillPending(l, c, g) => StillPending(Heard(l), c, g)
           /\ LastIsCurrent(l, c, g) => LastIsCurrent(Heard(l), c, g)
           /\ l # <<>> => Heard(l) # <<>> /\ Key(Heard(l)[Len(Heard(l))]) = Key(l[Len(l)])
<1>1. CASE pending.text = NoText
    BY <1>1 DEF Heard
<1>2. CASE pending.text # NoText
    <2>1. Heard(l) = UpdateLastAssistantMessage(l, Chunk)
        BY <1>2 DEF Heard
    <2>2. Chunk.op = "chunks" /\ Chunk.text \in Texts /\ Chunk.op \in AnswerOps
        BY DEF Chunk, AnswerOps, Types, ChunkTypes
    <2>3. Heard(l) \in Seq(Messages)
        BY <2>1, <2>2, UpdatedOutline
    <2>4. Sound(l, c, g) => Sound(Heard(l), c, g)
        BY <2>1, <2>2, UpdatedSound
    <2>5. /\ OpenNow(l, c, g) /\ LastIsCurrent(l, c, g) => OpenNow(Heard(l), c, g)
          /\ StillPending(l, c, g) => StillPending(Heard(l), c, g)
        BY <2>1, <2>2, ChunksOpen
    <2>6. /\ LastIsCurrent(l, c, g) => LastIsCurrent(Heard(l), c, g)
          /\ l # <<>> => Heard(l) # <<>> /\ Key(Heard(l)[Len(Heard(l))]) = Key(l[Len(l)])
        BY <2>1, <2>2, UpdatedLast
    <2> QED
        BY <2>3, <2>4, <2>5, <2>6
<1> QED
    BY <1>1, <1>2

LEMMA EndedOpen ==
    ASSUME NEW l \in Seq(Messages), NEW u, u.op \in EndingOps, NEW c, NEW g, Sound(l, c, g)
    PROVE  LET r == UpdateLastAssistantMessage(l, u) IN
           /\ r \in Seq(Messages) /\ Sound(r, c, g) /\ NoneOpen(r, c) /\ OpenNow(r, c, g)
<1>1. u.op \in AnswerOps /\ u.op # "chunks"
    BY DEF EndingOps, AnswerOps
<1>2. UpdateLastAssistantMessage(l, u) \in Seq(Messages)
    BY <1>1, UpdatedOutline
<1>3. Sound(UpdateLastAssistantMessage(l, u), c, g)
    BY <1>1, UpdatedSound
<1>4. NoneOpen(UpdateLastAssistantMessage(l, u), c)
    BY EndedNone
<1>5. OpenNow(UpdateLastAssistantMessage(l, u), c, g)
    BY <1>4 DEF NoneOpen, OpenNow
<1> QED
    BY <1>2, <1>3, <1>4, <1>5

\* A stop ends whatever is open.
LEMMA StopsAnswers ==
    ASSUME Types, AnswerInv, Stops
    PROVE  AnswerInv'
<1>1. /\ Left' = Left /\ Submitted' = Submitted /\ editing' \subseteq editing
      /\ generation' = generation + 1 /\ ~Busy' /\ mounted /\ CutQueue /\ generation + 1 \in Gens
    BY DEF Stops, Begins
<1>2. messages \in Seq(Messages) /\ Kept \in Seq(Messages) /\ generation \in Int
    BY PageFacts
<1>3. cut \subseteq cut' /\ \A h \in cut' : h <= generation
    BY <1>1, CutFacts
<1>4. \A h \in cut' : h \in Int
    <2>1. cut' \subseteq Gens
        BY <1>1, CutQueueType
    <2> QED
        BY <2>1 DEF Gens
<1>5. \A h \in cut' : h <= generation + 1
    BY <1>2, <1>3, <1>4
<1>6. Sound(Kept, cut', generation + 1) /\ Sound(messages, cut', generation + 1)
    BY <1>2, <1>3, SoundLater DEF AnswerInv, SoundInv
<1>7. Stop.op \in EndingOps
    BY DEF Stop, EndingOps
<1>8. \E l \in Seq(Messages) : /\ Displays(l) /\ Sound(l, cut', generation + 1) /\ NoneOpen(l, cut')
                               /\ OpenNow(l, cut', generation + 1)
    <2>1. CASE Displays(UpdateLastAssistantMessage(Kept, Stop))
        BY <1>2, <1>6, <1>7, <2>1, EndedOpen
    <2>2. CASE /\ pending.text # NoText
               /\ Displays(UpdateLastAssistantMessage(Heard(messages), Stop))
        <3>1. generation \in Gens
            BY <2>2 DEF Types, ChunkTypes, RequestTypes, Gens
        <3>2. Heard(messages) \in Seq(Messages) /\ Sound(Heard(messages), cut', generation + 1)
            BY <1>2, <1>6, <3>1, HeardOpen
        <3> QED
            BY <1>7, <2>2, <3>2, EndedOpen
    <2> QED
        BY <2>1, <2>2 DEF Stops
<1>9. PICK l \in Seq(Messages) : /\ Displays(l) /\ Sound(l, cut', generation + 1) /\ NoneOpen(l, cut')
                                 /\ OpenNow(l, cut', generation + 1)
    BY <1>8
<1> QED
    BY <1>1, <1>3, <1>5, <1>9, DisplayAnswers

\* Steps of the request that queue updates.
LEMMA TellAnswers ==
    ASSUME Types, Ctl, AnswerInv, NEW v \in Seq(Messages), NEW k \in Seq(Messages), Tells(v, k),
           Sound(v, cut, generation), OpenNow(v, cut, generation),
           updates = <<>> => Sound(k, cut, generation) /\ OpenNow(k, cut, generation),
           ~Busy' => NoneOpen(v, cut),
           Busy' => /\ StillPending(v, cut, generation) /\ LastIsCurrent(v, cut, generation)
                    /\ View # <<>> => v # <<>> /\ Key(v[Len(v)]) = Key(View[Len(View)])
    PROVE  AnswerInv'
<1>1. /\ UNCHANGED <<messages, shown, generation, mounted, cut, editing>>
      /\ Left' = Left /\ Submitted' = Submitted
      /\ View' = v /\ Busy
      /\ \/ Kept' = Kept /\ latest' = latest
         \/ updates = <<>> /\ Kept' = k /\ latest' = k
    BY DEF Tells, QueueRuns
<1>2. SoundInv'
    BY <1>1 DEF AnswerInv, SoundInv
<1>3. OpenInv'
    <2>1. mounted
        BY <1>1, BusyMounted
    <2>2. OpenNow(Kept', cut, generation)
        BY <1>1, <2>1 DEF AnswerInv, OpenInv
    <2> QED
        BY <1>1, <2>2 DEF AnswerInv, OpenInv
<1>4. LiveInv'
    <2> SUFFICES ASSUME Busy' PROVE LiveInv'
        BY DEF LiveInv
    <2>1. ASSUME ~shown
          PROVE  v # <<>> /\ IsAnswer(v[Len(v)]) /\ v[Len(v)].gen = generation
        <3>1. View # <<>> /\ IsAnswer(View[Len(View)]) /\ View[Len(View)].gen = generation
            BY <1>1, <2>1 DEF AnswerInv, LiveInv
        <3> QED
            BY <3>1, KeyParts
    <2> QED
        BY <1>1, <2>1 DEF AnswerInv, LiveInv
<1> QED
    BY <1>2, <1>3, <1>4 DEF AnswerInv

LEMMA FlushesAnswers ==
    ASSUME Types, Ctl, AnswerInv, Flushes
    PROVE  AnswerInv'
<1>1. Tells(Heard(View), Heard(messages)) /\ Busy' /\ Busy /\ generation \in Gens
    BY DEF Flushes, Tells
<1>2. View \in Seq(Messages) /\ messages \in Seq(Messages) /\ mounted
    BY <1>1, PageFacts, BusyMounted
<1>3. /\ Sound(View, cut, generation) /\ OpenNow(View, cut, generation)
      /\ StillPending(View, cut, generation) /\ LastIsCurrent(View, cut, generation)
    BY <1>1, <1>2 DEF AnswerInv, SoundInv, OpenInv, LiveInv
<1>4. /\ Heard(View) \in Seq(Messages) /\ Sound(Heard(View), cut, generation)
      /\ OpenNow(Heard(View), cut, generation) /\ StillPending(Heard(View), cut, generation)
      /\ LastIsCurrent(Heard(View), cut, generation)
      /\ View # <<>> => /\ Heard(View) # <<>>
                        /\ Key(Heard(View)[Len(Heard(View))]) = Key(View[Len(View)])
    BY <1>1, <1>2, <1>3, HeardOpen
<1>5. Heard(messages) \in Seq(Messages)
    BY <1>1, <1>2, HeardOpen
<1>6. updates = <<>> => Heard(messages) = Heard(View)
    BY NothingQueued
<1> QED
    BY <1>1, <1>4, <1>5, <1>6, TellAnswers

LEMMA EndsAnswers ==
    ASSUME Types, Ctl, AnswerInv, NEW o \in EndingOps, Ends(o)
    PROVE  AnswerInv'
<1> DEFINE v == UpdateLastAssistantMessage(Heard(View), Ending(o))
           k == IF pending.text = NoText THEN UpdateLastAssistantMessage(messages, Ending(o))
                ELSE Heard(messages)
<1>1. Tells(v, k) /\ ~Busy' /\ Busy /\ generation \in Gens
    BY DEF Ends, Tells
<1>2. View \in Seq(Messages) /\ messages \in Seq(Messages) /\ mounted
    BY <1>1, PageFacts, BusyMounted
<1>3. /\ Sound(View, cut, generation) /\ OpenNow(View, cut, generation)
      /\ LastIsCurrent(View, cut, generation) /\ Sound(messages, cut, generation)
    BY <1>1, <1>2 DEF AnswerInv, SoundInv, OpenInv, LiveInv
<1>4. /\ Heard(View) \in Seq(Messages) /\ Sound(Heard(View), cut, generation)
      /\ OpenNow(Heard(View), cut, generation)
    BY <1>1, <1>2, <1>3, HeardOpen
<1>5. Heard(messages) \in Seq(Messages) /\ Sound(Heard(messages), cut, generation)
    BY <1>1, <1>2, <1>3, HeardOpen
<1>6. Ending(o).op \in EndingOps
    BY DEF Ending
<1>7. /\ v \in Seq(Messages) /\ Sound(v, cut, generation) /\ NoneOpen(v, cut)
      /\ OpenNow(v, cut, generation)
    BY <1>4, <1>6, EndedOpen
<1>8. /\ UpdateLastAssistantMessage(messages, Ending(o)) \in Seq(Messages)
      /\ Sound(UpdateLastAssistantMessage(messages, Ending(o)), cut, generation)
      /\ OpenNow(UpdateLastAssistantMessage(messages, Ending(o)), cut, generation)
    BY <1>2, <1>3, <1>6, EndedOpen
<1>9. updates = <<>> => Heard(messages) = Heard(View)
    BY NothingQueued
<1>10. /\ k \in Seq(Messages) /\ Sound(k, cut, generation)
       /\ updates = <<>> => OpenNow(k, cut, generation)
    BY <1>4, <1>5, <1>8, <1>9
<1> HIDE DEF v, k
<1> QED
    BY <1>1, <1>7, <1>10, TellAnswers

\* A submit whose images are read: the list it kept has no open answer and does
\* not know the new generation.
LEMMA ConvertsAnswers ==
    ASSUME Types, AnswerInv, Converts
    PROVE  AnswerInv'
<1>1. /\ UNCHANGED <<messages, shown, editing, cut, mounted>> /\ Left' = Left
      /\ Submitted' \subseteq Submitted
      /\ generation' = generation + 1 /\ Busy' /\ mounted /\ generation + 1 \in Gens
    BY DEF Converts, Asks, Begins
<1>2. PICK list \in Submitted, image \in BOOLEAN :
          LET l == AppendUserMessagePair(list, generation + 1, image) IN
          View' = l /\ Kept' = l /\ latest' \in {latest, l}
    BY DEF Converts
<1> DEFINE l == AppendUserMessagePair(list, generation + 1, image)
<1>3. View' = l /\ Kept' = l /\ latest' \in {latest, l}
    BY <1>2
<1>4. /\ messages \in Seq(Messages) /\ latest \in Seq(Messages)
      /\ \A m \in Left : m \in Seq(Messages)
      /\ \A m \in Submitted : m \in Seq(Messages)
      /\ list \in Seq(Messages) /\ generation \in Int
      /\ \A k \in editing : k.gen \in Int
      /\ \A h \in cut : h \in Int
    BY PageFacts
<1>5. Sound(list, cut, generation) /\ NoneOpen(list, cut)
    BY DEF AnswerInv, SoundInv, OpenInv
<1>6. l \in Seq(Messages) /\ NewAnswer(l, cut, generation + 1)
    BY <1>1, <1>4, <1>5, PairNew
<1> HIDE DEF l
<1>7. /\ Sound(messages, cut, generation + 1) /\ Sound(latest, cut, generation + 1)
      /\ \A m \in Left : Sound(m, cut, generation + 1)
      /\ \A m \in Submitted : Sound(m, cut, generation + 1)
    BY <1>4, SoundLater DEF AnswerInv, SoundInv
<1>8. /\ \A h \in cut : h <= generation + 1
      /\ \A k \in editing : k.gen <= generation + 1 /\ k.gen # generation + 1
    BY <1>4 DEF AnswerInv, SoundInv
<1>9. SoundInv'
    BY <1>1, <1>3, <1>6, <1>7, <1>8 DEF SoundInv, NewAnswer
<1>10. OpenInv'
    BY <1>1, <1>3, <1>6 DEF AnswerInv, OpenInv, NewAnswer
<1>11. Elsewhere(messages, generation + 1)
       /\ \A m \in Submitted : Elsewhere(m, generation + 1)
    BY <1>4, SoundElsewhere DEF AnswerInv, SoundInv
<1>12. StillPending(messages, cut, generation + 1)
    BY <1>11 DEF Elsewhere, StillPending
<1>13. LiveInv'
    BY <1>1, <1>3, <1>6, <1>8, <1>11, <1>12 DEF LiveInv, NewAnswer
<1> QED
    BY <1>9, <1>10, <1>13 DEF AnswerInv

LEMMA LoadsAnswers ==
    ASSUME Types, AnswerInv, Loads
    PROVE  AnswerInv'
<1> DEFINE l == Loaded(stored)
<1>1. /\ UNCHANGED <<generation, cut>> /\ ~Busy' /\ messages' = l /\ latest' = l
      /\ View' = l /\ Kept' = l /\ Left' \subseteq Left \cup {Saved(l)}
      /\ Submitted' = {} /\ editing' = {}
    BY DEF Loads
<1>2. stored \in Seq(Messages) /\ Sound(stored, cut, generation)
      /\ (\A m \in Left : Sound(m, cut, generation)) /\ \A h \in cut : h <= generation
    BY PageFacts DEF AnswerInv, SoundInv
<1>3. l \in Seq(Messages) /\ Sound(l, cut, generation) /\ NoneOpen(l, cut)
    BY <1>2, LoadedSound
<1> HIDE DEF l
<1>4. Sound(Saved(l), cut, generation)
    BY <1>3, SavedSound
<1>5. OpenNow(l, cut, generation)
    BY <1>3 DEF NoneOpen, OpenNow
<1>6. SoundInv'
    BY <1>1, <1>2, <1>3, <1>4 DEF SoundInv
<1>7. OpenInv'
    BY <1>1, <1>3, <1>5 DEF OpenInv
<1> QED
    BY <1>1, <1>6, <1>7 DEF AnswerInv, LiveInv

LEMMA LeavesAnswers ==
    ASSUME Types, AnswerInv, Leaves
    PROVE  AnswerInv'
<1>1. /\ UNCHANGED <<messages, latest, cut>> /\ generation' = generation + 1
      /\ View' = messages /\ Kept' = messages /\ ~mounted' /\ ~Busy'
      /\ Submitted' = {} /\ editing' = {}
      /\ generation + 1 \in Gens
      /\ \A l \in Left' : \/ l \in Left \cup {Saved(latest)}
                          \/ \E list \in Submitted, image \in BOOLEAN :
                                 l = AppendUserMessagePair(list, generation + 1, image)
    BY DEF Leaves
<1>2. /\ messages \in Seq(Messages) /\ latest \in Seq(Messages)
      /\ \A l \in Left : l \in Seq(Messages)
      /\ \A l \in Submitted : l \in Seq(Messages)
      /\ generation \in Int /\ \A h \in cut : h \in Int /\ h <= generation
    BY PageFacts DEF AnswerInv, SoundInv
<1>3. /\ Sound(messages, cut, generation + 1) /\ Sound(latest, cut, generation + 1)
      /\ \A l \in Left : Sound(l, cut, generation + 1)
    BY <1>2, SoundLater DEF AnswerInv, SoundInv
<1>4. Sound(Saved(latest), cut, generation + 1)
    BY <1>2, <1>3, SavedSound
<1>7. ASSUME NEW list \in Submitted, NEW image \in BOOLEAN
      PROVE  Sound(AppendUserMessagePair(list, generation + 1, image), cut, generation + 1)
    <2>1. list \in Seq(Messages) /\ Sound(list, cut, generation) /\ NoneOpen(list, cut)
        BY <1>2 DEF AnswerInv, SoundInv, OpenInv
    <2> QED
        BY <1>1, <1>2, <2>1, PairNew DEF NewAnswer
<1>8. \A l \in Left' : Sound(l, cut, generation + 1)
    BY <1>1, <1>3, <1>4, <1>7
<1>5. \A h \in cut : h <= generation + 1
    BY <1>2
<1>6. SoundInv'
    BY <1>1, <1>3, <1>8, <1>5 DEF SoundInv
<1> QED
    BY <1>1, <1>6 DEF AnswerInv, OpenInv, LiveInv

LEMMA RestsAnswers ==
    ASSUME Types, AnswerInv, Rests
    PROVE  AnswerInv'
<1>1. /\ UNCHANGED <<messages, updates, latest, shown, generation, mounted, cut>>
      /\ Busy' <=> Busy
      /\ Left' \subseteq Left \cup {Saved(latest)} \cup {Saved(l) : l \in Left}
      /\ \/ Submitted' \subseteq Submitted
         \/ Submitted' \subseteq Submitted \cup {messages} /\ mounted /\ ~shown
      /\ \/ editing' \subseteq editing
         \/ mounted /\ ~shown /\ \E i \in 1 .. Len(messages) : editing' = {Key(messages[i])}
    BY DEF Rests
<1>2. View' = View /\ Kept' = Kept
    BY <1>1 DEF View, Kept
<1>3. Sound(Saved(latest), cut, generation) /\ \A l \in Left : Sound(Saved(l), cut, generation)
    BY PageFacts, SavedSound DEF AnswerInv, SoundInv
<1>l. \A l \in Left' : Sound(l, cut, generation)
    BY <1>1, <1>3 DEF AnswerInv, SoundInv
<1>4. \A i \in 1 .. Len(messages) : Key(messages[i]).gen = messages[i].gen
    BY DEF Key
<1>5. \A k \in editing' : k.gen <= generation
    BY <1>1, <1>4 DEF AnswerInv, SoundInv, Sound
<1>6. SoundInv'
    BY <1>1, <1>2, <1>l, <1>5 DEF AnswerInv, SoundInv
<1>7. OpenInv'
    BY <1>1, <1>2 DEF AnswerInv, OpenInv
<1>8. LiveInv'
    <2> SUFFICES ASSUME Busy' PROVE LiveInv'
        BY DEF LiveInv
    <2>1. \A l \in Submitted' : Elsewhere(l, generation)
        BY <1>1 DEF AnswerInv, LiveInv
    <2>2. \A k \in editing' : k.gen # generation
        BY <1>1, <1>4 DEF AnswerInv, LiveInv, Elsewhere
    <2> QED
        BY <1>1, <1>2, <2>1, <2>2 DEF AnswerInv, LiveInv
<1> QED
    BY <1>6, <1>7, <1>8 DEF AnswerInv

LEMMA InitAnswers == Init => ChunkInv /\ AnswerInv
<1> SUFFICES ASSUME Init PROVE ChunkInv /\ AnswerInv
    OBVIOUS
<1>1. /\ messages = <<>> /\ latest = <<>> /\ stored = <<>> /\ updates = <<>>
      /\ cut = {} /\ editing = {} /\ converting = {} /\ ~isStreaming /\ ~isRequesting
      /\ generation = 0 /\ pending = NoChunks(0) /\ orphans = {}
    BY DEF Init
<1>2. View = <<>> /\ Kept = <<>>
    BY <1>1, NothingQueued
<1>6. Left = {<<>>} /\ Submitted = {}
    BY <1>1 DEF Left, Submitted
<1>3. SoundInv
    BY <1>1, <1>2, <1>6 DEF SoundInv, Sound
<1>4. OpenInv
    BY <1>1, <1>2, <1>6 DEF OpenInv, NoneOpen, OpenNow
<1>5. ChunkInv
    BY <1>1 DEF ChunkInv, NoChunks
<1> QED
    BY <1>1, <1>3, <1>4, <1>5 DEF AnswerInv, LiveInv, Busy

LEMMA NextAnswers == Types /\ Ctl /\ ChunkInv /\ AnswerInv /\ [Next]_vars => AnswerInv'
<1> SUFFICES ASSUME Types, Ctl, ChunkInv, AnswerInv, [Next]_vars PROVE AnswerInv'
    OBVIOUS
<1>1. Moves
    BY MovesCover
<1>2. \A o \in {"complete", "error", "answer", "image"} : o \in EndingOps
    BY DEF EndingOps
<1>3. CASE EndsComplete \/ EndsWithError \/ EndsWithReply \/ EndsWithImage
    BY <1>2, <1>3, EndsAnswers DEF EndsComplete, EndsWithError, EndsWithReply, EndsWithImage
<1> QED
    BY <1>1, <1>3, RestsAnswers, FlushesAnswers, RendersAnswers, DeletesAnswers, EditsAnswers,
       ClearsAnswers, SendsAnswers, ConvertsAnswers, StopsAnswers, LoadsAnswers, LeavesAnswers
       DEF Moves

\* After a render at most the last answer is pending, and its request is the
\* current one and can still be stopped, however clicks, renders, queued updates,
\* saved lists and submits interleave (updateLastAssistantMessage, which looks
\* only at the last message, relies on it; handleStreamComplete,
\* handleStreamError and stopGeneration see to the rest).
THEOREM PendingIsLastCorrect == Spec => []PendingIsLast
<1>1. Types /\ Ctl /\ AnswerInv => PendingIsLast
    <2> SUFFICES ASSUME Ctl, AnswerInv, mounted, updates = <<>>,
                        NEW i \in 1 .. Len(messages), IsPending(messages[i]),
                        messages[i].gen \notin cut
                 PROVE  i = Len(messages) /\ Stoppable(messages[i].gen)
        BY DEF PendingIsLast
    <2>1. View = messages /\ Open(messages[i], cut)
        BY NothingQueued DEF Open
    <2>2. i = Len(messages) /\ messages[i].gen = generation
        BY <2>1 DEF AnswerInv, SoundInv, Sound, OpenInv, OpenNow
    <2>3. Busy
        BY <2>1 DEF AnswerInv, OpenInv, NoneOpen
    <2>4. generation \in headers \cup requests \cup {source}
        BY <2>3 DEF Busy, Ctl
    <2> QED
        BY <2>2, <2>4 DEF Stoppable
<1>2. QED
    BY <1>1, InitTypes, InitCtl, InitAnswers, NextTypes, NextCtl, NextChunkInv, NextAnswers, PTL
       DEF Spec

-----------------------------------------------------------------------------
\* Finished answers. A finished answer that is not cut off is the same in two
\* lists, unless one of the two was edited.

Agree(x, y) == y = x \/ Edited(x) \/ Edited(y)

Stays(a, b, c) ==
    \A i \in 1 .. Len(a), j \in 1 .. Len(b) :
        /\ IsAnswer(a[i]) /\ IsFinal(a[i])
        /\ a[i].gen \notin c
        /\ Key(a[i]) = Key(b[j])
        => Agree(a[i], b[j])

LEMMA StaysSelf ==
    ASSUME NEW a, NEW c, NEW g, Sound(a, c, g)
    PROVE  Stays(a, a, c)
BY DEF Sound, Stays, Agree

LEMMA StaysLater ==
    ASSUME NEW a, NEW b, NEW c, NEW d, c \subseteq d, Stays(a, b, c)
    PROVE  Stays(a, b, d)
BY DEF Stays

\* Lists of a list's messages, of new messages of generation g and of edited ones.
NewMessages(g) == {UserMessage(g, FALSE), UserMessage(g, TRUE), LoadingAnswer(g)}

LEMMA NewMessageGen ==
    ASSUME NEW g, NEW m \in NewMessages(g)
    PROVE  m.gen = g
BY DEF NewMessages, UserMessage, LoadingAnswer

From(b, a, g) ==
    \A j \in 1 .. Len(b) :
        (\E k \in 1 .. Len(a) : b[j] = a[k]) \/ b[j] \in NewMessages(g) \/ Edited(b[j])

LEMMA StaysInto ==
    ASSUME NEW a, NEW b, NEW d, NEW c, NEW g, Stays(d, a, c), From(b, a, g), Elsewhere(d, g)
    PROVE  Stays(d, b, c)
<1> SUFFICES ASSUME NEW i \in 1 .. Len(d), NEW j \in 1 .. Len(b),
                    IsAnswer(d[i]), IsFinal(d[i]), d[i].gen \notin c, Key(d[i]) = Key(b[j])
             PROVE  Agree(d[i], b[j])
    BY DEF Stays
<1>1. b[j] \notin NewMessages(g)
    <2>1. b[j].gen # g
        BY KeyParts DEF Elsewhere
    <2> QED
        BY <2>1, NewMessageGen
<1> QED
    BY <1>1 DEF From, Stays, Agree

LEMMA StaysFrom ==
    ASSUME NEW a, NEW b, NEW d, NEW c, NEW g, Stays(a, d, c), From(b, a, g), Elsewhere(d, g)
    PROVE  Stays(b, d, c)
<1> SUFFICES ASSUME NEW i \in 1 .. Len(b), NEW j \in 1 .. Len(d),
                    IsAnswer(b[i]), IsFinal(b[i]), b[i].gen \notin c, Key(b[i]) = Key(d[j])
             PROVE  Agree(b[i], d[j])
    BY DEF Stays
<1>1. b[i] \notin NewMessages(g)
    <2>1. b[i].gen # g
        BY KeyParts DEF Elsewhere
    <2> QED
        BY <2>1, NewMessageGen
<1> QED
    BY <1>1 DEF From, Stays, Agree

\* What no answer of which is open has only finished answers, cut ones aside.
LEMMA StaysBack ==
    ASSUME NEW a, NEW b \in Seq(Messages), NEW c, NEW g, Sound(b, c, g), NoneOpen(b, c), Stays(b, a, c)
    PROVE  Stays(a, b, c)
<1> SUFFICES ASSUME NEW i \in 1 .. Len(a), NEW j \in 1 .. Len(b),
                    IsAnswer(a[i]), IsFinal(a[i]), a[i].gen \notin c, Key(a[i]) = Key(b[j])
             PROVE  Agree(a[i], b[j])
    BY DEF Stays
<1>1. b[j] \in Messages
    BY ElementOfSeq
<1>2. IsAnswer(b[j]) /\ b[j].gen = a[i].gen
    BY KeyParts
<1>3. ~IsPending(b[j]) /\ b[j].status # "sent"
    BY <1>2 DEF NoneOpen, Open, Sound
<1>4. IsFinal(b[j])
    BY <1>1, <1>2, <1>3 DEF IsFinal, IsPending, Messages
<1>5. Agree(b[j], a[i])
    BY <1>2, <1>4 DEF Stays
<1> QED
    BY <1>5 DEF Agree

\* Updates reach the current answer only, which a list that still waits for it
\* does not have finished and a list from before does not have.
LEMMA UpdatedStays ==
    ASSUME NEW l \in Seq(Messages), NEW u, u.op \in AnswerOps, u.op = "chunks" => u.text \in Texts,
           NEW a, NEW c, NEW g, LastIsCurrent(l, c, g)
    PROVE  LET r == UpdateLastAssistantMessage(l, u) IN
           /\ Stays(a, l, c) /\ StillPending(a, c, g) => Stays(a, r, c)
           /\ Stays(l, a, c) /\ Elsewhere(a, g) => Stays(r, a, c)
<1> DEFINE r == UpdateLastAssistantMessage(l, u)
<1>1. /\ r \in Seq(Messages) /\ Len(r) = Len(l) /\ Len(l) \in Nat
      /\ \A i \in 1 .. Len(l) :
             /\ Key(r[i]) = Key(l[i])
             /\ i # Len(l) \/ ~IsAnswer(l[i]) => r[i] = l[i]
    BY UpdatedOutline
<1> HIDE DEF r
<1>2. ASSUME NEW j \in 1 .. Len(r), r[j].gen \notin c, r[j].gen # g PROVE r[j] = l[j]
    <2>1. j \in 1 .. Len(l) /\ r[j].gen = l[j].gen
        BY <1>1, KeyParts
    <2>2. CASE j = Len(l) /\ IsAnswer(l[j])
        <3>1. l # <<>> /\ Own(l[Len(l)], c)
            BY <1>2, <2>1, <2>2 DEF Own
        <3> QED
            BY <1>2, <2>1, <2>2, <3>1 DEF LastIsCurrent
    <2> QED
        BY <1>1, <2>1, <2>2
<1>3. ASSUME Stays(a, l, c), StillPending(a, c, g),
             NEW i \in 1 .. Len(a), NEW j \in 1 .. Len(r),
             IsAnswer(a[i]), IsFinal(a[i]), a[i].gen \notin c, Key(a[i]) = Key(r[j])
      PROVE  Agree(a[i], r[j])
    <2>1. a[i].gen = r[j].gen
        BY <1>3, KeyParts
    <2>2. a[i].gen # g
        BY <1>3 DEF StillPending, Own, IsPending, IsFinal
    <2>3. r[j] = l[j]
        BY <1>2, <1>3, <2>1, <2>2
    <2> QED
        BY <1>1, <1>3, <2>3 DEF Stays
<1>4. ASSUME Stays(l, a, c), Elsewhere(a, g),
             NEW i \in 1 .. Len(r), NEW j \in 1 .. Len(a),
             IsAnswer(r[i]), IsFinal(r[i]), r[i].gen \notin c, Key(r[i]) = Key(a[j])
      PROVE  Agree(r[i], a[j])
    <2>1. r[i].gen = a[j].gen
        BY <1>4, KeyParts
    <2>2. r[i].gen # g
        BY <1>4, <2>1 DEF Elsewhere
    <2>3. r[i] = l[i]
        BY <1>2, <1>4, <2>2
    <2> QED
        BY <1>1, <1>4, <2>3 DEF Stays
<1> QED
    BY <1>3, <1>4 DEF Stays, r

\* A stop completes pending answers and changes no other.
LEMMA StoppedStays ==
    ASSUME NEW l \in Seq(Messages), NEW u, u.op = "stopped", NEW a, NEW c, Stays(a, l, c)
    PROVE  Stays(a, UpdateLastAssistantMessage(l, u), c)
<1> DEFINE r == UpdateLastAssistantMessage(l, u)
<1>1. u.op \in AnswerOps /\ u.op # "chunks"
    BY DEF AnswerOps
<1>2. /\ r \in Seq(Messages) /\ Len(r) = Len(l) /\ Len(l) \in Nat
      /\ \A i \in 1 .. Len(l) :
             /\ Key(r[i]) = Key(l[i]) /\ l[i] \in Messages
             /\ i # Len(l) \/ ~IsAnswer(l[i]) => r[i] = l[i]
             /\ i = Len(l) /\ IsAnswer(l[i]) => r[i] = UpdateAnswer(l[i], u)
    BY <1>1, UpdatedOutline
<1> HIDE DEF r
<1>3. ASSUME NEW j \in 1 .. Len(l)
      PROVE  \/ r[j] = l[j]
             \/ IsPending(l[j]) /\ (Edited(l[j]) => Edited(r[j]))
    <2>1. CASE j = Len(l) /\ IsAnswer(l[j])
        <3>1. r[j] = UpdateAnswer(l[j], u) /\ l[j] \in Messages
            BY <1>2, <2>1
        <3>2. r[j] = IF IsPending(l[j]) THEN CompleteAssistantMessage(l[j]) ELSE l[j]
            BY <3>1 DEF UpdateAnswer
        <3>3. CompleteAssistantMessage(l[j]).text = l[j].text
            BY <3>1 DEF CompleteAssistantMessage, Messages
        <3> QED
            BY <3>2, <3>3 DEF Edited
    <2> QED
        BY <1>2, <2>1
<1>4. ASSUME NEW i \in 1 .. Len(a), NEW j \in 1 .. Len(r),
             IsAnswer(a[i]), IsFinal(a[i]), a[i].gen \notin c, Key(a[i]) = Key(r[j])
      PROVE  Agree(a[i], r[j])
    <2>1. j \in 1 .. Len(l) /\ Key(a[i]) = Key(l[j])
        BY <1>2, <1>4
    <2>2. Agree(a[i], l[j])
        BY <1>4, <2>1 DEF Stays
    <2>3. CASE IsPending(l[j]) /\ (Edited(l[j]) => Edited(r[j]))
        <3>1. l[j] # a[i]
            BY <1>4, <2>3 DEF IsPending, IsFinal
        <3> QED
            BY <2>2, <2>3, <3>1 DEF Agree
    <2> QED
        BY <1>3, <2>1, <2>2, <2>3
<1> QED
    BY <1>4 DEF Stays, r

-----------------------------------------------------------------------------
\* What the lists are made of.

LEMMA RemovedFrom ==
    ASSUME NEW l \in Seq(Messages), NEW k, NEW g
    PROVE  From(RemoveMessageByKey(l, k), l, g)
<1>1. PICK p : Picks(RemoveMessageByKey(l, k), l, p)
    BY RemovePicks
<1> QED
    BY <1>1 DEF Picks, From

LEMMA EditedFrom ==
    ASSUME NEW l \in Seq(Messages), NEW i \in 1 .. Len(l), NEW g
    PROVE  From(EditMessage(l, i), l, g)
<1> DEFINE r == EditMessage(l, i)
<1>1. /\ r \in Seq(Messages) /\ Len(r) = Len(l)
      /\ \A j \in 1 .. Len(l) : j # i => r[j] = l[j]
      /\ r[i] = [l[i] EXCEPT !.text = [l[i].text EXCEPT !["content"] = <<EditPiece>>]]
    BY EditElements
<1>2. l[i] \in Messages
    BY ElementOfSeq
<1> HIDE DEF r
<1>3. Edited(r[i])
    BY <1>1, <1>2 DEF Edited, Messages, Texts, Channels
<1> QED
    BY <1>1, <1>3 DEF From, r

LEMMA PairFrom ==
    ASSUME NEW l \in Seq(Messages), NEW g \in Gens, NEW image \in BOOLEAN
    PROVE  From(AppendUserMessagePair(l, g, image), l, g)
<1> DEFINE r == AppendUserMessagePair(l, g, image)
           n == Len(l)
<1>1. /\ n \in Nat /\ Len(r) = n + 2
      /\ \A i \in 1 .. n : r[i] = l[i]
      /\ r[n + 1] = UserMessage(g, image) /\ r[n + 2] = LoadingAnswer(g)
    BY PairElements
<1> HIDE DEF r, n
<1>2. \A i \in 1 .. Len(r) : i \in 1 .. n \/ i = n + 1 \/ i = n + 2
    BY <1>1
<1>3. r[n + 1] \in NewMessages(g) /\ r[n + 2] \in NewMessages(g)
    BY <1>1 DEF NewMessages
<1>4. \A i \in 1 .. Len(r) : (\E k \in 1 .. n : r[i] = l[k]) \/ r[i] \in NewMessages(g)
    BY <1>1, <1>2, <1>3
<1> QED
    BY <1>4 DEF From, r, n

LEMMA RegeneratedFrom ==
    ASSUME NEW l \in Seq(Messages), NEW i \in 1 .. Len(l), NEW g \in Gens, NEW a, From(l, a, g)
    PROVE  From(CreateRegeneratedMessages(l, i, g), a, g)
<1> DEFINE r == CreateRegeneratedMessages(l, i, g)
<1>1. PICK n \in 0 .. Len(l) :
          /\ Len(r) = n + 1
          /\ \A j \in 1 .. n : r[j] = l[j]
          /\ r[n + 1] = LoadingAnswer(g)
    BY RegeneratedElements
<1>2. Len(l) \in Nat
    BY LenProperties
<1> HIDE DEF r
<1>3. \A j \in 1 .. Len(r) : (j \in 1 .. n /\ j \in 1 .. Len(l)) \/ j = n + 1
    BY <1>1, <1>2
<1>4. r[n + 1] \in NewMessages(g)
    BY <1>1 DEF NewMessages
<1> QED
    BY <1>1, <1>3, <1>4 DEF From, r

LEMMA FromSelf ==
    ASSUME NEW l, NEW g
    PROVE  From(l, l, g)
BY DEF From

-----------------------------------------------------------------------------
\* What the queue makes of the messages, and the lists kept by submits under
\* way, agree on finished answers.

StayInv ==
    /\ Stays(messages, View, cut) /\ Stays(messages, Kept, cut)
    /\ \A l \in Submitted :
           Stays(messages, l, cut) /\ Stays(View, l, cut) /\ Stays(Kept, l, cut)
    /\ \A l, d \in Submitted : Stays(l, d, cut)

\* What a step other than loading a page does to finished answers on the page.
FinalKept == Stays(messages, messages', cut)

LEMMA DisplayStays ==
    ASSUME AnswerInv', StayInv, NEW l, Displays(l), Submitted' = Submitted, cut \subseteq cut',
           \A d \in Submitted : Stays(l, d, cut'), Stays(messages, l, cut)
    PROVE  StayInv' /\ FinalKept
<1>1. messages' = l /\ View' = l /\ Kept' = l
    BY DEF Displays
<1>2. Sound(l, cut', generation')
    BY <1>1 DEF AnswerInv, SoundInv
<1>3. Stays(l, l, cut')
    BY <1>2, StaysSelf
<1>4. \A a, d \in Submitted : Stays(a, d, cut')
    BY StaysLater DEF StayInv
<1> QED
    BY <1>1, <1>3, <1>4 DEF StayInv, FinalKept

\* A render of a list made of the view's or of the page's messages, edited
\* ones and new ones.
LEMMA DisplayFrom ==
    ASSUME Types, AnswerInv, AnswerInv', StayInv, NEW a \in {messages, View}, NEW l,
           Displays(l), From(l, a, generation + 1), Submitted' = Submitted, cut \subseteq cut'
    PROVE  StayInv' /\ FinalKept
<1>1. generation \in Int /\ messages \in Seq(Messages) /\ \A d \in Submitted : d \in Seq(Messages)
    BY PageFacts
<1>2. Elsewhere(messages, generation + 1) /\ \A d \in Submitted : Elsewhere(d, generation + 1)
    BY <1>1, SoundElsewhere DEF AnswerInv, SoundInv
<1>3. Stays(messages, a, cut)
    <2>1. Stays(messages, messages, cut)
        BY StaysSelf DEF AnswerInv, SoundInv
    <2> QED
        BY <2>1 DEF StayInv
<1>4. Stays(messages, l, cut)
    BY <1>2, <1>3, StaysInto
<1>5. \A d \in Submitted : Stays(a, d, cut)
    BY DEF StayInv
<1>6. \A d \in Submitted : Stays(l, d, cut)
    BY <1>2, <1>5, StaysFrom
<1>7. \A d \in Submitted : Stays(l, d, cut')
    BY <1>6, StaysLater
<1> QED
    BY <1>4, <1>7, DisplayStays

LEMMA RendersStay ==
    ASSUME Types, AnswerInv, AnswerInv', StayInv, Renders
    PROVE  StayInv' /\ FinalKept
<1>1. Displays(View) /\ Submitted' = Submitted /\ cut \subseteq cut'
    BY DEF Renders, SameRequest
<1>2. From(View, View, generation + 1)
    BY FromSelf
<1>3. View \in {messages, View}
    OBVIOUS
<1> QED
    BY <1>1, <1>2, <1>3, DisplayFrom

LEMMA DeletesStay ==
    ASSUME Types, AnswerInv, AnswerInv', StayInv, Deletes
    PROVE  StayInv' /\ FinalKept
<1>1. PICK i \in 1 .. Len(messages) : Displays(RemoveMessageByKey(View, Key(messages[i])))
    BY DEF Deletes
<1>2. Submitted' = Submitted /\ cut \subseteq cut'
    BY DEF Deletes, SameRequest
<1>3. From(RemoveMessageByKey(View, Key(messages[i])), View, generation + 1)
    BY PageFacts, RemovedFrom
<1>4. View \in {messages, View}
    OBVIOUS
<1> QED
    BY <1>1, <1>2, <1>3, <1>4, DisplayFrom

LEMMA EditsStay ==
    ASSUME Types, AnswerInv, AnswerInv', StayInv, Edits
    PROVE  StayInv' /\ FinalKept
<1>1. PICK i \in 1 .. Len(messages) : Displays(EditMessage(messages, i))
    BY DEF Edits
<1>2. Submitted' = Submitted /\ CutQueue
    BY DEF Edits, SameRequest
<1>3. cut \subseteq cut'
    BY <1>2, CutFacts
<1>4. From(EditMessage(messages, i), messages, generation + 1)
    BY PageFacts, EditedFrom
<1>5. messages \in {messages, View}
    OBVIOUS
<1> QED
    BY <1>1, <1>2, <1>3, <1>4, <1>5, DisplayFrom

LEMMA ClearsStay ==
    ASSUME Types, AnswerInv, AnswerInv', StayInv, Clears
    PROVE  StayInv' /\ FinalKept
<1>1. Displays(<<>>) /\ Submitted' = Submitted /\ cut \subseteq cut'
    BY DEF Clears, SameRequest
<1>2. From(<<>>, View, generation + 1)
    BY DEF From
<1>3. View \in {messages, View}
    OBVIOUS
<1> QED
    BY <1>1, <1>2, <1>3, DisplayFrom

LEMMA SendsStay ==
    ASSUME Types, AnswerInv, AnswerInv', StayInv, Sends
    PROVE  StayInv' /\ FinalKept
<1>1. Submitted' = Submitted /\ cut \subseteq cut' /\ generation + 1 \in Gens
    BY DEF Sends, Asks, Begins
<1>2. messages \in Seq(Messages) /\ messages \in {messages, View} /\ FALSE \in BOOLEAN
    BY PageFacts
<1>3. \E l : Displays(l) /\ From(l, messages, generation + 1)
    <2>1. CASE Displays(AppendUserMessagePair(messages, generation + 1, FALSE))
        BY <1>1, <1>2, <2>1, PairFrom
    <2>2. ASSUME NEW i \in 1 .. Len(messages),
                 Displays(CreateRegeneratedMessages(messages, i, generation + 1))
          PROVE  \E l : Displays(l) /\ From(l, messages, generation + 1)
        <3>1. From(messages, messages, generation + 1)
            BY FromSelf
        <3> QED
            BY <1>1, <1>2, <2>2, <3>1, RegeneratedFrom
    <2>3. ASSUME NEW i \in 1 .. Len(messages),
                 Displays(CreateRegeneratedMessages(EditMessage(messages, i), i, generation + 1))
          PROVE  \E l : Displays(l) /\ From(l, messages, generation + 1)
        <3> DEFINE e == EditMessage(messages, i)
        <3>1. e \in Seq(Messages) /\ i \in 1 .. Len(e)
            BY <1>2, EditOutline DEF SameOutline
        <3>2. From(e, messages, generation + 1)
            BY <1>2, EditedFrom
        <3>3. Displays(CreateRegeneratedMessages(e, i, generation + 1))
            BY <2>3
        <3> HIDE DEF e
        <3> QED
            BY <1>1, <3>1, <3>2, <3>3, RegeneratedFrom
    <2> QED
        BY <2>1, <2>2, <2>3 DEF Sends
<1> QED
    BY <1>1, <1>2, <1>3, DisplayFrom

\* Steps that leave the page's list alone.
LEMMA PageStays ==
    ASSUME AnswerInv, messages' = messages
    PROVE  FinalKept /\ Stays(messages, messages, cut)
<1>1. Stays(messages, messages, cut)
    BY StaysSelf DEF AnswerInv, SoundInv
<1> QED
    BY <1>1 DEF FinalKept

LEMMA RestsStay ==
    ASSUME Types, AnswerInv, StayInv, Rests
    PROVE  StayInv' /\ FinalKept
<1>1. /\ UNCHANGED <<messages, updates, generation, cut>>
      /\ \/ Submitted' \subseteq Submitted
         \/ Submitted' \subseteq Submitted \cup {messages} /\ mounted /\ ~shown
    BY DEF Rests
<1>2. View' = View /\ Kept' = Kept
    BY <1>1 DEF View, Kept
<1>3. FinalKept /\ Stays(messages, messages, cut)
    BY <1>1, PageStays
<1>4. ASSUME mounted, ~shown
      PROVE  /\ Stays(View, messages, cut) /\ Stays(Kept, messages, cut)
             /\ \A l \in Submitted : Stays(l, messages, cut)
    <2>1. Sound(messages, cut, generation) /\ NoneOpen(messages, cut) /\ messages \in Seq(Messages)
        BY <1>4, PageFacts DEF AnswerInv, SoundInv, OpenInv
    <2> QED
        BY <2>1, StaysBack DEF StayInv
<1>5. \A l, d \in Submitted' : Stays(l, d, cut)
    <2>1. CASE Submitted' \subseteq Submitted
        BY <2>1 DEF StayInv
    <2>2. CASE Submitted' \subseteq Submitted \cup {messages} /\ mounted /\ ~shown
        BY <1>3, <1>4, <2>2 DEF StayInv
    <2> QED
        BY <1>1, <2>1, <2>2
<1>6. \A l \in Submitted' :
          Stays(messages, l, cut) /\ Stays(View, l, cut) /\ Stays(Kept, l, cut)
    BY <1>1, <1>3, <1>4 DEF StayInv
<1>7. StayInv'
    BY <1>1, <1>2, <1>5, <1>6 DEF StayInv
<1> QED
    BY <1>3, <1>7

\* Updates of the current request.
LEMMA TellStays ==
    ASSUME Types, AnswerInv, StayInv, NEW v, NEW k, Tells(v, k),
           Stays(messages, v, cut), \A l \in Submitted : Stays(v, l, cut),
           updates = <<>> => /\ Stays(messages, k, cut)
                             /\ \A l \in Submitted : Stays(k, l, cut)
    PROVE  StayInv' /\ FinalKept
<1>1. /\ UNCHANGED <<messages, cut>> /\ Submitted' = Submitted /\ View' = v
      /\ Kept' = Kept \/ (updates = <<>> /\ Kept' = k)
    BY DEF Tells, QueueRuns
<1>2. FinalKept
    BY <1>1, PageStays
<1>3. StayInv'
    BY <1>1 DEF StayInv
<1> QED
    BY <1>2, <1>3

LEMMA HeardStays ==
    ASSUME Types, AnswerInv, StayInv, Busy, generation \in Gens
    PROVE  /\ Heard(View) \in Seq(Messages) /\ LastIsCurrent(Heard(View), cut, generation)
           /\ Stays(messages, Heard(View), cut)
           /\ \A l \in Submitted : Stays(Heard(View), l, cut)
<1>1. View \in Seq(Messages)
    BY PageFacts
<1>2. /\ LastIsCurrent(View, cut, generation) /\ StillPending(messages, cut, generation)
      /\ \A l \in Submitted : Elsewhere(l, generation)
    BY DEF AnswerInv, LiveInv
<1>3. Heard(View) \in Seq(Messages) /\ LastIsCurrent(Heard(View), cut, generation)
    BY <1>1, <1>2, HeardOpen
<1>4. Stays(messages, View, cut) /\ \A l \in Submitted : Stays(View, l, cut)
    BY DEF StayInv
<1>5. CASE pending.text = NoText
    BY <1>3, <1>4, <1>5 DEF Heard
<1>6. CASE pending.text # NoText
    <2>1. Heard(View) = UpdateLastAssistantMessage(View, Chunk)
        BY <1>6 DEF Heard
    <2>2. Chunk.op \in AnswerOps /\ Chunk.text \in Texts
        BY DEF Chunk, AnswerOps, Types, ChunkTypes
    <2>3. Stays(messages, Heard(View), cut)
        BY <1>1, <1>2, <1>4, <2>1, <2>2, UpdatedStays
    <2>4. \A l \in Submitted : Stays(Heard(View), l, cut)
        BY <1>1, <1>2, <1>4, <2>1, <2>2, UpdatedStays
    <2> QED
        BY <1>3, <2>3, <2>4
<1> QED
    BY <1>5, <1>6

LEMMA FlushesStay ==
    ASSUME Types, AnswerInv, StayInv, Flushes
    PROVE  StayInv' /\ FinalKept
<1>1. Tells(Heard(View), Heard(messages)) /\ Busy /\ generation \in Gens
    BY DEF Flushes, Tells
<1>2. Stays(messages, Heard(View), cut) /\ \A l \in Submitted : Stays(Heard(View), l, cut)
    BY <1>1, HeardStays
<1>3. updates = <<>> => Heard(messages) = Heard(View)
    BY NothingQueued
<1> QED
    BY <1>1, <1>2, <1>3, TellStays

LEMMA EndsStay ==
    ASSUME Types, AnswerInv, StayInv, NEW o \in EndingOps, Ends(o)
    PROVE  StayInv' /\ FinalKept
<1> DEFINE v == UpdateLastAssistantMessage(Heard(View), Ending(o))
           e == UpdateLastAssistantMessage(messages, Ending(o))
           k == IF pending.text = NoText THEN e ELSE Heard(messages)
<1>1. Tells(v, k) /\ Busy /\ generation \in Gens
    BY DEF Ends, Tells
<1>2. /\ Heard(View) \in Seq(Messages) /\ LastIsCurrent(Heard(View), cut, generation)
      /\ Stays(messages, Heard(View), cut)
      /\ \A l \in Submitted : Stays(Heard(View), l, cut)
    BY <1>1, HeardStays
<1>3. /\ StillPending(messages, cut, generation)
      /\ \A l \in Submitted : Elsewhere(l, generation)
    BY <1>1 DEF AnswerInv, LiveInv
<1>4. Ending(o).op \in AnswerOps /\ Ending(o).op # "chunks"
    BY DEF Ending, EndingOps, AnswerOps
<1>5. Stays(messages, v, cut) /\ \A l \in Submitted : Stays(v, l, cut)
    BY <1>2, <1>3, <1>4, UpdatedStays
<1>6. ASSUME updates = <<>>
      PROVE  Stays(messages, k, cut) /\ \A l \in Submitted : Stays(k, l, cut)
    <2>1. View = messages
        BY <1>6, NothingQueued
    <2>2. CASE pending.text = NoText
        <3>1. k = v
            BY <2>1, <2>2 DEF Heard
        <3> QED
            BY <1>5, <3>1
    <2>3. CASE pending.text # NoText
        <3>1. k = Heard(View)
            BY <2>1, <2>3
        <3> QED
            BY <1>2, <3>1
    <2> QED
        BY <2>2, <2>3
<1> HIDE DEF v, k
<1> QED
    BY <1>1, <1>5, <1>6, TellStays

LEMMA ConvertsStay ==
    ASSUME Types, AnswerInv, StayInv, Converts
    PROVE  StayInv' /\ FinalKept
<1>1. UNCHANGED <<messages, cut>> /\ Submitted' \subseteq Submitted /\ generation + 1 \in Gens
    BY DEF Converts, Asks, Begins
<1>2. PICK list \in Submitted, image \in BOOLEAN :
          LET l == AppendUserMessagePair(list, generation + 1, image) IN
          View' = l /\ Kept' = l /\ latest' \in {latest, l}
    BY DEF Converts
<1> DEFINE l == AppendUserMessagePair(list, generation + 1, image)
<1>3. View' = l /\ Kept' = l
    BY <1>2
<1>4. /\ messages \in Seq(Messages) /\ list \in Seq(Messages) /\ generation \in Int
      /\ \A d \in Submitted : d \in Seq(Messages)
    BY PageFacts
<1>5. From(l, list, generation + 1)
    BY <1>1, <1>4, PairFrom
<1>6. /\ Elsewhere(messages, generation + 1)
      /\ \A d \in Submitted : Elsewhere(d, generation + 1)
    BY <1>4, SoundElsewhere DEF AnswerInv, SoundInv
<1>7. Stays(messages, list, cut) /\ \A d \in Submitted : Stays(list, d, cut)
    BY DEF StayInv
<1> HIDE DEF l
<1>8. Stays(messages, l, cut)
    BY <1>5, <1>6, <1>7, StaysInto
<1>9. \A d \in Submitted : Stays(l, d, cut)
    BY <1>5, <1>6, <1>7, StaysFrom
<1>10. StayInv'
    BY <1>1, <1>3, <1>8, <1>9 DEF StayInv
<1> QED
    BY <1>1, <1>10, PageStays

\* A stop completes the answer that the queue does not finish. A submit
\* under way does not know it, or the queue is void and the answer cut off.
LEMMA StopsStay ==
    ASSUME Types, Ctl, ChunkInv, AnswerInv, AnswerInv', StayInv, Stops
    PROVE  StayInv' /\ FinalKept
<1>1. Submitted' = Submitted /\ mounted /\ CutQueue
    BY DEF Stops, Begins
<1>2. /\ messages \in Seq(Messages) /\ Kept \in Seq(Messages) /\ View \in Seq(Messages)
      /\ \A d \in Submitted : d \in Seq(Messages)
    BY PageFacts
<1>3. /\ cut \subseteq cut'
      /\ updates # <<>> => generation \in cut'
    BY <1>1, CutFacts
<1>4. Stop.op = "stopped"
    BY DEF Stop
<1>5. CASE Displays(UpdateLastAssistantMessage(Kept, Stop))
    <2> DEFINE r == UpdateLastAssistantMessage(Kept, Stop)
    <2>1. Stays(messages, r, cut)
        BY <1>2, <1>4, StoppedStays DEF StayInv
    <2>2. Stop.op \in AnswerOps /\ Stop.op # "chunks"
        BY <1>4 DEF AnswerOps
    <2>3. /\ Len(r) = Len(Kept) /\ Len(Kept) \in Nat
          /\ \A i \in 1 .. Len(Kept) :
                 /\ Key(r[i]) = Key(Kept[i]) /\ Kept[i] \in Messages
                 /\ i # Len(Kept) \/ ~IsAnswer(Kept[i]) => r[i] = Kept[i]
                 /\ i = Len(Kept) /\ IsAnswer(Kept[i]) => r[i] = UpdateAnswer(Kept[i], Stop)
        BY <1>2, <2>2, UpdatedOutline
    <2>4. \A i \in 1 .. Len(Kept) : ~IsPending(Kept[i]) => r[i] = Kept[i]
        BY <1>4, <2>3 DEF UpdateAnswer
    <2> HIDE DEF r
    <2>5. ASSUME NEW d \in Submitted, NEW i \in 1 .. Len(r), NEW j \in 1 .. Len(d),
                 IsAnswer(r[i]), IsFinal(r[i]), r[i].gen \notin cut', Key(r[i]) = Key(d[j])
          PROVE  Agree(r[i], d[j])
        <3>1. /\ i \in 1 .. Len(Kept) /\ r[i].gen = Kept[i].gen /\ r[i].gen = d[j].gen
              /\ Kept[i].gen \notin cut
            BY <1>3, <2>3, <2>5, KeyParts
        <3>2. CASE IsPending(Kept[i])
            <4>1. Open(Kept[i], cut)
                BY <3>1, <3>2 DEF Open
            <4>2. Kept[i].gen = generation
                BY <1>1, <3>1, <4>1 DEF AnswerInv, OpenInv, OpenNow
            <4>3. updates = <<>>
                BY <1>3, <2>5, <3>1, <4>2
            <4>4. Kept = View
                BY <4>3, NothingQueued
            <4>5. Busy
                BY <1>1, <3>1, <4>1, <4>4 DEF AnswerInv, OpenInv, NoneOpen
            <4>6. d[j].gen # generation
                BY <4>5 DEF AnswerInv, LiveInv, Elsewhere
            <4> QED
                BY <3>1, <4>2, <4>6
        <3>3. CASE ~IsPending(Kept[i])
            <4>1. r[i] = Kept[i] /\ Stays(Kept, d, cut)
                BY <2>4, <3>1, <3>3 DEF StayInv
            <4> QED
                BY <2>5, <3>1, <4>1 DEF Stays
        <3> QED
            BY <3>2, <3>3
    <2>6. \A d \in Submitted : Stays(r, d, cut')
        BY <2>5 DEF Stays
    <2>7. Displays(r)
        BY <1>5 DEF r
    <2> QED
        BY <1>1, <1>3, <2>1, <2>6, <2>7, DisplayStays
<1>6. CASE /\ updates = <<>> /\ pending.text # NoText
           /\ Displays(UpdateLastAssistantMessage(Heard(messages), Stop))
    <2> DEFINE r == UpdateLastAssistantMessage(Heard(View), Stop)
    <2>1. Displays(r)
        BY <1>6, NothingQueued
    <2>2. Busy
        BY <1>6 DEF ChunkInv, Ctl, Busy
    <2>3. generation \in Gens
        BY <1>6 DEF Types, ChunkTypes, RequestTypes, Gens
    <2>4. /\ Heard(View) \in Seq(Messages) /\ LastIsCurrent(Heard(View), cut, generation)
          /\ Stays(messages, Heard(View), cut)
          /\ \A d \in Submitted : Stays(Heard(View), d, cut)
        BY <2>2, <2>3, HeardStays
    <2>5. Stays(messages, r, cut)
        BY <1>4, <2>4, StoppedStays
    <2>6. \A d \in Submitted : Elsewhere(d, generation)
        BY <2>2 DEF AnswerInv, LiveInv
    <2>7. Stop.op \in AnswerOps /\ Stop.op # "chunks"
        BY <1>4 DEF AnswerOps
    <2>8. \A d \in Submitted : Stays(r, d, cut)
        BY <2>4, <2>6, <2>7, UpdatedStays
    <2> HIDE DEF r
    <2>9. \A d \in Submitted : Stays(r, d, cut')
        BY <1>3, <2>8, StaysLater
    <2> QED
        BY <1>1, <1>3, <2>1, <2>5, <2>9, DisplayStays
<1> QED
    BY <1>5, <1>6 DEF Stops

LEMMA LoadsStay ==
    ASSUME AnswerInv', Loads
    PROVE  StayInv'
<1>1. View' = messages' /\ Kept' = messages' /\ Submitted' = {}
    BY DEF Loads
<1>2. Sound(messages', cut', generation')
    BY DEF AnswerInv, SoundInv
<1>3. Stays(messages', messages', cut')
    BY <1>2, StaysSelf
<1> QED
    BY <1>1, <1>3 DEF StayInv

LEMMA LeavesStay ==
    ASSUME AnswerInv, Leaves
    PROVE  StayInv' /\ FinalKept
<1>1. View' = messages /\ Kept' = messages /\ Submitted' = {} /\ UNCHANGED <<messages, cut>>
    BY DEF Leaves
<1>2. FinalKept /\ Stays(messages, messages, cut)
    BY <1>1, PageStays
<1>3. StayInv'
    BY <1>1, <1>2 DEF StayInv
<1> QED
    BY <1>2, <1>3

LEMMA NextStays ==
    Types /\ Ctl /\ ChunkInv /\ AnswerInv /\ AnswerInv' /\ StayInv /\ [Next]_vars
    => StayInv' /\ (Mount \/ Reload \/ FinalKept)
<1> SUFFICES ASSUME Types, Ctl, ChunkInv, AnswerInv, AnswerInv', StayInv, [Next]_vars
             PROVE  StayInv' /\ (Mount \/ Reload \/ FinalKept)
    OBVIOUS
<1>1. Moves
    BY MovesCover
<1>2. \A o \in {"complete", "error", "answer", "image"} : o \in EndingOps
    BY DEF EndingOps
<1>3. CASE EndsComplete \/ EndsWithError \/ EndsWithReply \/ EndsWithImage
    BY <1>2, <1>3, EndsStay DEF EndsComplete, EndsWithError, EndsWithReply, EndsWithImage
<1>4. CASE Loads
    <2>1. Mount \/ Reload
        BY <1>4 DEF Loads
    <2> QED
        BY <1>4, <2>1, LoadsStay
<1> QED
    BY <1>1, <1>3, <1>4, RestsStay, FlushesStay, RendersStay, DeletesStay, EditsStay,
       ClearsStay, SendsStay, ConvertsStay, StopsStay, LeavesStay
       DEF Moves

LEMMA InitStays == Init => StayInv
<1> SUFFICES ASSUME Init PROVE StayInv
    OBVIOUS
<1>1. messages = <<>> /\ updates = <<>> /\ converting = {}
    BY DEF Init
<1>2. View = <<>> /\ Kept = <<>> /\ Submitted = {}
    BY <1>1, NothingQueued DEF Submitted
<1> QED
    BY <1>1, <1>2 DEF StayInv, Stays

\* A finished answer never changes again, whatever arrives late and whichever
\* render a handler read: only an edit, or undoing one, and a new page do
\* (isAssistantMessageFinal and the generation checks of useChatHandler).
THEOREM FinalStaysFinalCorrect == Spec => FinalStaysFinal
<1>1. FinalKept =>
      \A i \in 1..Len(messages), j \in 1..Len(messages') :
          /\ IsAnswer(messages[i]) /\ IsFinal(messages[i])
          /\ messages[i].gen \notin cut
          /\ Key(messages[i]) = Key(messages'[j])
          => \/ messages'[j] = messages[i]
             \/ Edited(messages[i]) \/ Edited(messages'[j])
    BY DEF FinalKept, Stays, Agree
<1>2. QED
    BY <1>1, InitTypes, InitCtl, InitAnswers, InitStays, NextTypes, NextCtl, NextChunkInv,
       NextAnswers, NextStays, PTL DEF Spec, FinalStaysFinal

-----------------------------------------------------------------------------
\* Text. What an answer shows and what is buffered for it: with deltas the
\* buffer goes on where the text ends, and is not taken for a snapshot of it;
\* with snapshots it is empty, or holds all that came and more than the text.
\* In a loose stream a delta was taken for a snapshot: what is left of the
\* pieces still comes in their order.

Fits(t, n, loose) == IF loose THEN Ascending(t, n) ELSE InOrder(t, n)

Full(t, n, loose) == Fits(t, n, loose) /\ (~loose => Len(t) = n)

Growing(t, p, n, delta, loose) ==
    IF loose
    THEN /\ Ascending(t, n) /\ Ascending(p, n)
         /\ \A i \in 1 .. Len(t), j \in 1 .. Len(p) : t[i] < p[j]
    ELSE /\ InOrder(t, n)
         /\ IF delta
            THEN /\ Len(p) = n - Len(t) /\ \A i \in 1 .. Len(p) : p[i] = Len(t) + i
                 /\ ~Repeats(p, t)
            ELSE \/ p = <<>> /\ Len(t) = n
                 \/ InOrder(p, n) /\ Len(p) = n /\ Len(t) < n

LEMMA InOrderMore ==
    ASSUME NEW t \in Seq(Int), NEW n \in Int, NEW k \in Int, n <= k, InOrder(t, n)
    PROVE  InOrder(t, k)
<1>1. Len(t) \in Nat
    BY LenProperties
<1> QED
    BY <1>1 DEF InOrder

LEMMA AscendingMore ==
    ASSUME NEW t \in Seq(Int), NEW n \in Int, NEW k \in Int, n <= k, Ascending(t, n)
    PROVE  Ascending(t, k)
<1>1. \A i \in 1 .. Len(t) : t[i] \in 1 .. k
    BY DEF Ascending
<1> QED
    BY <1>1 DEF Ascending

LEMMA InOrderAscends ==
    ASSUME NEW t \in Seq(Int), NEW n \in Int, InOrder(t, n)
    PROVE  Ascending(t, n)
<1>1. Len(t) \in Nat /\ Len(t) <= n /\ \A i \in 1 .. Len(t) : t[i] = i
    BY LenProperties DEF InOrder
<1>2. \A i \in 1 .. Len(t) : t[i] \in 1 .. n
    BY <1>1
<1>3. \A i, j \in 1 .. Len(t) : i < j => t[i] < t[j]
    BY <1>1
<1> QED
    BY <1>2, <1>3 DEF Ascending

\* More pieces and more generations taken loosely: what fits still fits.
LEMMA FitsMore ==
    ASSUME NEW t \in Seq(Int), NEW n \in Int, NEW k \in Int, n <= k,
           NEW a \in BOOLEAN, NEW b \in BOOLEAN, a => b
    PROVE  /\ Fits(t, n, a) => Fits(t, k, b)
           /\ Full(t, n, a) => Full(t, n, b)
<1>1. ASSUME NEW h \in Int, n <= h, Fits(t, n, a) PROVE Fits(t, h, b)
    <2>1. CASE a /\ b
        <3>1. Ascending(t, n)
            BY <1>1, <2>1 DEF Fits
        <3>2. Ascending(t, h)
            BY <1>1, <3>1, AscendingMore
        <3> QED
            BY <2>1, <3>2 DEF Fits
    <2>2. CASE ~a
        <3>1. InOrder(t, n)
            BY <1>1, <2>2 DEF Fits
        <3>2. InOrder(t, h)
            BY <1>1, <3>1, InOrderMore
        <3>3. Ascending(t, h)
            BY <3>2, InOrderAscends
        <3> QED
            BY <3>2, <3>3 DEF Fits
    <2> QED
        BY <2>1, <2>2
<1>2. Fits(t, n, a) => Fits(t, k, b)
    BY <1>1
<1>3. n <= n
    OBVIOUS
<1>4. Fits(t, n, a) => Fits(t, n, b)
    BY <1>1, <1>3
<1> QED
    BY <1>2, <1>4 DEF Full

LEMMA WholeIsFull ==
    ASSUME NEW t \in Seq(Int), NEW n \in Nat, NEW loose \in BOOLEAN, InOrder(t, n), Len(t) = n
    PROVE  Full(t, n, loose)
<1>1. Ascending(t, n)
    BY InOrderAscends
<1> QED
    BY <1>1 DEF Full, Fits

LEMMA NothingAscends ==
    ASSUME NEW n
    PROVE  Ascending(<<>>, n)
BY DEF Ascending

LEMMA NothingFits ==
    ASSUME NEW n \in Nat, NEW loose \in BOOLEAN
    PROVE  Fits(<<>>, n, loose)
<1>1. InOrder(<<>>, n)
    BY DEF InOrder
<1> QED
    BY <1>1, NothingAscends DEF Fits

LEMMA GrownText ==
    ASSUME NEW t \in Seq(Int), NEW n \in Nat, NEW delta \in BOOLEAN, NEW loose \in BOOLEAN,
           Growing(t, <<>>, n, delta, loose)
    PROVE  Full(t, n, loose)
<1>1. Len(t) \in Nat /\ Len(<<>>) = 0
    BY LenProperties
<1>2. CASE loose
    BY <1>2 DEF Growing, Full, Fits
<1>3. CASE ~loose /\ delta
    <2>1. InOrder(t, n) /\ Len(<<>>) = n - Len(t)
        BY <1>3 DEF Growing
    <2>2. Len(t) = n
        BY <1>1, <2>1
    <2> QED
        BY <1>3, <2>1, <2>2 DEF Full, Fits
<1>4. CASE ~loose /\ ~delta
    <2>1. InOrder(t, n)
        BY <1>4 DEF Growing
    <2>2. (Len(t) = n) \/ (Len(<<>>) = n /\ Len(t) < n)
        BY <1>4 DEF Growing
    <2>3. Len(t) = n
        BY <1>1, <2>2
    <2> QED
        BY <1>4, <2>1, <2>3 DEF Full, Fits
<1> QED
    BY <1>2, <1>3, <1>4

LEMMA GrownIs ==
    ASSUME NEW t \in Seq(Int), NEW n \in Nat, NEW delta \in BOOLEAN, NEW loose \in BOOLEAN,
           Full(t, n, loose)
    PROVE  Growing(t, <<>>, n, delta, loose)
<1>1. Len(<<>>) = 0 /\ 0 = n - n /\ Len(t) \in Nat
    BY LenProperties
<1>2. CASE loose
    BY <1>1, <1>2, NothingAscends DEF Growing, Full, Fits
<1>3. CASE ~loose
    <2>1. InOrder(t, n) /\ Len(t) = n
        BY <1>3 DEF Full, Fits
    <2>2. ~Repeats(<<>>, t)
        <3>1. ASSUME t # <<>>, Len(t) <= 0 PROVE FALSE
            BY <1>1, <3>1
        <3> QED
            BY <1>1, <3>1 DEF Repeats, StartsWith
    <2> QED
        BY <1>1, <1>3, <2>1, <2>2 DEF Growing
<1> QED
    BY <1>2, <1>3

\* The parts of a text put together are the text.
LEMMA JoinInOrder ==
    ASSUME NEW t \in Seq(Int), NEW p \in Seq(Int), NEW n \in Nat, InOrder(t, n),
           Len(p) = n - Len(t), \A i \in 1 .. Len(p) : p[i] = Len(t) + i
    PROVE  t \o p \in Seq(Int) /\ InOrder(t \o p, n) /\ Len(t \o p) = n
<1>1. Len(t) \in Nat /\ Len(p) \in Nat
    BY LenProperties
<1>2. /\ t \o p \in Seq(Int) /\ Len(t \o p) = Len(t) + Len(p)
      /\ \A i \in 1 .. Len(t) + Len(p) :
             (t \o p)[i] = IF i <= Len(t) THEN t[i] ELSE p[i - Len(t)]
    BY ConcatProperties
<1>3. Len(t \o p) = n
    BY <1>1, <1>2
<1>4. ASSUME NEW i \in 1 .. n PROVE (t \o p)[i] = i
    <2>1. CASE i <= Len(t)
        BY <1>1, <1>2, <2>1 DEF InOrder
    <2>2. CASE i > Len(t)
        <3>1. i - Len(t) \in 1 .. Len(p) /\ i \in 1 .. Len(t) + Len(p) /\ ~(i <= Len(t))
            BY <1>1, <2>2
        <3>2. (t \o p)[i] = p[i - Len(t)]
            BY <1>2, <3>1
        <3> QED
            BY <1>1, <3>1, <3>2
    <2> QED
        BY <1>1, <2>1, <2>2
<1> QED
    BY <1>2, <1>3, <1>4 DEF InOrder

LEMMA JoinAscends ==
    ASSUME NEW t \in Seq(Int), NEW p \in Seq(Int), NEW n \in Nat, Ascending(t, n), Ascending(p, n),
           \A i \in 1 .. Len(t), j \in 1 .. Len(p) : t[i] < p[j]
    PROVE  t \o p \in Seq(Int) /\ Ascending(t \o p, n)
<1> DEFINE s == t \o p
           a == Len(t)
           b == Len(p)
<1>1. a \in Nat /\ b \in Nat
    BY LenProperties
<1>2. /\ s \in Seq(Int) /\ Len(s) = a + b
      /\ \A i \in 1 .. a + b : s[i] = IF i <= a THEN t[i] ELSE p[i - a]
    BY ConcatProperties
<1>3. /\ \A i \in 1 .. a : t[i] \in 1 .. n
      /\ \A i \in 1 .. b : p[i] \in 1 .. n
      /\ \A i, j \in 1 .. a : i < j => t[i] < t[j]
      /\ \A i, j \in 1 .. b : i < j => p[i] < p[j]
      /\ \A i \in 1 .. a, j \in 1 .. b : t[i] < p[j]
    BY DEF Ascending
<1> HIDE DEF s, a, b
<1>4. ASSUME NEW i \in 1 .. a + b
      PROVE  \/ i \in 1 .. a /\ s[i] = t[i]
             \/ i > a /\ i - a \in 1 .. b /\ s[i] = p[i - a]
    BY <1>1, <1>2
<1>5. ASSUME NEW i \in 1 .. a + b PROVE s[i] \in 1 .. n
    BY <1>3, <1>4
<1>6. ASSUME NEW i \in 1 .. a + b, NEW j \in 1 .. a + b, i < j PROVE s[i] < s[j]
    <2>1. CASE i \in 1 .. a /\ s[i] = t[i] /\ j \in 1 .. a /\ s[j] = t[j]
        BY <1>3, <1>6, <2>1
    <2>2. CASE i \in 1 .. a /\ s[i] = t[i] /\ j - a \in 1 .. b /\ s[j] = p[j - a]
        BY <1>3, <2>2
    <2>3. CASE i - a \in 1 .. b /\ s[i] = p[i - a] /\ j - a \in 1 .. b /\ s[j] = p[j - a]
        <3>1. i - a < j - a
            BY <1>1, <1>6
        <3> QED
            BY <1>3, <2>3, <3>1
    <2>4. ~(i > a /\ j \in 1 .. a)
        BY <1>1, <1>6
    <2> QED
        BY <1>4, <2>1, <2>2, <2>3, <2>4
<1>7. Ascending(s, n)
    BY <1>2, <1>5, <1>6 DEF Ascending
<1> QED
    BY <1>2, <1>7 DEF s

\* The end of an ascending text.
LEMMA TailAscends ==
    ASSUME NEW p \in Seq(Int), NEW n \in Nat, Ascending(p, n), NEW k \in 0 .. Len(p)
    PROVE  LET q == SubSeq(p, k + 1, Len(p)) IN
           /\ q \in Seq(Int) /\ Len(q) = Len(p) - k
           /\ \A i \in 1 .. Len(q) : k + i \in 1 .. Len(p) /\ q[i] = p[k + i]
           /\ Ascending(q, n)
<1> DEFINE q == SubSeq(p, k + 1, Len(p))
<1>1. Len(p) \in Nat
    BY LenProperties
<1>2. \A i \in k + 1 .. Len(p) : p[i] \in Int
    BY <1>1, ElementOfSeq
<1>3. /\ q \in Seq(Int)
      /\ Len(q) = IF k + 1 <= Len(p) THEN Len(p) - (k + 1) + 1 ELSE 0
      /\ \A i \in 1 .. Len(p) - (k + 1) + 1 : q[i] = p[(k + 1) + i - 1]
    BY <1>1, <1>2, SubSeqProperties
<1> HIDE DEF q
<1>4. Len(q) = Len(p) - k
    BY <1>1, <1>3
<1>5. ASSUME NEW i \in 1 .. Len(q) PROVE k + i \in 1 .. Len(p) /\ q[i] = p[k + i]
    <2>1. i \in 1 .. Len(p) - (k + 1) + 1 /\ (k + 1) + i - 1 = k + i /\ k + i \in 1 .. Len(p)
        BY <1>1, <1>4
    <2> QED
        BY <1>3, <2>1
<1>6. \A i \in 1 .. Len(q) : q[i] \in 1 .. n
    BY <1>5 DEF Ascending
<1>7. ASSUME NEW i \in 1 .. Len(q), NEW j \in 1 .. Len(q), i < j PROVE q[i] < q[j]
    <2>1. k + i < k + j
        BY <1>1, <1>4, <1>7
    <2> QED
        BY <1>5, <2>1 DEF Ascending
<1>8. Ascending(q, n)
    BY <1>6, <1>7 DEF Ascending
<1> QED
    BY <1>3, <1>4, <1>5, <1>8 DEF q

\* Flushing shows all that came, or what is left of it.
LEMMA FlushGrows ==
    ASSUME NEW t \in Seq(Int), NEW p \in Seq(Int), NEW n \in Nat, NEW delta \in BOOLEAN,
           NEW loose \in BOOLEAN, Growing(t, p, n, delta, loose)
    PROVE  Full(t \o GetAppendableChunk(t, p), n, loose)
<1> DEFINE q == GetAppendableChunk(t, p)
           r == SubSeq(p, Len(t) + 1, Len(p))
<1>1. Len(t) \in Nat /\ Len(p) \in Nat
    BY LenProperties
<1>2. Repeats(p, t) => q = r /\ t # <<>> /\ Len(t) <= Len(p)
    BY DEF GetAppendableChunk, Repeats, StartsWith
<1>3. ~Repeats(p, t) => q = p
    BY DEF GetAppendableChunk
<1>4. ASSUME InOrder(t, n), Len(p) = n - Len(t), \A i \in 1 .. Len(p) : p[i] = Len(t) + i, q = p
      PROVE  Full(t \o q, n, loose)
    <2>1. t \o p \in Seq(Int) /\ InOrder(t \o p, n) /\ Len(t \o p) = n
        BY <1>4, JoinInOrder
    <2>2. Full(t \o p, n, loose)
        BY <2>1, WholeIsFull
    <2> QED
        BY <1>4, <2>2
<1>s. SUFFICES Full(t \o q, n, loose)
    OBVIOUS
<1> HIDE DEF q
<1>5. CASE loose
    <2>1. /\ Ascending(t, n) /\ Ascending(p, n)
          /\ \A i \in 1 .. Len(t), j \in 1 .. Len(p) : t[i] < p[j]
        BY <1>5 DEF Growing
    <2>2. CASE q = p
        <3>1. Ascending(t \o p, n)
            BY <2>1, JoinAscends
        <3>2. Full(t \o p, n, loose)
            BY <1>5, <3>1 DEF Full, Fits
        <3> QED
            BY <2>2, <3>2
    <2>3. CASE q = r /\ Len(t) <= Len(p)
        <3>1. Len(t) \in 0 .. Len(p)
            BY <1>1, <2>3
        <3>2. /\ r \in Seq(Int) /\ Ascending(r, n)
              /\ \A i \in 1 .. Len(r) : Len(t) + i \in 1 .. Len(p) /\ r[i] = p[Len(t) + i]
            BY <2>1, <3>1, TailAscends
        <3> HIDE DEF r
        <3>3. \A i \in 1 .. Len(t), j \in 1 .. Len(r) : t[i] < r[j]
            BY <2>1, <3>2
        <3>4. Ascending(t \o r, n)
            BY <2>1, <3>2, <3>3, JoinAscends
        <3>5. Full(t \o r, n, loose)
            BY <1>5, <3>4 DEF Full, Fits
        <3> QED
            BY <2>3, <3>5
    <2> QED
        BY <1>2, <1>3, <2>2, <2>3
<1>6. CASE ~loose /\ delta
    <2>1. /\ InOrder(t, n) /\ Len(p) = n - Len(t) /\ \A i \in 1 .. Len(p) : p[i] = Len(t) + i
          /\ ~Repeats(p, t)
        BY <1>6 DEF Growing
    <2> QED
        BY <1>3, <1>4, <2>1
<1>7. CASE ~loose /\ p = <<>> /\ InOrder(t, n) /\ Len(t) = n
    <2>1. Len(p) = n - Len(t) /\ \A i \in 1 .. Len(p) : p[i] = Len(t) + i
        BY <1>1, <1>7
    <2>2. ~Repeats(p, t)
        <3>1. ASSUME t # <<>>, Len(t) <= Len(p) PROVE FALSE
            BY <1>1, <1>7, <3>1
        <3> QED
            BY <3>1 DEF Repeats, StartsWith
    <2>3. q = p
        BY <1>3, <2>2
    <2> QED
        BY <1>4, <1>7, <2>1, <2>3
<1>8. CASE ~loose /\ InOrder(t, n) /\ InOrder(p, n) /\ Len(p) = n /\ Len(t) < n
    <2>i. /\ \A i \in 1 .. Len(t) : t[i] = i
          /\ \A i \in 1 .. Len(p) : p[i] = i
        BY <1>8 DEF InOrder
    <2>1. CASE t = <<>>
        <3>1. ~Repeats(p, t) /\ t \o p = p
            BY <2>1 DEF Repeats
        <3>2. Full(p, n, loose)
            BY <1>8, WholeIsFull
        <3>3. q = p
            BY <1>3, <3>1
        <3> QED
            BY <3>1, <3>2, <3>3
    <2>2. CASE t # <<>>
        <3>1. \A i \in 1 .. Len(t) : p[i] = t[i]
            BY <1>1, <1>8, <2>i
        <3>2. Repeats(p, t)
            BY <1>1, <1>8, <2>2, <3>1 DEF Repeats, StartsWith
        <3>3. Len(t) \in 0 .. Len(p) /\ Ascending(p, n)
            BY <1>1, <1>8, InOrderAscends
        <3>4. /\ r \in Seq(Int) /\ Len(r) = Len(p) - Len(t)
              /\ \A i \in 1 .. Len(r) : Len(t) + i \in 1 .. Len(p) /\ r[i] = p[Len(t) + i]
            BY <3>3, TailAscends
        <3> HIDE DEF r
        <3>5. Len(r) = n - Len(t) /\ \A i \in 1 .. Len(r) : r[i] = Len(t) + i
            BY <1>8, <2>i, <3>4
        <3>6. t \o r \in Seq(Int) /\ InOrder(t \o r, n) /\ Len(t \o r) = n
            BY <1>8, <3>4, <3>5, JoinInOrder
        <3>7. Full(t \o r, n, loose)
            BY <3>6, WholeIsFull
        <3>8. q = r
            BY <1>2, <3>2
        <3> QED
            BY <3>7, <3>8
    <2> QED
        BY <2>1, <2>2
<1> HIDE DEF r
<1>9. CASE ~loose /\ ~delta
    <2>1. /\ InOrder(t, n)
          /\ \/ p = <<>> /\ Len(t) = n
             \/ InOrder(p, n) /\ Len(p) = n /\ Len(t) < n
        BY <1>9 DEF Growing
    <2> QED
        BY <1>7, <1>8, <1>9, <2>1
<1> QED
    BY <1>5, <1>6, <1>9

\* A stream that becomes loose.
LEMMA GrowsLoose ==
    ASSUME NEW t \in Seq(Int), NEW p \in Seq(Int), NEW n \in Nat,
           NEW loose \in BOOLEAN, Growing(t, p, n, TRUE, loose)
    PROVE  Growing(t, p, n, TRUE, TRUE)
<1>0. Len(t) \in Nat /\ Len(p) \in Nat
    BY LenProperties
<1>1. CASE ~loose
    <2>1. InOrder(t, n) /\ Len(p) = n - Len(t) /\ \A i \in 1 .. Len(p) : p[i] = Len(t) + i
        BY <1>1 DEF Growing
    <2>2. Len(t) <= n /\ \A i \in 1 .. Len(t) : t[i] = i
        BY <2>1 DEF InOrder
    <2>3. Ascending(t, n)
        BY <2>1, InOrderAscends
    <2>4. \A i \in 1 .. Len(p) : p[i] \in 1 .. n
        BY <1>0, <2>1
    <2>5. \A i, j \in 1 .. Len(p) : i < j => p[i] < p[j]
        BY <1>0, <2>1
    <2>6. \A i \in 1 .. Len(t), j \in 1 .. Len(p) : t[i] < p[j]
        BY <1>0, <2>1, <2>2
    <2> QED
        BY <2>3, <2>4, <2>5, <2>6 DEF Growing, Ascending
<1>2. CASE loose
    BY <1>2 DEF Growing
<1> QED
    BY <1>1, <1>2

\* Deltas that reach the buffer: w are the next k pieces.
LEMMA DeltaGrows ==
    ASSUME NEW t \in Seq(Int), NEW p \in Seq(Int), NEW n \in Nat, NEW k \in Nat, NEW w \in Seq(Int),
           Len(w) = k, \A i \in 1 .. k : w[i] = n + i, NEW loose \in BOOLEAN,
           Growing(t, p, n, TRUE, loose),
           loose \/ (~Repeats(w, p) /\ ~Repeats(MergePendingStreamChunk(p, w), t))
    PROVE  Growing(t, MergePendingStreamChunk(p, w), n + k, TRUE, loose)
<1> DEFINE q == p \o w
<1>1. Len(t) \in Nat /\ Len(p) \in Nat
    BY LenProperties
<1>2. /\ q \in Seq(Int) /\ Len(q) = Len(p) + k
      /\ \A i \in 1 .. Len(p) + k : q[i] = IF i <= Len(p) THEN p[i] ELSE w[i - Len(p)]
    BY ConcatProperties
<1>3. MergePendingStreamChunk(p, w) = IF Repeats(w, p) THEN w ELSE q
    BY DEF MergePendingStreamChunk
<1>4. CASE ~loose
    <2>1. /\ InOrder(t, n) /\ Len(p) = n - Len(t) /\ \A i \in 1 .. Len(p) : p[i] = Len(t) + i
        BY <1>4 DEF Growing
    <2>2. MergePendingStreamChunk(p, w) = q /\ ~Repeats(q, t)
        BY <1>3, <1>4
    <2> HIDE DEF q
    <2>3. Len(q) = (n + k) - Len(t)
        BY <1>1, <1>2, <2>1
    <2>4. ASSUME NEW i \in 1 .. Len(q) PROVE q[i] = Len(t) + i
        <3>1. CASE i <= Len(p)
            <4>1. i \in 1 .. Len(p) /\ i \in 1 .. Len(p) + k
                BY <1>1, <1>2, <3>1
            <4> QED
                BY <1>2, <2>1, <3>1, <4>1
        <3>2. CASE ~(i <= Len(p))
            <4>1. i - Len(p) \in 1 .. k /\ i \in 1 .. Len(p) + k
                BY <1>1, <1>2, <3>2
            <4>2. q[i] = n + (i - Len(p))
                BY <1>2, <3>2, <4>1
            <4>3. n + (i - Len(p)) = Len(t) + i
                BY <1>1, <2>1, <4>1
            <4> QED
                BY <4>2, <4>3
        <3> QED
            BY <3>1, <3>2
    <2>5. InOrder(t, n + k)
        BY <2>1, InOrderMore
    <2>6. Growing(t, q, n + k, TRUE, FALSE)
        BY <2>2, <2>3, <2>4, <2>5 DEF Growing
    <2> QED
        BY <1>4, <2>2, <2>6
<1>5. CASE loose
    <2>1. /\ Ascending(t, n) /\ Ascending(p, n)
          /\ \A i \in 1 .. Len(t), j \in 1 .. Len(p) : t[i] < p[j]
        BY <1>5 DEF Growing
    <2>2. Ascending(t, n + k) /\ Ascending(p, n + k)
        BY <2>1, AscendingMore
    <2>3. Ascending(w, n + k)
        BY DEF Ascending
    <2>4. \A i \in 1 .. Len(t), j \in 1 .. Len(w) : t[i] < w[j]
        BY <2>1 DEF Ascending
    <2>5. \A i \in 1 .. Len(p), j \in 1 .. Len(w) : p[i] < w[j]
        BY <2>1 DEF Ascending
    <2>6. Ascending(q, n + k)
        <3>1. n + k \in Nat
            OBVIOUS
        <3> QED
            BY <2>2, <2>3, <2>5, <3>1, JoinAscends
    <2> HIDE DEF q
    <2>7. ASSUME NEW i \in 1 .. Len(t), NEW j \in 1 .. Len(q) PROVE t[i] < q[j]
        <3>1. CASE j <= Len(p)
            <4>1. j \in 1 .. Len(p) /\ j \in 1 .. Len(p) + k
                BY <1>1, <1>2, <3>1
            <4> QED
                BY <1>2, <2>1, <3>1, <4>1
        <3>2. CASE ~(j <= Len(p))
            <4>1. j - Len(p) \in 1 .. Len(w) /\ j \in 1 .. Len(p) + k
                BY <1>1, <1>2, <3>2
            <4> QED
                BY <1>2, <2>4, <3>2, <4>1
        <3> QED
            BY <3>1, <3>2
    <2>8. Growing(t, w, n + k, TRUE, loose) /\ Growing(t, q, n + k, TRUE, loose)
        BY <1>5, <2>2, <2>3, <2>4, <2>6, <2>7 DEF Growing
    <2> QED
        BY <1>3, <2>8
<1> QED
    BY <1>4, <1>5

\* A snapshot that reaches the buffer: w is all that came.
LEMMA SnapshotGrows ==
    ASSUME NEW t \in Seq(Int), NEW p \in Seq(Int), NEW n \in Nat, NEW k \in Nat \ {0}, NEW w \in Seq(Int),
           Len(w) = n + k, \A i \in 1 .. n + k : w[i] = i, Growing(t, p, n, FALSE, FALSE)
    PROVE  Growing(t, MergePendingStreamChunk(p, w), n + k, FALSE, FALSE)
<1>1. /\ Len(t) \in Nat /\ Len(p) \in Nat /\ InOrder(t, n)
    BY LenProperties DEF Growing
<1>2. MergePendingStreamChunk(p, w) = w
    <2>1. CASE p = <<>>
        <3>1. p \o w = w
            BY <2>1
        <3> QED
            BY <2>1, <3>1 DEF MergePendingStreamChunk, Repeats
    <2>2. CASE p # <<>>
        <3>1. InOrder(p, n) /\ Len(p) = n
            BY <2>2 DEF Growing
        <3>2. Len(p) <= Len(w) /\ \A i \in 1 .. Len(p) : w[i] = p[i]
            BY <3>1 DEF InOrder
        <3>3. Repeats(w, p)
            BY <2>2, <3>2 DEF Repeats, StartsWith
        <3> QED
            BY <3>3 DEF MergePendingStreamChunk
    <2> QED
        BY <2>1, <2>2
<1>3. InOrder(t, n + k)
    BY <1>1, InOrderMore
<1>4. InOrder(w, n + k) /\ Len(t) < n + k
    BY <1>1 DEF InOrder
<1>5. Growing(t, w, n + k, FALSE, FALSE)
    BY <1>3, <1>4 DEF Growing
<1> QED
    BY <1>2, <1>5

-----------------------------------------------------------------------------
\* What the answers of a list claim: with cuts c, counts rc of received pieces,
\* generations dn that came to their end, modes md and loose generations sw, an
\* answer that is not edited, failed or cut off shows its pieces in order, all
\* of them once its generation is done unless it is loose, and an image exactly
\* if that is what was asked for.

Counts == [Gens -> [Channels -> Nat]]

Claims(m, c) == IsAnswer(m) /\ Unedited(m) /\ m.gen \notin c

Told(m, c, rc, dn, sw) ==
    Claims(m, c) =>
        \A ch \in Channels :
            /\ Fits(m.text[ch], rc[m.gen][ch], m.gen \in sw)
            /\ m.status = "complete" /\ m.gen \in dn => Full(m.text[ch], rc[m.gen][ch], m.gen \in sw)

Drawn(m, c, dn, md) ==
    Claims(m, c) /\ m.status = "complete" /\ m.gen \in dn => (m.image <=> md[m.gen] = "image")

AllTold(l, c, rc, dn, sw) == \A i \in 1 .. Len(l) : Told(l[i], c, rc, dn, sw)
AllDrawn(l, c, dn, md) == \A i \in 1 .. Len(l) : Drawn(l[i], c, dn, md)
Genuine(l, c, rc, dn, md, sw) == AllTold(l, c, rc, dn, sw) /\ AllDrawn(l, c, dn, md)

LEMMA PieceTexts ==
    ASSUME NEW s \in Seq(Pieces)
    PROVE  s \in Seq(Int)
<1>1. Pieces \subseteq Int
    BY PlaygroundAssumption DEF Pieces, EditPiece
<1>2. Len(s) \in Nat /\ s \in [1 .. Len(s) -> Pieces]
    BY LenProperties
<1>3. s \in [1 .. Len(s) -> Int]
    BY <1>1, <1>2
<1> QED
    BY <1>2, <1>3

LEMMA MessageFields ==
    ASSUME NEW m \in Messages
    PROVE  /\ m.gen \in Gens /\ m.gen \in Int /\ m.image \in BOOLEAN
           /\ \A ch \in Channels : m.text[ch] \in Seq(Int)
<1>1. m.gen \in Gens /\ m.gen \in Int /\ m.image \in BOOLEAN /\ m.text \in Texts
    BY DEF Messages, Gens
<1>2. \A ch \in Channels : m.text[ch] \in Seq(Pieces)
    BY <1>1 DEF Texts
<1> QED
    BY <1>1, <1>2, PieceTexts

\* More pieces, ends and cuts: an answer's claims stay true if its own counts
\* stay, if it is pending, or if its generation is not done.
LEMMA ToldLater ==
    ASSUME NEW m \in Messages, NEW c, NEW d, c \subseteq d, NEW sw, NEW tw, sw \subseteq tw,
           NEW rc \in Counts, NEW rd \in Counts, NEW dn, NEW en, NEW h,
           \A g \in Gens : g # h => rd[g] = rc[g] /\ (g \in en => g \in dn),
           \A g \in Gens : \A ch \in Channels : rc[g][ch] <= rd[g][ch],
           (Own(m, d) /\ m.gen = h => IsPending(m)) \/ h \notin en,
           Told(m, c, rc, dn, sw)
    PROVE  Told(m, d, rd, en, tw)
<1> DEFINE a == (m.gen \in sw)
           b == (m.gen \in tw)
<1> SUFFICES ASSUME Claims(m, d), NEW ch \in Channels
             PROVE  /\ Fits(m.text[ch], rd[m.gen][ch], b)
                    /\ m.status = "complete" /\ m.gen \in en => Full(m.text[ch], rd[m.gen][ch], b)
    BY DEF Told
<1>1. m.gen \in Gens /\ m.text[ch] \in Seq(Int)
    BY MessageFields
<1>2. Claims(m, c) /\ Own(m, d)
    BY DEF Claims, Own
<1>3. /\ Fits(m.text[ch], rc[m.gen][ch], a)
      /\ m.status = "complete" /\ m.gen \in dn => Full(m.text[ch], rc[m.gen][ch], a)
    BY <1>2 DEF Told
<1>4. rc[m.gen][ch] \in Int /\ rd[m.gen][ch] \in Int /\ rc[m.gen][ch] <= rd[m.gen][ch]
    <2>1. rc[m.gen] \in [Channels -> Nat] /\ rd[m.gen] \in [Channels -> Nat]
        BY <1>1 DEF Counts
    <2> QED
        BY <1>1, <2>1
<1>b. a \in BOOLEAN /\ b \in BOOLEAN /\ (a => b)
    OBVIOUS
<1> HIDE DEF a, b
<1>5. Fits(m.text[ch], rd[m.gen][ch], b)
    BY <1>1, <1>3, <1>4, <1>b, FitsMore
<1>6. ASSUME m.status = "complete", m.gen \in en PROVE Full(m.text[ch], rd[m.gen][ch], b)
    <2>1. m.gen # h
        BY <1>2, <1>6 DEF IsPending
    <2>2. m.gen \in dn /\ rd[m.gen][ch] = rc[m.gen][ch]
        BY <1>1, <1>6, <2>1
    <2>3. Full(m.text[ch], rc[m.gen][ch], a)
        BY <1>3, <1>6, <2>2
    <2>4. Full(m.text[ch], rc[m.gen][ch], b)
        BY <1>1, <1>4, <1>b, <2>3, FitsMore
    <2> QED
        BY <2>2, <2>4
<1> QED
    BY <1>5, <1>6

LEMMA DrawnLater ==
    ASSUME NEW m \in Messages, NEW c, NEW d, c \subseteq d, NEW dn, NEW en, NEW md, NEW me, NEW h,
           \A g \in Gens : g # h => me[g] = md[g] /\ (g \in en => g \in dn),
           (Own(m, d) /\ m.gen = h => IsPending(m)) \/ h \notin en,
           Drawn(m, c, dn, md)
    PROVE  Drawn(m, d, en, me)
<1> SUFFICES ASSUME Claims(m, d), m.status = "complete", m.gen \in en
             PROVE  m.image <=> me[m.gen] = "image"
    BY DEF Drawn
<1>1. m.gen \in Gens
    BY MessageFields
<1>2. Claims(m, c) /\ Own(m, d)
    BY DEF Claims, Own
<1>3. m.gen # h
    BY <1>2 DEF IsPending
<1> QED
    BY <1>1, <1>2, <1>3 DEF Drawn

Later(c, d, rc, rd, dn, en, md, me, sw, tw, h) ==
    /\ c \subseteq d /\ sw \subseteq tw /\ rc \in Counts /\ rd \in Counts
    /\ \A g \in Gens : g # h => rd[g] = rc[g] /\ (g \in en => g \in dn)
    /\ \A g \in Gens : g # h => me[g] = md[g] /\ (g \in en => g \in dn)
    /\ \A g \in Gens : \A ch \in Channels : rc[g][ch] <= rd[g][ch]

LEMMA AllLater ==
    ASSUME NEW l \in Seq(Messages), NEW c, NEW d, NEW rc, NEW rd, NEW dn, NEW en, NEW md, NEW me,
           NEW sw, NEW tw, NEW h, Later(c, d, rc, rd, dn, en, md, me, sw, tw, h), StillPending(l, d, h) \/ h \notin en
    PROVE  /\ AllTold(l, c, rc, dn, sw) => AllTold(l, d, rd, en, tw)
           /\ AllDrawn(l, c, dn, md) => AllDrawn(l, d, en, me)
<1>0. /\ c \subseteq d /\ sw \subseteq tw /\ rc \in Counts /\ rd \in Counts
      /\ \A g \in Gens : g # h => rd[g] = rc[g] /\ (g \in en => g \in dn)
      /\ \A g \in Gens : g # h => me[g] = md[g] /\ (g \in en => g \in dn)
      /\ \A g \in Gens : \A ch \in Channels : rc[g][ch] <= rd[g][ch]
    BY DEF Later
<1>1. ASSUME NEW i \in 1 .. Len(l)
      PROVE  l[i] \in Messages /\ ((Own(l[i], d) /\ l[i].gen = h => IsPending(l[i])) \/ h \notin en)
    BY ElementOfSeq DEF StillPending
<1>2. ASSUME AllTold(l, c, rc, dn, sw), NEW i \in 1 .. Len(l) PROVE Told(l[i], d, rd, en, tw)
    <2>1. Told(l[i], c, rc, dn, sw)
        BY <1>2 DEF AllTold
    <2> QED
        BY <1>0, <1>1, <2>1, ToldLater
<1>3. ASSUME AllDrawn(l, c, dn, md), NEW i \in 1 .. Len(l) PROVE Drawn(l[i], d, en, me)
    <2>1. Drawn(l[i], c, dn, md)
        BY <1>3 DEF AllDrawn
    <2> QED
        BY <1>0, <1>1, <2>1, DrawnLater
<1> QED
    BY <1>2, <1>3 DEF AllTold, AllDrawn

\* New questions claim nothing, new answers are empty, edited messages claim
\* nothing.
LEMMA FromGenuine ==
    ASSUME NEW a, NEW b, NEW g \in Gens, From(b, a, g), NEW c, NEW sw, NEW rc \in Counts, NEW dn, NEW md,
           Genuine(a, c, rc, dn, md, sw)
    PROVE  Genuine(b, c, rc, dn, md, sw)
<1>1. ASSUME NEW m \in NewMessages(g) PROVE Told(m, c, rc, dn, sw) /\ Drawn(m, c, dn, md)
    <2>1. CASE m = LoadingAnswer(g)
        <3>1. m.gen = g /\ m.status = "loading" /\ m.text = NoText
            BY <2>1 DEF LoadingAnswer
        <3>2. Drawn(m, c, dn, md)
            BY <3>1 DEF Drawn
        <3>3. ASSUME NEW ch \in Channels PROVE Fits(m.text[ch], rc[m.gen][ch], m.gen \in sw)
            <4>1. m.text[ch] = <<>>
                BY <3>1 DEF NoText
            <4>2. rc[m.gen][ch] \in Nat
                BY <3>1 DEF Counts
            <4>3. (m.gen \in sw) \in BOOLEAN
                OBVIOUS
            <4> QED
                BY <4>1, <4>2, <4>3, NothingFits
        <3> QED
            BY <3>1, <3>2, <3>3 DEF Told
    <2>2. CASE m \in {UserMessage(g, FALSE), UserMessage(g, TRUE)}
        <3>1. ~IsAnswer(m)
            BY <2>2 DEF UserMessage, IsAnswer
        <3> QED
            BY <3>1 DEF Told, Drawn, Claims
    <2> QED
        BY <2>1, <2>2 DEF NewMessages
<1>2. ASSUME NEW j \in 1 .. Len(b) PROVE Told(b[j], c, rc, dn, sw) /\ Drawn(b[j], c, dn, md)
    <2>1. CASE \E k \in 1 .. Len(a) : b[j] = a[k]
        BY <2>1 DEF Genuine, AllTold, AllDrawn
    <2>2. CASE b[j] \in NewMessages(g)
        BY <1>1, <2>2
    <2>3. CASE Edited(b[j])
        BY <2>3 DEF Told, Drawn, Claims, Unedited
    <2> QED
        BY <2>1, <2>2, <2>3 DEF From
<1> QED
    BY <1>2 DEF Genuine, AllTold, AllDrawn

\* Saving keeps what answers say and how far they are.
LEMMA SavedTold ==
    ASSUME NEW l \in Seq(Messages), NEW c, NEW sw, NEW rc, NEW dn, NEW g
    PROVE  LET r == Saved(l) IN
           /\ r \in Seq(Messages) /\ \A j \in 1 .. Len(r) : ~r[j].image
           /\ AllTold(l, c, rc, dn, sw) => AllTold(r, c, rc, dn, sw)
           /\ StillPending(l, c, g) => StillPending(r, c, g)
<1> DEFINE r == Saved(l)
<1>1. /\ r \in Seq(Messages) /\ Len(r) \in Nat
      /\ \E d \in Nat :
             /\ Len(l) = d + Len(r)
             /\ \A j \in 1 .. Len(r) : r[j] = Serializable(l[d + j])
    BY SavedElements
<1> HIDE DEF r
<1>2. PICK d \in Nat : Len(l) = d + Len(r) /\ \A j \in 1 .. Len(r) : r[j] = Serializable(l[d + j])
    BY <1>1
<1>3. ASSUME NEW j \in 1 .. Len(r)
      PROVE  \E k \in 1 .. Len(l) : r[j] = Serializable(l[k]) /\ l[k] \in Messages
    <2>1. d + j \in 1 .. Len(l)
        BY <1>1, <1>2
    <2> QED
        BY <1>2, <2>1, ElementOfSeq
<1>4. ASSUME NEW m \in Messages, NEW n, n = Serializable(m)
      PROVE  /\ n.image = FALSE /\ n.text = m.text /\ n.status = m.status /\ n.gen = m.gen
             /\ n.from = m.from
    BY <1>4 DEF Serializable, Messages
<1>5. ASSUME NEW m \in Messages, NEW n, n = Serializable(m)
      PROVE  /\ Told(m, c, rc, dn, sw) => Told(n, c, rc, dn, sw)
             /\ Own(n, c) => Own(m, c)
             /\ IsPending(m) => IsPending(n)
    <2>1. n.text = m.text /\ n.status = m.status /\ n.gen = m.gen /\ n.from = m.from
        BY <1>4, <1>5
    <2>2. Claims(n, c) <=> Claims(m, c)
        BY <2>1 DEF Claims, IsAnswer, Unedited, Edited
    <2>3. Told(m, c, rc, dn, sw) => Told(n, c, rc, dn, sw)
        BY <2>1, <2>2 DEF Told
    <2>4. Own(n, c) => Own(m, c)
        BY <2>1, <2>2 DEF Own, IsAnswer, Claims
    <2>5. IsPending(m) => IsPending(n)
        BY <2>1 DEF IsPending, IsAnswer
    <2> QED
        BY <2>3, <2>4, <2>5
<1>6. ASSUME NEW j \in 1 .. Len(r) PROVE ~r[j].image
    <2>1. PICK k \in 1 .. Len(l) : r[j] = Serializable(l[k]) /\ l[k] \in Messages
        BY <1>3
    <2> QED
        BY <2>1 DEF Serializable, Messages
<1>7. ASSUME AllTold(l, c, rc, dn, sw), NEW j \in 1 .. Len(r) PROVE Told(r[j], c, rc, dn, sw)
    <2>1. PICK k \in 1 .. Len(l) : r[j] = Serializable(l[k]) /\ l[k] \in Messages
        BY <1>3
    <2>2. Told(l[k], c, rc, dn, sw)
        BY <1>7 DEF AllTold
    <2> QED
        BY <1>5, <2>1, <2>2
<1>8. ASSUME StillPending(l, c, g), NEW j \in 1 .. Len(r), Own(r[j], c), r[j].gen = g
      PROVE  IsPending(r[j])
    <2>1. PICK k \in 1 .. Len(l) : r[j] = Serializable(l[k]) /\ l[k] \in Messages
        BY <1>3
    <2>2. Own(l[k], c) /\ l[k].gen = g
        BY <1>4, <1>5, <1>8, <2>1
    <2>3. IsPending(l[k])
        BY <1>8, <2>2 DEF StillPending
    <2> QED
        BY <1>5, <2>1, <2>3
<1> QED
    BY <1>1, <1>6, <1>7, <1>8 DEF r, AllTold, StillPending

\* Loading completes what had begun, which is then not all of it, and gives up
\* on what had not. Images are lost.
LEMMA LoadedGenuine ==
    ASSUME NEW l \in Seq(Messages), NEW c, NEW sw, NEW rc, NEW dn, NEW en, NEW md, en \subseteq dn,
           \A i \in 1 .. Len(l) : ~l[i].image,
           \A i \in 1 .. Len(l) : l[i].gen \in en => ~IsPending(l[i]) /\ md[l[i].gen] # "image",
           AllTold(l, c, rc, dn, sw)
    PROVE  Genuine(Loaded(l), c, rc, en, md, sw)
<1> DEFINE r == Loaded(l)
           N(m) == NormalizeStoredMessageForLoad(m)
<1>1. /\ r \in Seq(Messages)
      /\ \E d \in Nat :
             /\ Len(l) = d + Len(r)
             /\ \A j \in 1 .. Len(r) :
                    \/ /\ r[j] = N(l[d + j])
                       /\ IsPending(r[j]) => \E k \in j + 1 .. Len(r) : IsPending(N(l[d + k]))
                    \/ r[j] = Failed(N(l[d + j]))
    BY LoadedElements
<1> HIDE DEF r
<1>2. PICK d \in Nat :
          /\ Len(l) = d + Len(r)
          /\ \A j \in 1 .. Len(r) : r[j] = N(l[d + j]) \/ r[j] = Failed(N(l[d + j]))
    BY <1>1
<1>3. Len(r) \in Nat
    BY <1>1, LenProperties
<1>4. ASSUME NEW j \in 1 .. Len(r) PROVE Told(r[j], c, rc, en, sw) /\ Drawn(r[j], c, en, md)
    <2>1. d + j \in 1 .. Len(l)
        BY <1>2, <1>3
    <2>2. PICK m \in Messages :
              /\ m = l[d + j] /\ Told(m, c, rc, dn, sw) /\ ~m.image
              /\ m.gen \in en => ~IsPending(m) /\ md[m.gen] # "image"
        BY <2>1, ElementOfSeq DEF AllTold
    <2>3. CASE r[j] = N(m) /\ ~(IsPending(m) /\ m.text # NoText)
        <3>1. r[j] = m
            BY <2>3 DEF NormalizeStoredMessageForLoad
        <3>2. Told(m, c, rc, en, sw)
            BY <2>2 DEF Told
        <3>3. Drawn(m, c, en, md)
            BY <2>2 DEF Drawn
        <3> QED
            BY <3>1, <3>2, <3>3
    <2>4. CASE r[j] = N(m) /\ IsPending(m) /\ m.text # NoText
        <3>1. r[j].text = m.text /\ r[j].gen = m.gen /\ r[j].from = m.from
            BY <2>4 DEF NormalizeStoredMessageForLoad, CompleteAssistantMessage, Messages
        <3>2. m.gen \notin en
            BY <2>2, <2>4
        <3>3. Claims(r[j], c) => Claims(m, c)
            BY <2>4, <3>1 DEF Claims, Unedited, Edited, IsAnswer, IsPending
        <3> QED
            BY <2>2, <3>1, <3>2, <3>3 DEF Told, Drawn
    <2>5. CASE r[j] = Failed(N(m))
        <3>1. r[j].status = "error"
            BY <2>5 DEF Failed, NormalizeStoredMessageForLoad, CompleteAssistantMessage, Messages
        <3> QED
            BY <3>1 DEF Told, Drawn, Claims, Unedited
    <2> QED
        BY <1>2, <2>2, <2>3, <2>4, <2>5
<1> QED
    BY <1>4 DEF r, Genuine, AllTold, AllDrawn

\* An update of the last answer: only that one has to be looked at.
LEMMA UpdatedGenuine ==
    ASSUME NEW l \in Seq(Messages), NEW u, u.op \in AnswerOps, u.op = "chunks" => u.text \in Texts,
           NEW c, NEW sw, NEW rc, NEW dn, NEW md, Genuine(l, c, rc, dn, md, sw),
           l # <<>> /\ Own(l[Len(l)], c) =>
               /\ Told(UpdateAnswer(l[Len(l)], u), c, rc, dn, sw)
               /\ Drawn(UpdateAnswer(l[Len(l)], u), c, dn, md)
    PROVE  Genuine(UpdateLastAssistantMessage(l, u), c, rc, dn, md, sw)
<1> DEFINE r == UpdateLastAssistantMessage(l, u)
<1>1. /\ r \in Seq(Messages) /\ Len(r) = Len(l) /\ Len(l) \in Nat
      /\ \A i \in 1 .. Len(l) :
             /\ Key(r[i]) = Key(l[i])
             /\ i # Len(l) \/ ~IsAnswer(l[i]) => r[i] = l[i]
             /\ i = Len(l) /\ IsAnswer(l[i]) => r[i] = UpdateAnswer(l[i], u)
    BY UpdatedOutline
<1> HIDE DEF r
<1>2. ASSUME NEW i \in 1 .. Len(l) PROVE Told(r[i], c, rc, dn, sw) /\ Drawn(r[i], c, dn, md)
    <2>1. CASE i # Len(l) \/ ~IsAnswer(l[i])
        <3>1. r[i] = l[i]
            BY <1>1, <2>1
        <3> QED
            BY <3>1 DEF Genuine, AllTold, AllDrawn
    <2>2. CASE i = Len(l) /\ IsAnswer(l[i]) /\ l[i].gen \notin c
        <3>1. l # <<>> /\ Own(l[Len(l)], c)
            BY <1>1, <2>2 DEF Own
        <3> QED
            BY <1>1, <2>2, <3>1
    <2>3. CASE l[i].gen \in c
        <3>1. r[i].gen \in c
            BY <1>1, <2>3, KeyParts
        <3> QED
            BY <3>1 DEF Told, Drawn, Claims
    <2> QED
        BY <2>1, <2>2, <2>3
<1> QED
    BY <1>1, <1>2 DEF r, Genuine, AllTold, AllDrawn

-----------------------------------------------------------------------------
\* Requests. What the current request can still bring: a reply only if no piece
\* came, a stream only if no image was asked for. Generations that have not
\* begun have received nothing and are not done, a running one is not done.

RequestInv ==
    /\ generation \in requests => \A ch \in Channels : received[generation][ch] = 0
    /\ generation \in headers \cup {source} => mode[generation] # "image"

CountInv ==
    /\ \A g \in Gens : g > generation => \A ch \in Channels : received[g][ch] = 0
    /\ \A g \in done : g <= generation
    /\ Busy => generation \notin done

Fewer ==
    /\ UNCHANGED <<generation, mode, received>>
    /\ requests' \subseteq requests
    /\ generation \in headers' \cup {source'} => generation \in headers \cup {source}

LEMMA NextRequestInv ==
    ASSUME Types, Types', Ctl, CountInv, RequestInv, [Next]_vars
    PROVE  RequestInv'
<1>r. RequestInv
    OBVIOUS
<1>f. Fewer => RequestInv'
    BY DEF Fewer, RequestInv
<1>g. /\ generation \in Nat /\ generation + 1 > generation
      /\ generation # None /\ generation + 1 # None
    BY PageFacts DEF None
<1>h. generation + 1 \notin headers /\ generation + 1 \notin requests
    BY <1>g DEF Ctl
<1>a. SendChat(generation + 1) => RequestInv'
    <2> HAVE SendChat(generation + 1)
    <2>1. /\ generation' = generation + 1 /\ received' = received /\ source' = None
          /\ generation + 1 <= MaxGen
        BY DEF SendChat, SendStreamingChat, SendRequest, StartGeneration
    <2>2. generation + 1 \in Gens
        BY <1>g, <2>1, PlaygroundAssumption DEF Gens
    <2>3. PICK md \in Modes :
              /\ mode' = [mode EXCEPT ![generation + 1] = md]
              /\ IF md \in {"delta", "snapshot"}
                 THEN headers' = headers \cup {generation + 1} /\ requests' = requests
                 ELSE requests' = requests \cup {generation + 1} /\ headers' = headers
        BY DEF SendChat, SendStreamingChat, SendRequest
    <2>4. mode'[generation + 1] = md
        BY <2>2, <2>3 DEF Types, RequestTypes
    <2>5. \A ch \in Channels : received[generation + 1][ch] = 0
        BY <1>g, <2>2 DEF CountInv
    <2> QED
        BY <1>g, <1>h, <2>1, <2>3, <2>4, <2>5 DEF RequestInv
<1>s. ASSUME generation' = generation + 1, headers' = headers, requests' = requests, source' = None
      PROVE  RequestInv'
    BY <1>s, <1>g, <1>h DEF RequestInv
<1>1. ASSUME NEW g \in Gens, HeadersReady(g)
      PROVE  RequestInv'
    BY <1>1, <1>f DEF HeadersReady, Fewer, requestVars, historyVars
<1>2. ASSUME NEW g \in Gens, HeadersFail(g)
      PROVE  RequestInv'
    BY <1>2, <1>f DEF HeadersFail, Fewer, requestVars, historyVars
<1>3. ASSUME NEW g \in Gens, NEW c \in Channels, StreamMessage(g, c)
      PROVE  RequestInv'
    <2>1. /\ generation' = generation /\ mode' = mode /\ requests' = requests
          /\ headers' = headers /\ source' = source /\ source = generation
        BY <1>3 DEF StreamMessage, IsCurrent, requestVars
    <2>2. generation \notin requests
        BY <2>1 DEF Ctl
    <2> QED
        BY <2>1, <2>2, <1>r DEF RequestInv
<1>4. ASSUME NEW g \in Gens, StreamDone(g)
      PROVE  RequestInv'
    <2>1. /\ UNCHANGED <<generation, mode, received, requests, headers>> /\ source' = None
        BY <1>4 DEF StreamDone, CloseActiveSource, historyVars
    <2> QED
        BY <1>g, <1>f, <2>1 DEF Fewer
<1>5. ASSUME NEW g \in Gens, StreamError(g)
      PROVE  RequestInv'
    <2>1. /\ UNCHANGED <<generation, mode, received, requests, headers>> /\ source' = None
        BY <1>5 DEF StreamError, CloseActiveSource, historyVars
    <2> QED
        BY <1>g, <1>f, <2>1 DEF Fewer
<1>6. ASSUME NEW g \in Gens, StreamSilentlyCloses(g)
      PROVE  RequestInv'
    BY <1>6, <1>f DEF StreamSilentlyCloses, Fewer, requestVars, historyVars
<1>7. ASSUME NEW g \in Gens, ReplyArrives(g)
      PROVE  RequestInv'
    <2>1. /\ generation' = generation /\ mode' = mode /\ requests' = requests \ {g}
          /\ headers' = headers /\ source' = source /\ (received' = received \/ generation = g)
        BY <1>7 DEF ReplyArrives, ReplyCounts
    <2> QED
        BY <2>1, <1>r DEF RequestInv
<1>8. ASSUME NEW g \in Gens, ReplyFails(g)
      PROVE  RequestInv'
    BY <1>8, <1>f DEF ReplyFails, Fewer, requestVars, historyVars
<1>9. CASE Render
    BY <1>9, <1>f DEF Render, Fewer, requestVars, historyVars
<1>10. CASE FlushTimer
    BY <1>10, <1>f DEF FlushTimer, Fewer, requestVars, historyVars
<1>11. CASE SubmitContinues
    BY <1>11, <1>a DEF SubmitContinues
<1>12. CASE SubmitFails
    BY <1>12, <1>f DEF SubmitFails, Fewer, requestVars, historyVars
<1>l. CASE LateSubmit
    BY <1>l, <1>f DEF LateSubmit, Fewer, requestVars, historyVars
<1>13. CASE SendMessage
    BY <1>13, <1>a DEF SendMessage
<1>14. CASE StopGeneration
    BY <1>14, <1>s DEF StopGeneration, StartGeneration, historyVars
<1>15. ASSUME NEW i \in 1 .. Len(messages), RegenerateMessage(i)
      PROVE  RequestInv'
    BY <1>15, <1>a DEF RegenerateMessage
<1>16. ASSUME NEW i \in 1 .. Len(messages), DeleteMessage(i)
      PROVE  RequestInv'
    BY <1>16, <1>f DEF DeleteMessage, Fewer, requestVars, historyVars
<1>17. ASSUME NEW i \in 1 .. Len(messages), OpenEditor(i)
      PROVE  RequestInv'
    BY <1>17, <1>f DEF OpenEditor, Fewer, requestVars, historyVars
<1>18. ASSUME NEW i \in 1 .. Len(messages), ApplyEdit(i)
      PROVE  RequestInv'
    BY <1>18, <1>f DEF ApplyEdit, Fewer, requestVars, historyVars
<1>19. ASSUME NEW i \in 1 .. Len(messages), ApplyEditAndSubmit(i)
      PROVE  RequestInv'
    BY <1>19, <1>a DEF ApplyEditAndSubmit
<1>20. CASE HandleSubmit
    BY <1>20, <1>f DEF HandleSubmit, Fewer, requestVars, historyVars
<1>21. CASE CloseEditor
    BY <1>21, <1>f DEF CloseEditor, Fewer, requestVars, historyVars
<1>22. CASE OpenClearDialog
    BY <1>22, <1>f DEF OpenClearDialog, Fewer, requestVars, historyVars
<1>23. CASE CloseClearDialog
    BY <1>23, <1>f DEF CloseClearDialog, Fewer, requestVars, historyVars
<1>24. CASE ClearMessages
    BY <1>24, <1>f DEF ClearMessages, Fewer, requestVars, historyVars
<1>25. CASE Mount
    BY <1>25, <1>f DEF Mount, Fewer, requestVars, historyVars, LoadPage
<1>26. CASE Reload
    <2>1. /\ generation' = generation /\ requests' = {} /\ headers' = {} /\ source' = None
        BY <1>26 DEF Reload, LoadPage
    <2>2. generation # None
        BY PageFacts DEF None
    <2> QED
        BY <2>1, <2>2 DEF RequestInv
<1>27. CASE Unmount
    BY <1>27, <1>s DEF Unmount, StartGeneration, historyVars
<1>28. CASE SaveTimerFires
    BY <1>28, <1>f DEF SaveTimerFires, Fewer, requestVars, historyVars
<1>29. CASE UNCHANGED vars
    BY <1>29, <1>f DEF vars, Fewer, requestVars, historyVars
<1>30. CASE Counted
    BY <1>30, <1>15, <1>16, <1>17, <1>18, <1>19, <1>20, <1>21, <1>22, <1>23, <1>24,
       <1>25, <1>26, <1>27, <1>28 DEF Counted, UserStep, MessageStep
<1>31. CASE Uncounted
    BY <1>31, <1>1, <1>2, <1>3, <1>4, <1>5, <1>6, <1>7, <1>8, <1>9, <1>10, <1>11,
       <1>12, <1>l, <1>13, <1>14 DEF Uncounted, PageStep, StreamStep, ReplyStep
<1>32. QED
    BY <1>29, <1>30, <1>31 DEF Next

\* Steps that bring nothing new to an answer, and steps that bring something to
\* the current one.
Still ==
    /\ received' = received /\ done' \subseteq done /\ cut \subseteq cut'
    /\ \A g \in Gens : g # generation + 1 => mode'[g] = mode[g]
    /\ \/ generation' = generation /\ (Busy' => Busy)
       \/ generation' = generation + 1

Brings ==
    /\ generation \in Gens /\ UNCHANGED <<generation, mode, cut>> /\ Busy
    /\ \A g \in Gens : g # generation => received'[g] = received[g] /\ (g \in done' => g \in done)
    /\ \A g \in Gens : \A ch \in Channels : received[g][ch] <= received'[g][ch]
    /\ ~Busy' \/ done' = done

LEMMA CountTypes ==
    ASSUME Types
    PROVE  /\ received \in Counts
           /\ \A g \in Gens : \A ch \in Channels : received[g][ch] \in Nat
           /\ done \subseteq Gens /\ mode \in [Gens -> Modes \cup {"none"}]
<1>1. received \in [Gens -> [Channels -> 0..MaxPieces + 1]]
    BY DEF Types, ChunkTypes
<1>2. \A g \in Gens : \A ch \in Channels : received[g][ch] \in 0..MaxPieces + 1
    BY <1>1
<1>3. \A g \in Gens : \A ch \in Channels : received[g][ch] \in Nat
    BY <1>2, PlaygroundAssumption
<1>4. received \in Counts
    <2>1. \A g \in Gens : received[g] \in [Channels -> Nat]
        <3> TAKE g \in Gens
        <3>1. received[g] \in [Channels -> 0..MaxPieces + 1]
            BY <1>1
        <3> QED
            BY <1>3, <3>1
    <2> QED
        BY <1>1, <2>1 DEF Counts
<1> QED
    BY <1>3, <1>4 DEF Types, RequestTypes

LEMMA HearsBrings ==
    ASSUME Types, Ctl, Rests, Hears
    PROVE  Brings /\ done' = done
<1>1. PICK c \in Channels, k \in 1 .. MaxPieces :
          /\ generation \in Gens /\ source = generation
          /\ received' = [received EXCEPT ![generation][c] = received[generation][c] + k]
    BY Zenon DEF Hears
<1>k. k \in Nat
    BY PlaygroundAssumption
<1>2. UNCHANGED <<generation, mode, cut, done>>
    BY DEF Rests
<1>3. Busy
    BY <1>1 DEF Ctl, Busy
<1>4. /\ received \in Counts /\ \A g \in Gens : \A ch \in Channels : received[g][ch] \in Nat
    BY CountTypes
<1>5. /\ received'[generation] =
             [received[generation] EXCEPT ![c] = received[generation][c] + k]
      /\ \A g \in Gens : g # generation => received'[g] = received[g]
    BY <1>1, <1>4 DEF Counts
<1>6. ASSUME NEW ch \in Channels PROVE received[generation][ch] <= received'[generation][ch]
    <2>1. received[generation] \in [Channels -> Nat] /\ received[generation][ch] \in Nat
        BY <1>1, <1>4 DEF Counts
    <2>2. CASE ch = c
        <3>1. received'[generation][ch] = received[generation][ch] + k
            BY <1>5, <2>1, <2>2
        <3> QED
            BY <1>k, <2>1, <3>1
    <2>3. CASE ch # c
        <3>1. received'[generation][ch] = received[generation][ch]
            BY <1>5, <2>1, <2>3
        <3> QED
            BY <2>1, <3>1
    <2> QED
        BY <2>2, <2>3
<1>7. ASSUME NEW g \in Gens, NEW ch \in Channels PROVE received[g][ch] <= received'[g][ch]
    <2>1. CASE g = generation
        BY <1>6, <2>1
    <2>2. CASE g # generation
        BY <1>4, <1>5, <2>2
    <2> QED
        BY <2>1, <2>2
<1> QED
    BY <1>1, <1>2, <1>3, <1>5, <1>7 DEF Brings

\* The ends of a request, and how many pieces an answer has then.
EndsSomehow == EndsComplete \/ EndsWithError \/ EndsWithReply \/ EndsWithImage

LEMMA EndsBrings ==
    ASSUME Types, RequestInv, EndsSomehow
    PROVE  Brings /\ ~Busy'
<1>1. generation \in Gens /\ UNCHANGED <<generation, mode, cut>> /\ Busy /\ ~Busy'
    BY DEF EndsSomehow, EndsComplete, EndsWithError, EndsWithReply, EndsWithImage, Ends, Tells
<1>2. done' \subseteq done \cup {generation}
    BY DEF EndsSomehow, EndsComplete, EndsWithError, EndsWithReply, EndsWithImage
<1>3. /\ received \in Counts /\ \A g \in Gens : \A ch \in Channels : received[g][ch] \in Nat
    BY CountTypes
<1>4. CASE received' = received
    BY <1>1, <1>2, <1>3, <1>4 DEF Brings
<1>5. CASE EndsWithReply
    <2>1. /\ received' = [received EXCEPT ![generation]["content"] = 1]
          /\ generation \in requests
        BY <1>5 DEF EndsWithReply
    <2>2. \A ch \in Channels : received[generation][ch] = 0
        BY <2>1 DEF RequestInv
    <2>3. \A g \in Gens : g # generation => received'[g] = received[g]
        BY <1>1, <1>3, <2>1 DEF Counts
    <2>4. ASSUME NEW ch \in Channels PROVE received[generation][ch] <= received'[generation][ch]
        <3>1. received[generation] \in [Channels -> Nat]
            BY <1>1, <1>3 DEF Counts
        <3>2. received'[generation] = [received[generation] EXCEPT !["content"] = 1]
            BY <1>1, <1>3, <2>1 DEF Counts
        <3>3. received'[generation][ch] = IF ch = "content" THEN 1 ELSE received[generation][ch]
            BY <3>1, <3>2
        <3> QED
            BY <2>2, <3>3
    <2>5. ASSUME NEW g \in Gens, NEW ch \in Channels PROVE received[g][ch] <= received'[g][ch]
        <3>1. CASE g = generation
            BY <2>4, <3>1
        <3>2. CASE g # generation
            BY <1>3, <2>3, <3>2
        <3> QED
            BY <3>1, <3>2
    <2> QED
        BY <1>1, <1>2, <2>3, <2>5 DEF Brings
<1> QED
    BY <1>4, <1>5 DEF EndsSomehow, EndsComplete, EndsWithError, EndsWithImage

\* Every move is one or the other.
LEMMA MovesStill ==
    ASSUME Types, AnswerInv
    PROVE  /\ Rests /\ Quiet => Still
           /\ Flushes \/ Renders \/ Deletes \/ Edits \/ Clears => Still
           /\ Sends \/ Converts \/ Stops \/ Loads \/ Leaves => Still
<1>1. Rests /\ Quiet => Still
    BY DEF Rests, Quiet, Still
<1>2. Flushes => Still
    BY DEF Flushes, Tells, Still
<1>3. Renders \/ Deletes \/ Clears => Still
    BY DEF Renders, Deletes, Clears, SameRequest, Still
<1>4. Edits => Still
    <2> HAVE Edits
    <2>1. cut \subseteq cut'
        BY CutFacts DEF Edits
    <2> QED
        BY <2>1 DEF Edits, SameRequest, Still
<1>5. ASSUME Asks PROVE Still
    <2>1. PICK md \in Modes : mode' = [mode EXCEPT ![generation + 1] = md]
        BY <1>5 DEF Asks
    <2>2. \A g \in Gens : g # generation + 1 => mode'[g] = mode[g]
        BY <2>1, CountTypes
    <2> QED
        BY <1>5, <2>2 DEF Asks, Begins, Still
<1>6. Sends \/ Converts => Still
    BY <1>5 DEF Sends, Converts
<1>7. Stops => Still
    <2> HAVE Stops
    <2>1. cut \subseteq cut'
        BY CutFacts DEF Stops
    <2> QED
        BY <2>1 DEF Stops, Begins, Still
<1>8. Loads => Still
    BY DEF Loads, Still
<1>9. Leaves => Still
    BY DEF Leaves, Still
<1> QED
    BY <1>1, <1>2, <1>3, <1>4, <1>6, <1>7, <1>8, <1>9

LEMMA NextCountInv ==
    ASSUME Types, Types', CountInv, Still \/ Brings
    PROVE  CountInv'
<1>1. generation \in Int /\ done \subseteq Gens /\ Gens \subseteq Int
    BY PageFacts, CountTypes DEF Gens
<1>d. done' \subseteq Gens
    BY DEF Types, RequestTypes
<1>2. CASE Still
    <2>1. /\ received' = received /\ done' \subseteq done
          /\ generation' \in Int /\ generation <= generation'
        BY <1>1, <1>2 DEF Still
    <2>2. \A g \in Gens : g > generation' => \A ch \in Channels : received'[g][ch] = 0
        BY <1>1, <2>1 DEF CountInv
    <2>3. \A g \in done' : g <= generation'
        BY <1>1, <2>1 DEF CountInv
    <2>4. Busy' => generation' \notin done'
        BY <1>1, <1>2, <1>d DEF Still, CountInv
    <2> QED
        BY <2>2, <2>3, <2>4 DEF CountInv
<1>3. CASE Brings
    <2>1. /\ generation' = generation /\ Busy
          /\ \A g \in Gens : g # generation => received'[g] = received[g] /\ (g \in done' => g \in done)
        BY <1>3 DEF Brings
    <2>2. \A g \in Gens : g > generation => \A ch \in Channels : received'[g][ch] = 0
        BY <1>1, <2>1 DEF CountInv
    <2>3. \A g \in done' : g <= generation
        BY <1>1, <1>d, <2>1 DEF CountInv
    <2>4. Busy' => generation \notin done'
        BY <1>3, <2>1 DEF Brings, CountInv
    <2> QED
        BY <2>1, <2>2, <2>3, <2>4 DEF CountInv
<1> QED
    BY <1>2, <1>3

\* Only delta streams are loose, from a message on that reached the buffer.
SwallowInv == \A g \in swallowed : g <= generation /\ mode[g] = "delta"

LEMMA NextSwallowInv ==
    ASSUME Types, Types', SwallowInv, Still \/ Brings,
           (Rests /\ Hears) \/ swallowed' = swallowed
    PROVE  SwallowInv' /\ swallowed \subseteq swallowed'
<1>1. generation \in Int /\ swallowed \subseteq Gens /\ Gens \subseteq Int
    BY PageFacts DEF Types, EditTypes, Gens
<1>2. CASE swallowed' = swallowed
    <2>1. generation' \in Int /\ generation <= generation'
        BY <1>1 DEF Still, Brings
    <2>2. ASSUME NEW g \in swallowed PROVE g <= generation' /\ mode'[g] = "delta"
        <3>1. g \in Gens /\ g \in Int /\ g <= generation /\ mode[g] = "delta"
            BY <1>1 DEF SwallowInv
        <3>2. g # generation + 1 /\ g <= generation'
            BY <1>1, <2>1, <3>1
        <3>3. mode'[g] = mode[g]
            BY <3>1, <3>2 DEF Still, Brings
        <3> QED
            BY <3>1, <3>2, <3>3
    <2> QED
        BY <1>2, <2>2 DEF SwallowInv
<1>3. CASE Rests /\ Hears
    <2>1. UNCHANGED <<generation, mode>>
        BY <1>3 DEF Rests
    <2>2. \/ swallowed' = swallowed
          \/ swallowed' = swallowed \cup {generation} /\ mode[generation] = "delta"
        BY <1>3, Zenon DEF Hears
    <2>3. generation <= generation
        BY <1>1
    <2> QED
        BY <2>1, <2>2, <2>3 DEF SwallowInv
<1> QED
    BY <1>2, <1>3

-----------------------------------------------------------------------------
\* The lists the page keeps. While it is busy the current answer is pending in
\* each of them, in what is stored too, and the answer that updates reach grows
\* with what comes.

Lists == {messages, View, Kept, latest} \cup Submitted

BusyInv == Busy => \A l \in Lists \cup Left : StillPending(l, cut, generation)

Filling(m, p, n, delta, loose) ==
    ~m.image /\ \A ch \in Channels : Growing(m.text[ch], p[ch], n[ch], delta, loose)

TextInv ==
    Busy /\ View # <<>> /\ Own(View[Len(View)], cut)
    => Filling(View[Len(View)], pending.text, received[generation], mode[generation] = "delta",
               generation \in swallowed)

TruthInv ==
    /\ \A l \in Lists : Genuine(l, cut, received, done, mode, swallowed)
    /\ \A l \in Left : AllTold(l, cut, received, done, swallowed)

LEMMA ListTypesAll == Types => \A l \in Lists \cup Left : l \in Seq(Messages)
<1> SUFFICES ASSUME Types PROVE \A l \in Lists \cup Left : l \in Seq(Messages)
    OBVIOUS
<1> QED
    BY PageFacts DEF Lists

\* Which lists there are after a step.
LEMMA DisplayLists ==
    ASSUME NEW l, Displays(l), Submitted' \subseteq Submitted
    PROVE  Lists' \subseteq Lists \cup {l}
<1>1. messages' = l /\ View' = l /\ Kept' = l /\ latest' \in {l, latest}
    BY DEF Displays
<1> QED
    BY <1>1 DEF Lists

LEMMA TellLists ==
    ASSUME NEW v, NEW k, Tells(v, k)
    PROVE  Lists' \subseteq Lists \cup {v} \/ (updates = <<>> /\ Lists' \subseteq Lists \cup {v, k})
<1>1. messages' = messages /\ Submitted' = Submitted /\ View' = v
    BY DEF Tells
<1>2. \/ Kept' = Kept /\ latest' = latest
      \/ updates = <<>> /\ Kept' = k /\ latest' = k
    BY DEF Tells, QueueRuns
<1> QED
    BY <1>1, <1>2 DEF Lists

LEMMA RestLists ==
    ASSUME Rests
    PROVE  /\ Lists' \subseteq Lists
           /\ Left' \subseteq Left \cup {Saved(latest)} \cup {Saved(l) : l \in Left}
<1>1. /\ UNCHANGED <<messages, updates, latest, generation>>
      /\ Submitted' \subseteq Submitted \cup {messages}
      /\ Left' \subseteq Left \cup {Saved(latest)} \cup {Saved(l) : l \in Left}
    BY DEF Rests
<1>2. View' = View /\ Kept' = Kept
    BY <1>1 DEF View, Kept
<1> QED
    BY <1>1, <1>2 DEF Lists

\* A pending current answer stays so in lists that stay.
LEMMA BusyLater ==
    ASSUME Types, AnswerInv, BusyInv, Still \/ Brings, Busy'
    PROVE  \A l \in Lists \cup Left : StillPending(l, cut', generation')
<1> SUFFICES ASSUME NEW l \in Lists \cup Left PROVE StillPending(l, cut', generation')
    OBVIOUS
<1>1. cut \subseteq cut'
    BY DEF Still, Brings
<1>2. CASE generation' = generation /\ Busy
    <2>1. StillPending(l, cut, generation)
        BY <1>2 DEF BusyInv
    <2> QED
        BY <1>1, <1>2, <2>1, OpenLater
<1>3. CASE generation' = generation + 1
    <2>1. l \in Seq(Messages) /\ Sound(l, cut, generation) /\ generation \in Int
        BY ListTypesAll, PageFacts DEF Lists, AnswerInv, SoundInv
    <2>2. Elsewhere(l, generation + 1)
        BY <2>1, SoundElsewhere
    <2> QED
        BY <1>3, <2>2 DEF Elsewhere, StillPending
<1> QED
    BY <1>2, <1>3 DEF Still, Brings

LEMMA BusyFrom ==
    ASSUME Types, AnswerInv, BusyInv, Still \/ Brings,
           Left' \subseteq Left \cup {Saved(latest)} \cup {Saved(l) : l \in Left},
           \A l \in Lists' : l \in Lists \/ (Busy' => StillPending(l, cut', generation'))
    PROVE  BusyInv'
<1> SUFFICES ASSUME Busy' PROVE \A l \in Lists' \cup Left' : StillPending(l, cut', generation')
    BY DEF BusyInv
<1>1. \A l \in Lists \cup Left : StillPending(l, cut', generation')
    BY BusyLater
<1>2. ASSUME NEW l \in Lists \cup Left PROVE StillPending(Saved(l), cut', generation')
    <2>1. StillPending(l, cut', generation') /\ l \in Seq(Messages)
        BY <1>1, ListTypesAll
    <2> QED
        BY <2>1, SavedTold
<1>3. latest \in Lists
    BY DEF Lists
<1>4. \A l \in Left' : StillPending(l, cut', generation')
    BY <1>1, <1>2, <1>3
<1> QED
    BY <1>1, <1>4

LEMMA NextBusyInv ==
    ASSUME Types, Types', Ctl, AnswerInv, AnswerInv', RequestInv, BusyInv, Moves
    PROVE  BusyInv'
<1>v. Busy' => /\ StillPending(messages', cut', generation') /\ StillPending(View', cut', generation')
    BY DEF AnswerInv, LiveInv
<1>1. CASE Rests /\ (Quiet \/ Hears)
    <2>1. Still \/ Brings
        BY <1>1, MovesStill, HearsBrings
    <2>2. /\ Lists' \subseteq Lists
          /\ Left' \subseteq Left \cup {Saved(latest)} \cup {Saved(l) : l \in Left}
        BY <1>1, RestLists
    <2> QED
        BY <2>1, <2>2, BusyFrom
<1>2. CASE Flushes
    <2>1. Still /\ Left' = Left /\ Tells(Heard(View), Heard(messages))
        BY <1>2, MovesStill DEF Flushes, Tells
    <2>2. \/ Lists' \subseteq Lists \cup {Heard(View)}
          \/ updates = <<>> /\ Lists' \subseteq Lists \cup {Heard(View), Heard(messages)}
        BY <2>1, TellLists
    <2>3. View' = Heard(View)
        BY <2>1 DEF Tells
    <2>4. updates = <<>> => Heard(messages) = Heard(View)
        BY NothingQueued
    <2>5. Lists' \subseteq Lists \cup {Heard(View)}
        BY <2>2, <2>4
    <2>6. \A l \in Lists' : l \in Lists \/ (Busy' => StillPending(l, cut', generation'))
        BY <1>v, <2>3, <2>5
    <2> QED
        BY <2>1, <2>6, BusyFrom
<1>3. CASE EndsSomehow
    BY <1>3, EndsBrings DEF BusyInv
<1>4. ASSUME NEW l, Displays(l), Submitted' = Submitted, Left' = Left, Still
      PROVE  BusyInv'
    <2>1. Lists' \subseteq Lists \cup {l} /\ View' = l
        BY <1>4, DisplayLists DEF Displays
    <2> QED
        BY <1>v, <1>4, <2>1, BusyFrom
<1>5. CASE Renders \/ Deletes \/ Edits \/ Clears
    BY <1>4, <1>5, MovesStill DEF Renders, Deletes, Edits, Clears, SameRequest
<1>6. CASE Sends \/ Stops
    BY <1>4, <1>6, MovesStill DEF Sends, Stops, Asks, Begins
<1>7. CASE Converts
    <2>1. PICK l :
              View' = l /\ Kept' = l /\ latest' \in {latest, l}
        BY <1>7 DEF Converts
    <2>2. Submitted' \subseteq Submitted /\ messages' = messages /\ Left' = Left /\ Still
        BY <1>7, MovesStill DEF Converts, Asks, Begins
    <2>3. Lists' \subseteq Lists \cup {l}
        BY <2>1, <2>2 DEF Lists
    <2> QED
        BY <1>v, <2>1, <2>2, <2>3, BusyFrom
<1>8. CASE Loads \/ Leaves
    BY <1>8 DEF Loads, Leaves, BusyInv
<1> QED
    BY <1>1, <1>2, <1>3, <1>5, <1>6, <1>7, <1>8 DEF Moves, EndsSomehow

-----------------------------------------------------------------------------
\* The current answer's text.

LEMMA BufferTypes ==
    ASSUME Types
    PROVE  \A ch \in Channels : pending.text[ch] \in Seq(Int)
<1>1. pending.text \in Texts
    BY DEF Types, ChunkTypes
<1>2. \A ch \in Channels : pending.text[ch] \in Seq(Pieces)
    BY <1>1 DEF Texts
<1> QED
    BY <1>2, PieceTexts

\* The last answer of the view is the current one, pending, and fills up.
LEMMA CurrentAnswer ==
    ASSUME Types, AnswerInv, TextInv, Busy, View # <<>>, Own(View[Len(View)], cut)
    PROVE  LET m == View[Len(View)] IN
           /\ m \in Messages /\ m.gen = generation /\ IsPending(m)
           /\ Filling(m, pending.text, received[generation], mode[generation] = "delta",
                      generation \in swallowed)
<1> DEFINE m == View[Len(View)]
<1>1. View \in Seq(Messages) /\ Len(View) \in Nat
    BY PageFacts, LenProperties
<1>2. Len(View) \in 1 .. Len(View)
    BY <1>1
<1>3. m \in Messages
    BY <1>1, <1>2, ElementOfSeq
<1>4. m.gen = generation
    BY DEF AnswerInv, LiveInv, LastIsCurrent
<1>5. IsPending(m)
    <2>1. StillPending(View, cut, generation)
        BY DEF AnswerInv, LiveInv
    <2> QED
        BY <1>2, <1>4, <2>1 DEF StillPending
<1>6. Filling(m, pending.text, received[generation], mode[generation] = "delta",
              generation \in swallowed)
    BY DEF TextInv
<1> QED
    BY <1>3, <1>4, <1>5, <1>6

\* Once it has heard the buffered chunks it shows all that came.
LEMMA HeardFull ==
    ASSUME Types, AnswerInv, TextInv, Busy, generation \in Gens,
           Heard(View) # <<>>, Own(Heard(View)[Len(Heard(View))], cut)
    PROVE  LET m == Heard(View)[Len(Heard(View))] IN
           /\ m \in Messages /\ m.gen = generation /\ IsPending(m) /\ ~m.image
           /\ \A ch \in Channels : Full(m.text[ch], received[generation][ch], generation \in swallowed)
<1> DEFINE v == Heard(View)
           m == v[Len(v)]
           o == View[Len(View)]
           n == received[generation]
           delta == (mode[generation] = "delta")
           loose == (generation \in swallowed)
<1>1. View \in Seq(Messages) /\ Len(View) \in Nat
    BY PageFacts, LenProperties
<1>n. \A ch \in Channels : n[ch] \in Nat
    BY CountTypes
<1>p. \A ch \in Channels : pending.text[ch] \in Seq(Int)
    BY BufferTypes
<1>d. delta \in BOOLEAN /\ loose \in BOOLEAN
    OBVIOUS
<1>2. CASE pending.text = NoText
    <2>1. v = View
        BY <1>2 DEF Heard
    <2>2. m \in Messages /\ m.gen = generation /\ IsPending(m) /\ Filling(m, pending.text, n, delta, loose)
        BY <2>1, CurrentAnswer
    <2> HIDE DEF m, n, delta, loose
    <2>3. ASSUME NEW ch \in Channels PROVE Full(m.text[ch], n[ch], loose)
        <3>1. Growing(m.text[ch], pending.text[ch], n[ch], delta, loose)
            BY <2>2 DEF Filling
        <3>2. pending.text[ch] = <<>>
            BY <1>2 DEF NoText
        <3>3. m.text[ch] \in Seq(Int)
            BY <2>2, MessageFields
        <3>4. Growing(m.text[ch], <<>>, n[ch], delta, loose)
            BY <3>1, <3>2
        <3> QED
            BY <1>n, <1>d, <3>3, <3>4, GrownText
    <2> QED
        BY <2>2, <2>3 DEF Filling, m, n, loose
<1>3. CASE pending.text # NoText
    <2>1. v = UpdateLastAssistantMessage(View, Chunk)
        BY <1>3 DEF Heard
    <2>2. Chunk.op = "chunks" /\ Chunk.text = pending.text /\ Chunk.op \in AnswerOps
        BY DEF Chunk, AnswerOps
    <2>3. pending.text \in Texts
        BY DEF Types, ChunkTypes
    <2>4. /\ v \in Seq(Messages) /\ Len(v) = Len(View)
          /\ \A i \in 1 .. Len(View) :
                 /\ Key(v[i]) = Key(View[i])
                 /\ i = Len(View) /\ IsAnswer(View[i]) => v[i] = UpdateAnswer(View[i], Chunk)
        BY <1>1, <2>1, <2>2, <2>3, UpdatedOutline
    <2>5. View # <<>> /\ Len(View) \in 1 .. Len(View) /\ Len(v) \in 1 .. Len(v)
        BY <1>1, <2>4
    <2>6. Own(o, cut)
        <3>1. Key(m) = Key(o)
            BY <2>4, <2>5
        <3>2. m.gen = o.gen /\ (IsAnswer(m) <=> IsAnswer(o))
            BY <3>1, KeyParts
        <3> QED
            BY <3>2 DEF Own
    <2>7. o \in Messages /\ o.gen = generation /\ IsPending(o) /\ Filling(o, pending.text, n, delta, loose)
        BY <2>5, <2>6, CurrentAnswer
    <2>8. m = UpdateAnswer(o, Chunk)
        BY <2>4, <2>5, <2>6 DEF Own
    <2>9. m \in Messages
        BY <2>4, <2>5, ElementOfSeq
    <2> HIDE DEF m, o, n, delta, loose
    <2>10. o.status # "error"
        BY <2>7 DEF IsPending
    <2>11. m = ApplyStreamingChunks(o, pending.text)
        BY <2>2, <2>8 DEF UpdateAnswer
    <2>12. m = [o EXCEPT !.status = "streaming",
                         !.text = [c \in Channels |->
                             o.text[c] \o GetAppendableChunk(o.text[c], pending.text[c])]]
        BY <2>10, <2>11 DEF ApplyStreamingChunks
    <2>13. /\ m.gen = o.gen /\ m.from = o.from /\ m.image = o.image /\ m.status = "streaming"
           /\ m.text = [c \in Channels |->
                             o.text[c] \o GetAppendableChunk(o.text[c], pending.text[c])]
        BY <2>7, <2>12 DEF Messages
    <2>14. IsPending(m)
        BY <2>7, <2>13 DEF IsPending, IsAnswer
    <2>15. ASSUME NEW ch \in Channels PROVE Full(m.text[ch], n[ch], loose)
        <3>1. Growing(o.text[ch], pending.text[ch], n[ch], delta, loose)
            BY <2>7 DEF Filling
        <3>2. m.text[ch] = o.text[ch] \o GetAppendableChunk(o.text[ch], pending.text[ch])
            BY <2>13
        <3>3. o.text[ch] \in Seq(Int) /\ n[ch] \in Nat /\ pending.text[ch] \in Seq(Int)
            BY <1>n, <1>p, <2>7, MessageFields
        <3>4. Full(o.text[ch] \o GetAppendableChunk(o.text[ch], pending.text[ch]), n[ch], loose)
            BY <1>d, <3>1, <3>3, FlushGrows
        <3> QED
            BY <3>2, <3>4
    <2>16. ~m.image
        BY <2>7, <2>13 DEF Filling
    <2> QED
        BY <2>7, <2>9, <2>13, <2>14, <2>15, <2>16 DEF m, n, loose
<1> QED
    BY <1>2, <1>3

LEMMA HearsText ==
    ASSUME Types, AnswerInv, SwallowInv, TextInv, Rests, Hears
    PROVE  TextInv'
<1> DEFINE n == received[generation]
           delta == (mode[generation] = "delta")
           loose == (generation \in swallowed)
           p == pending.text
           chunk(c, k) == IF delta THEN [i \in 1 .. k |-> n[c] + i] ELSE [i \in 1 .. n[c] + k |-> i]
           merged(c, k) == MergePendingStreamChunk(p[c], chunk(c, k))
<1>1. PICK c \in Channels, k \in 1 .. MaxPieces :
          /\ generation \in Gens
          /\ received' = [received EXCEPT ![generation][c] = n[c] + k]
          /\ pending' = [pending EXCEPT !.text[c] = merged(c, k)]
          /\ swallowed' = IF delta /\ (\/ Repeats(chunk(c, k), p[c])
                                       \/ Repeats(merged(c, k), LastText(View, c)))
                          THEN swallowed \cup {generation} ELSE swallowed
    BY Zenon DEF Hears
<1>2. UNCHANGED <<messages, updates, generation, mode, cut>> /\ (Busy' <=> Busy)
    BY DEF Rests
<1>3. View' = View
    BY <1>2 DEF View
<1> DEFINE m == View[Len(View)]
           more == (generation \in swallowed')
           w == chunk(c, k)
           q == merged(c, k)
<1> SUFFICES ASSUME Busy, View # <<>>, Own(m, cut)
             PROVE  Filling(m, pending'.text, received'[generation], delta, more)
    BY <1>2, <1>3 DEF TextInv
<1>4. m \in Messages /\ Filling(m, p, n, delta, loose)
    BY CurrentAnswer
<1>5. \A ch \in Channels : n[ch] \in Nat /\ p[ch] \in Seq(Int) /\ m.text[ch] \in Seq(Int)
    BY <1>1, <1>4, CountTypes, BufferTypes, MessageFields
<1>6. received'[generation] = [n EXCEPT ![c] = n[c] + k] /\ n \in [Channels -> Nat]
    BY <1>1, CountTypes DEF Counts
<1>7. pending'.text = [p EXCEPT ![c] = q] /\ p \in [Channels -> Seq(Pieces)]
    <2>1. pending \in [gen : 0..MaxGen, text : Texts]
        BY DEF Types, ChunkTypes
    <2> HIDE DEF merged
    <2> QED
        BY <1>1, <2>1 DEF Texts
<1>d. delta \in BOOLEAN /\ loose \in BOOLEAN /\ more \in BOOLEAN
    OBVIOUS
<1>k. k \in Nat /\ k \in Nat \ {0}
    BY PlaygroundAssumption
<1>l. LastText(View, c) = m.text[c]
    BY DEF LastText, Own
<1>s. loose => delta
    BY DEF SwallowInv
<1>t. /\ loose => more
      /\ more => delta
      /\ delta /\ ~more => ~Repeats(w, p[c]) /\ ~Repeats(q, m.text[c])
    <2> HIDE DEF chunk, merged, delta, m
    <2> QED
        BY <1>1, <1>l, <1>s
<1>q. q = MergePendingStreamChunk(p[c], w)
    OBVIOUS
<1>w. w = IF delta THEN [i \in 1 .. k |-> n[c] + i] ELSE [i \in 1 .. n[c] + k |-> i]
    OBVIOUS
<1> HIDE DEF m, n, p, delta, loose, more, chunk, merged, w, q
<1>8. Growing(m.text[c], p[c], n[c], delta, loose)
    BY <1>4 DEF Filling
<1>m. ASSUME NEW ch \in Channels PROVE Growing(m.text[ch], p[ch], n[ch], delta, more)
    <2>1. Growing(m.text[ch], p[ch], n[ch], delta, loose)
        BY <1>4 DEF Filling
    <2>2. CASE more = loose
        BY <2>1, <2>2
    <2>3. CASE more # loose
        <3>1. more = TRUE /\ delta = TRUE
            BY <1>d, <1>t, <2>3
        <3>2. Growing(m.text[ch], p[ch], n[ch], TRUE, TRUE)
            BY <1>5, <1>d, <2>1, <3>1, GrowsLoose
        <3> QED
            BY <3>1, <3>2
    <2> QED
        BY <2>2, <2>3
<1>9. Growing(m.text[c], q, n[c] + k, delta, more)
    <2>0. n[c] \in Nat /\ p[c] \in Seq(Int) /\ m.text[c] \in Seq(Int)
        BY <1>5
    <2>m. Growing(m.text[c], p[c], n[c], delta, more)
        BY <1>m
    <2>1. CASE delta
        <3>1. w = [i \in 1 .. k |-> n[c] + i] /\ delta = TRUE
            BY <1>d, <1>w, <2>1
        <3>2. w \in Seq(Int) /\ Len(w) = k /\ \A i \in 1 .. k : w[i] = n[c] + i
            BY <1>k, <2>0, <3>1
        <3>3. Growing(m.text[c], p[c], n[c], TRUE, more)
            BY <2>m, <3>1
        <3>4. more \/ (~Repeats(w, p[c]) /\ ~Repeats(MergePendingStreamChunk(p[c], w), m.text[c]))
            BY <1>q, <1>t, <2>1
        <3>5. Growing(m.text[c], MergePendingStreamChunk(p[c], w), n[c] + k, TRUE, more)
            BY <1>d, <1>k, <2>0, <3>2, <3>3, <3>4, DeltaGrows
        <3> QED
            BY <1>q, <3>1, <3>5
    <2>2. CASE ~delta
        <3>1. w = [i \in 1 .. n[c] + k |-> i] /\ delta = FALSE /\ more = FALSE
            BY <1>d, <1>t, <1>w, <2>2
        <3>a. n[c] + k \in Nat
            BY <1>k, <2>0
        <3>2. w \in Seq(Int) /\ Len(w) = n[c] + k /\ \A i \in 1 .. n[c] + k : w[i] = i
            BY <3>1, <3>a
        <3>3. Growing(m.text[c], p[c], n[c], FALSE, FALSE)
            BY <2>m, <3>1
        <3>4. Growing(m.text[c], MergePendingStreamChunk(p[c], w), n[c] + k, FALSE, FALSE)
            BY <1>k, <2>0, <3>2, <3>3, SnapshotGrows
        <3> QED
            BY <1>q, <3>1, <3>4
    <2> QED
        BY <2>1, <2>2
<1>10. ASSUME NEW ch \in Channels
       PROVE  Growing(m.text[ch], pending'.text[ch], received'[generation][ch], delta, more)
    <2>1. CASE ch = c
        <3>1. pending'.text[ch] = q /\ received'[generation][ch] = n[c] + k
            BY <1>6, <1>7, <2>1
        <3> QED
            BY <1>9, <2>1, <3>1
    <2>2. CASE ch # c
        <3>1. pending'.text[ch] = p[ch] /\ received'[generation][ch] = n[ch]
            BY <1>6, <1>7, <2>2
        <3> QED
            BY <1>m, <3>1
    <2> QED
        BY <2>1, <2>2
<1> QED
    BY <1>4, <1>10 DEF Filling

LEMMA FlushesText ==
    ASSUME Types, AnswerInv, TextInv, Flushes, swallowed' = swallowed
    PROVE  TextInv'
<1>1. /\ UNCHANGED <<generation, cut, mode, received>> /\ View' = Heard(View)
      /\ pending' = NoChunks(generation) /\ Busy /\ generation \in Gens
    BY DEF Flushes, Tells
<1> DEFINE m == Heard(View)[Len(Heard(View))]
           n == received[generation]
           delta == (mode[generation] = "delta")
           loose == (generation \in swallowed)
<1> SUFFICES ASSUME Heard(View) # <<>>, Own(m, cut)
             PROVE  Filling(m, pending'.text, n, delta, loose)
    BY <1>1 DEF TextInv
<1>2. /\ m \in Messages /\ ~m.image
      /\ \A ch \in Channels : Full(m.text[ch], n[ch], loose)
    BY <1>1, HeardFull
<1>3. delta \in BOOLEAN /\ loose \in BOOLEAN
    OBVIOUS
<1>4. \A ch \in Channels : n[ch] \in Nat /\ m.text[ch] \in Seq(Int)
    BY <1>1, <1>2, CountTypes, MessageFields
<1> HIDE DEF m, n, delta, loose
<1>5. ASSUME NEW ch \in Channels PROVE Growing(m.text[ch], pending'.text[ch], n[ch], delta, loose)
    <2>1. pending'.text[ch] = <<>>
        BY <1>1 DEF NoChunks, NoText
    <2>2. Growing(m.text[ch], <<>>, n[ch], delta, loose)
        BY <1>2, <1>3, <1>4, GrownIs
    <2> QED
        BY <2>1, <2>2
<1> QED
    BY <1>2, <1>5 DEF Filling

\* A new answer waits for its first piece.
LEMMA NewText ==
    ASSUME Types, CountInv, Asks, View' # <<>>, View'[Len(View')] = LoadingAnswer(generation + 1)
    PROVE  TextInv'
<1>1. /\ generation + 1 \in Gens /\ generation' = generation + 1
      /\ pending' = NoChunks(generation + 1) /\ received' = received
    BY DEF Asks, Begins
<1> DEFINE m == LoadingAnswer(generation + 1)
           delta == (mode'[generation + 1] = "delta")
           loose == (generation + 1 \in swallowed')
<1>2. ~m.image /\ m.text = NoText
    BY DEF LoadingAnswer
<1>3. \A ch \in Channels : received[generation + 1][ch] = 0
    <2>1. generation \in Nat
        BY PageFacts
    <2>2. generation + 1 > generation
        BY <2>1
    <2> QED
        BY <1>1, <2>2 DEF CountInv
<1>4. delta \in BOOLEAN /\ loose \in BOOLEAN
    OBVIOUS
<1>5. <<>> \in Seq(Int) /\ InOrder(<<>>, 0) /\ Len(<<>>) = 0
    BY DEF InOrder
<1> HIDE DEF m, delta, loose
<1>w. Full(<<>>, 0, loose)
    BY <1>4, <1>5, WholeIsFull
<1>6. Growing(<<>>, <<>>, 0, delta, loose)
    BY <1>4, <1>5, <1>w, GrownIs
<1>7. ASSUME NEW ch \in Channels
      PROVE  Growing(m.text[ch], pending'.text[ch], received'[generation + 1][ch], delta, loose)
    <2>1. m.text[ch] = <<>> /\ pending'.text[ch] = <<>> /\ received'[generation + 1][ch] = 0
        BY <1>1, <1>2, <1>3 DEF NoChunks, NoText
    <2> QED
        BY <1>6, <2>1
<1>8. Filling(m, pending'.text, received'[generation + 1], delta, loose)
    BY <1>2, <1>7 DEF Filling
<1> QED
    BY <1>1, <1>8 DEF TextInv, m, delta, loose

LEMMA LoadingLast ==
    ASSUME NEW l \in Seq(Messages), NEW g \in Gens
    PROVE  /\ \A image \in BOOLEAN :
                  LET r == AppendUserMessagePair(l, g, image) IN
                  r # <<>> /\ r[Len(r)] = LoadingAnswer(g)
           /\ \A i \in 1 .. Len(l) :
                  LET r == CreateRegeneratedMessages(l, i, g) IN
                  r # <<>> /\ r[Len(r)] = LoadingAnswer(g)
<1>1. ASSUME NEW image \in BOOLEAN
      PROVE  LET r == AppendUserMessagePair(l, g, image) IN r # <<>> /\ r[Len(r)] = LoadingAnswer(g)
    <2> DEFINE r == AppendUserMessagePair(l, g, image)
    <2>1. r \in Seq(Messages) /\ Len(l) \in Nat /\ Len(r) = Len(l) + 2 /\ r[Len(l) + 2] = LoadingAnswer(g)
        BY PairElements
    <2> HIDE DEF r
    <2>2. r # <<>> /\ r[Len(r)] = LoadingAnswer(g)
        BY <2>1
    <2> QED
        BY <2>2 DEF r
<1>2. ASSUME NEW i \in 1 .. Len(l)
      PROVE  LET r == CreateRegeneratedMessages(l, i, g) IN r # <<>> /\ r[Len(r)] = LoadingAnswer(g)
    <2> DEFINE r == CreateRegeneratedMessages(l, i, g)
    <2>1. \E n \in 0 .. Len(l) :
              r \in Seq(Messages) /\ Len(r) = n + 1 /\ r[n + 1] = LoadingAnswer(g)
        BY RegeneratedElements
    <2> HIDE DEF r
    <2>2. Len(l) \in Nat
        BY LenProperties
    <2>3. r # <<>> /\ r[Len(r)] = LoadingAnswer(g)
        BY <2>1, <2>2
    <2> QED
        BY <2>3 DEF r
<1> QED
    BY <1>1, <1>2

LEMMA AsksText ==
    ASSUME Types, CountInv, Sends \/ Converts
    PROVE  TextInv'
<1>1. Asks /\ generation + 1 \in Gens
    BY DEF Sends, Converts, Asks, Begins
<1>2. messages \in Seq(Messages) /\ \A l \in Submitted : l \in Seq(Messages)
    BY PageFacts
<1>3. ASSUME NEW l \in Seq(Messages), NEW image \in BOOLEAN,
             View' = AppendUserMessagePair(l, generation + 1, image)
      PROVE  TextInv'
    BY <1>1, <1>3, LoadingLast, NewText
<1>4. ASSUME NEW l \in Seq(Messages), NEW i \in 1 .. Len(l),
             View' = CreateRegeneratedMessages(l, i, generation + 1)
      PROVE  TextInv'
    BY <1>1, <1>4, LoadingLast, NewText
<1>5. CASE Converts
    BY <1>2, <1>3, <1>5 DEF Converts
<1>6. CASE Displays(AppendUserMessagePair(messages, generation + 1, FALSE))
    BY <1>2, <1>3, <1>6 DEF Displays
<1>7. ASSUME NEW i \in 1 .. Len(messages),
             Displays(CreateRegeneratedMessages(messages, i, generation + 1))
      PROVE  TextInv'
    BY <1>2, <1>4, <1>7 DEF Displays
<1>8. ASSUME NEW i \in 1 .. Len(messages),
             Displays(CreateRegeneratedMessages(EditMessage(messages, i), i, generation + 1))
      PROVE  TextInv'
    <2>1. EditMessage(messages, i) \in Seq(Messages) /\ i \in 1 .. Len(EditMessage(messages, i))
        BY <1>2, EditOutline DEF SameOutline
    <2> QED
        BY <1>4, <1>8, <2>1 DEF Displays
<1> QED
    BY <1>5, <1>6, <1>7, <1>8 DEF Sends

LEMMA DeletesText ==
    ASSUME Types, AnswerInv, TextInv, Deletes, swallowed' = swallowed
    PROVE  TextInv'
<1>1. PICK i \in 1 .. Len(messages) : Displays(RemoveMessageByKey(View, Key(messages[i])))
    BY DEF Deletes
<1>2. /\ UNCHANGED <<generation, mode, received, pending, cut>> /\ (Busy' <=> Busy) /\ ~shown
    BY DEF Deletes, SameRequest
<1> DEFINE k == Key(messages[i])
           r == RemoveMessageByKey(View, k)
<1> SUFFICES ASSUME Busy PROVE View' # <<>> /\ View'[Len(View')] = View[Len(View)] /\ View # <<>>
    BY <1>2 DEF TextInv
<1>3. View # <<>> /\ View[Len(View)].gen = generation /\ Elsewhere(messages, generation)
    BY <1>2 DEF AnswerInv, LiveInv
<1>4. Key(View[Len(View)]) # k
    BY <1>3, KeyParts DEF Elsewhere
<1>5. View \in Seq(Messages) /\ Sound(View, cut, generation)
    BY PageFacts DEF AnswerInv, SoundInv
<1>6. r # <<>> /\ r[Len(r)] = View[Len(View)]
    BY <1>3, <1>4, <1>5, RemovedOpen
<1>7. View' = r
    BY <1>1 DEF Displays
<1> QED
    BY <1>3, <1>6, <1>7

LEMMA EditsText ==
    ASSUME Types, AnswerInv, TextInv, Edits, swallowed' = swallowed
    PROVE  TextInv'
<1>1. PICK i \in 1 .. Len(messages) :
          Key(messages[i]) \in editing /\ Displays(EditMessage(messages, i))
    BY DEF Edits
<1>2. /\ UNCHANGED <<generation, mode, received, pending>> /\ (Busy' <=> Busy) /\ CutQueue
    BY DEF Edits, SameRequest
<1> DEFINE r == EditMessage(messages, i)
           n == Len(messages)
<1>3. messages \in Seq(Messages)
    BY PageFacts
<1>4. /\ r \in Seq(Messages) /\ Len(r) = n /\ n \in Nat
      /\ \A j \in 1 .. n : (j # i => r[j] = messages[j]) /\ Key(r[j]) = Key(messages[j])
    <2>1. n \in Nat
        BY <1>3, LenProperties
    <2>2. r \in Seq(Messages) /\ Len(r) = n /\ \A j \in 1 .. n : j # i => r[j] = messages[j]
        BY <1>3, EditElements
    <2>3. SameOutline(r, messages)
        BY <1>3, EditOutline
    <2> QED
        BY <2>1, <2>2, <2>3 DEF SameOutline
<1>5. View' = r
    BY <1>1 DEF Displays
<1>6. n \in 1 .. n /\ messages # <<>>
    BY <1>3, <1>4
<1> HIDE DEF r
<1> SUFFICES ASSUME Busy, Own(r[n], cut')
             PROVE  Filling(r[n], pending.text, received[generation], mode[generation] = "delta",
                            generation \in swallowed)
    BY <1>2, <1>4, <1>5 DEF TextInv
<1>7. messages[n].gen = r[n].gen /\ (IsAnswer(messages[n]) <=> IsAnswer(r[n]))
    BY <1>4, <1>6, KeyParts
<1>8. updates = <<>> /\ cut' = cut
    BY <1>2, <1>6, <1>7, CutFacts DEF Own
<1>9. View = messages
    BY <1>8, NothingQueued
<1>10. Own(View[Len(View)], cut) /\ View # <<>>
    BY <1>6, <1>7, <1>8, <1>9 DEF Own
<1>11. messages[n].gen = generation
    BY <1>9, <1>10, CurrentAnswer
<1>12. Key(messages[i]).gen # generation
    BY <1>1 DEF AnswerInv, LiveInv
<1>13. i # n
    BY <1>11, <1>12 DEF Key
<1>14. r[n] = View[Len(View)]
    BY <1>4, <1>6, <1>9, <1>13
<1> QED
    BY <1>10, <1>14 DEF TextInv

LEMMA NextTextInv ==
    ASSUME Types, Ctl, AnswerInv, RequestInv, CountInv, SwallowInv, TextInv,
           (Rests /\ Hears) \/ (Moves /\ swallowed' = swallowed)
    PROVE  TextInv'
<1>h. CASE Rests /\ Hears
    BY <1>h, HearsText
<1> SUFFICES ASSUME Moves, swallowed' = swallowed, ~(Rests /\ Hears) PROVE TextInv'
    BY <1>h
<1>1. CASE Rests /\ Quiet
    <2>1. UNCHANGED <<messages, updates, generation, mode, cut, received, pending>> /\ (Busy' <=> Busy)
        BY <1>1 DEF Rests, Quiet
    <2>2. View' = View
        BY <2>1 DEF View
    <2> QED
        BY <2>1, <2>2 DEF TextInv
<1>2. CASE Renders
    BY <1>2 DEF Renders, SameRequest, Displays, TextInv
<1>3. CASE Clears
    BY <1>3 DEF Clears, Displays, TextInv
<1>4. CASE EndsSomehow
    BY <1>4, EndsBrings DEF TextInv
<1>5. CASE Stops \/ Loads \/ Leaves
    BY <1>5 DEF Stops, Loads, Leaves, TextInv
<1> QED
    BY <1>1, <1>2, <1>3, <1>4, <1>5, FlushesText, DeletesText, EditsText, AsksText
    DEF Moves, EndsSomehow

-----------------------------------------------------------------------------
\* The claims of the lists that stay.

LEMMA StillList ==
    ASSUME Types, CountInv, Still, swallowed \subseteq swallowed', NEW l \in Seq(Messages)
    PROVE  /\ AllTold(l, cut, received, done, swallowed) => AllTold(l, cut', received', done', swallowed')
           /\ AllDrawn(l, cut, done, mode) => AllDrawn(l, cut', done', mode')
<1> DEFINE h == generation + 1
<1>1. /\ received' = received /\ done' \subseteq done /\ cut \subseteq cut'
      /\ \A g \in Gens : g # h => mode'[g] = mode[g]
    BY DEF Still
<1>2. received \in Counts /\ \A g \in Gens : \A ch \in Channels : received[g][ch] \in Nat
    BY CountTypes
<1>3. \A g \in Gens : \A ch \in Channels : received[g][ch] <= received[g][ch]
    BY <1>2
<1>4. h \notin done'
    BY <1>1, PageFacts DEF CountInv
<1> HIDE DEF h
<1>5. \A g \in Gens : g # h => received'[g] = received[g] /\ (g \in done' => g \in done)
    BY <1>1
<1>6. \A g \in Gens : g # h => mode'[g] = mode[g] /\ (g \in done' => g \in done)
    BY <1>1
<1>7. \A g \in Gens : \A ch \in Channels : received[g][ch] <= received'[g][ch]
    BY <1>1, <1>3
<1>8. received' \in Counts
    BY <1>1, <1>2
<1>9. Later(cut, cut', received, received', done, done', mode, mode', swallowed, swallowed', h)
    BY <1>1, <1>2, <1>5, <1>6, <1>7, <1>8 DEF Later
<1> QED
    BY <1>4, <1>9, AllLater

LEMMA StillTrue ==
    ASSUME Types, CountInv, TruthInv, Still, swallowed \subseteq swallowed'
    PROVE  /\ \A l \in Lists : Genuine(l, cut', received', done', mode', swallowed')
           /\ \A l \in Left : AllTold(l, cut', received', done', swallowed')
<1>1. \A l \in Lists \cup Left : l \in Seq(Messages)
    BY ListTypesAll
<1>2. \A l \in Lists : Genuine(l, cut', received', done', mode', swallowed')
    BY <1>1, StillList DEF TruthInv, Genuine
<1>3. \A l \in Left : AllTold(l, cut', received', done', swallowed')
    BY <1>1, StillList DEF TruthInv
<1> QED
    BY <1>2, <1>3

\* l has the current answer pending, or the generation is not done.
LEMMA BroughtTrue ==
    ASSUME Types, Types', Brings, swallowed \subseteq swallowed', NEW l \in Seq(Messages),
           StillPending(l, cut, generation) \/ generation \notin done'
    PROVE  /\ AllTold(l, cut, received, done, swallowed) => AllTold(l, cut', received', done', swallowed')
           /\ AllDrawn(l, cut, done, mode) => AllDrawn(l, cut', done', mode')
<1> DEFINE h == generation
<1>1. /\ cut' = cut /\ cut \subseteq cut' /\ mode' = mode
      /\ \A g \in Gens : g # h => received'[g] = received[g] /\ (g \in done' => g \in done)
      /\ \A g \in Gens : \A ch \in Channels : received[g][ch] <= received'[g][ch]
    BY DEF Brings
<1>2. received \in Counts
    BY CountTypes
<1>3. received' \in Counts
    <2>1. \A g \in Gens : \A ch \in Channels : 0..MaxPieces + 1 \subseteq Nat
        BY PlaygroundAssumption
    <2>2. received' \in [Gens -> [Channels -> 0..MaxPieces + 1]]
        BY DEF Types, ChunkTypes
    <2>3. \A g \in Gens : received'[g] \in [Channels -> Nat]
        <3> TAKE g \in Gens
        <3>1. received'[g] \in [Channels -> 0..MaxPieces + 1]
            BY <2>2
        <3>2. \A ch \in Channels : received'[g][ch] \in Nat
            BY <2>1, <3>1
        <3> QED
            BY <3>1, <3>2
    <2> QED
        BY <2>2, <2>3 DEF Counts
<1>4. \A g \in Gens : g # h => mode'[g] = mode[g] /\ (g \in done' => g \in done)
    BY <1>1
<1>5. StillPending(l, cut', h) \/ h \notin done'
    BY <1>1
<1> HIDE DEF h
<1>6. Later(cut, cut', received, received', done, done', mode, mode', swallowed, swallowed', h)
    BY <1>1, <1>2, <1>3, <1>4 DEF Later
<1> QED
    BY <1>5, <1>6, AllLater

LEMMA BringsTrue ==
    ASSUME Types, Types', CountInv, BusyInv, TruthInv, Brings, swallowed \subseteq swallowed'
    PROVE  /\ \A l \in Lists : Genuine(l, cut', received', done', mode', swallowed')
           /\ \A l \in Left : AllTold(l, cut', received', done', swallowed')
<1>1. \A l \in Lists \cup Left : l \in Seq(Messages) /\ StillPending(l, cut, generation)
    BY ListTypesAll DEF BusyInv, Brings
<1>2. \A l \in Lists : Genuine(l, cut', received', done', mode', swallowed')
    BY <1>1, BroughtTrue DEF TruthInv, Genuine
<1>3. \A l \in Left : AllTold(l, cut', received', done', swallowed')
    BY <1>1, BroughtTrue DEF TruthInv
<1> QED
    BY <1>2, <1>3

\* A step leaves the claims true if each list it makes is true, for what it
\* stores is an old copy, a saved list or true itself.
LEMMA TrueFrom ==
    ASSUME Types, Types', CountInv, BusyInv, TruthInv, Still \/ Brings, swallowed \subseteq swallowed',
           \A l \in Left' : \/ l \in Left \/ \E a \in Lists \cup Left \cup Lists' : l = Saved(a)
                            \/ AllTold(l, cut', received', done', swallowed'),
           \A l \in Lists' : l \in Lists \/ Genuine(l, cut', received', done', mode', swallowed')
    PROVE  TruthInv'
<1>1. /\ \A l \in Lists : Genuine(l, cut', received', done', mode', swallowed')
      /\ \A l \in Left : AllTold(l, cut', received', done', swallowed')
    BY StillTrue, BringsTrue
<1>2. \A l \in Lists' : Genuine(l, cut', received', done', mode', swallowed')
    BY <1>1
<1>3. \A l \in Lists \cup Left \cup Lists' : AllTold(l, cut', received', done', swallowed')
    BY <1>1, <1>2 DEF Genuine
<1>4. \A l \in Lists \cup Left \cup Lists' : l \in Seq(Messages)
    <2>1. (Types => \A l \in Lists \cup Left : l \in Seq(Messages))'
        BY ListTypesAll, PTL
    <2> QED
        BY <2>1, ListTypesAll
<1>5. \A l \in Lists \cup Left \cup Lists' : AllTold(Saved(l), cut', received', done', swallowed')
    BY <1>3, <1>4, SavedTold
<1>6. \A l \in Left' : AllTold(l, cut', received', done', swallowed')
    BY <1>1, <1>5
<1> QED
    BY <1>2, <1>6 DEF TruthInv

-----------------------------------------------------------------------------
\* The claims of the lists a step makes.

LEMMA UpdatedOwn ==
    ASSUME NEW l \in Seq(Messages), NEW u, u.op \in AnswerOps, u.op = "chunks" => u.text \in Texts,
           NEW c, l # <<>>, Own(l[Len(l)], c)
    PROVE  LET r == UpdateLastAssistantMessage(l, u) IN
           /\ r # <<>> /\ Own(r[Len(r)], c) /\ r[Len(r)] = UpdateAnswer(l[Len(l)], u)
           /\ l[Len(l)] \in Messages
<1> DEFINE r == UpdateLastAssistantMessage(l, u)
<1>1. /\ r \in Seq(Messages) /\ Len(r) = Len(l) /\ Len(l) \in Nat
      /\ \A i \in 1 .. Len(l) :
             /\ Key(r[i]) = Key(l[i]) /\ l[i] \in Messages
             /\ i = Len(l) /\ IsAnswer(l[i]) => r[i] = UpdateAnswer(l[i], u)
    BY UpdatedOutline
<1> HIDE DEF r
<1>2. Len(l) \in 1 .. Len(l)
    BY <1>1
<1>3. r[Len(l)] = UpdateAnswer(l[Len(l)], u)
    BY <1>1, <1>2 DEF Own
<1>4. Key(r[Len(l)]) = Key(l[Len(l)])
    BY <1>1, <1>2
<1>5. Own(r[Len(l)], c)
    BY <1>4, KeyParts DEF Own
<1>6. r # <<>>
    BY <1>1, <1>2
<1> QED
    BY <1>1, <1>2, <1>3, <1>5, <1>6 DEF r

LEMMA HeardGenuine ==
    ASSUME Types, AnswerInv, TextInv, Busy, generation \in Gens,
           Genuine(View, cut, received, done, mode, swallowed)
    PROVE  Genuine(Heard(View), cut, received, done, mode, swallowed)
<1>1. CASE pending.text = NoText
    BY <1>1 DEF Heard
<1>2. CASE pending.text # NoText
    <2>1. Heard(View) = UpdateLastAssistantMessage(View, Chunk)
        BY <1>2 DEF Heard
    <2>2. Chunk.op = "chunks" /\ Chunk.text = pending.text /\ Chunk.op \in AnswerOps
        BY DEF Chunk, AnswerOps
    <2>3. pending.text \in Texts /\ View \in Seq(Messages)
        BY PageFacts DEF Types, ChunkTypes
    <2>4. ASSUME View # <<>>, Own(View[Len(View)], cut)
          PROVE  LET m == UpdateAnswer(View[Len(View)], Chunk) IN
                 Told(m, cut, received, done, swallowed) /\ Drawn(m, cut, done, mode)
        <3> DEFINE v == Heard(View)
                   m == v[Len(v)]
        <3>1. v # <<>> /\ Own(m, cut) /\ m = UpdateAnswer(View[Len(View)], Chunk)
            BY <2>1, <2>2, <2>3, <2>4, UpdatedOwn
        <3>2. /\ m.gen = generation /\ IsPending(m)
              /\ \A ch \in Channels : Full(m.text[ch], received[generation][ch], generation \in swallowed)
            BY <3>1, HeardFull
        <3> HIDE DEF m
        <3>3. m.status # "complete"
            BY <3>2 DEF IsPending
        <3>4. Told(m, cut, received, done, swallowed) /\ Drawn(m, cut, done, mode)
            BY <3>2, <3>3 DEF Told, Drawn, Full
        <3> QED
            BY <3>1, <3>4
    <2> QED
        BY <2>1, <2>2, <2>3, <2>4, UpdatedGenuine
<1> QED
    BY <1>1, <1>2

\* What is queued of a list without updates.
LEMMA FlushesTrue ==
    ASSUME Types, Types', AnswerInv, CountInv, BusyInv, TextInv, TruthInv, Flushes,
           swallowed' = swallowed
    PROVE  TruthInv'
<1>1. /\ Tells(Heard(View), Heard(messages)) /\ Busy /\ generation \in Gens /\ Left' = Left
      /\ UNCHANGED <<cut, received, done, mode>>
    BY DEF Flushes, Tells
<1>2. Genuine(Heard(View), cut, received, done, mode, swallowed)
    BY <1>1, HeardGenuine DEF TruthInv, Lists
<1>3. updates = <<>> => Heard(messages) = Heard(View)
    BY NothingQueued
<1>4. Lists' \subseteq Lists \cup {Heard(View)}
    BY <1>1, <1>3, TellLists
<1>5. Still
    BY MovesStill
<1>6. \A l \in Lists' : l \in Lists \/ Genuine(l, cut', received', done', mode', swallowed')
    BY <1>1, <1>2, <1>4
<1> QED
    BY <1>1, <1>5, <1>6, TrueFrom

\* The last answer at the end of its request.
LEMMA EndedAnswer ==
    ASSUME Types, RequestInv, NEW m \in Messages, m.gen = generation, IsPending(m), ~m.image,
           \A ch \in Channels : Full(m.text[ch], received[generation][ch], generation \in swallowed),
           NEW o, \/ o = "complete" /\ EndsComplete
                  \/ o = "error" /\ EndsWithError
                  \/ o = "answer" /\ EndsWithReply
                  \/ o = "image" /\ EndsWithImage
    PROVE  LET n == UpdateAnswer(m, Ending(o)) IN
           Told(n, cut, received', done', swallowed) /\ Drawn(n, cut, done', mode)
<1> DEFINE n == UpdateAnswer(m, Ending(o))
<1>0. Ending(o).op = o
    BY DEF Ending
<1>1. CASE o = "complete"
    <2>1. EndsComplete
        BY <1>1
    <2>2. ~IsFinal(m)
        BY DEF IsFinal, IsPending
    <2>3. n = CompleteAssistantMessage(m)
        BY <1>0, <1>1, <2>2 DEF UpdateAnswer
    <2>4. n.text = m.text /\ n.gen = m.gen /\ ~n.image
        BY <2>3 DEF CompleteAssistantMessage, Messages
    <2>5. received' = received /\ mode[generation] # "image"
        BY <2>1 DEF EndsComplete, RequestInv
    <2> HIDE DEF n
    <2>9. Told(n, cut, received', done', swallowed) /\ Drawn(n, cut, done', mode)
        BY <2>4, <2>5 DEF Told, Drawn, Full
    <2> QED
        BY <2>9 DEF n
<1>2. CASE o = "error"
    <2>1. n = [m EXCEPT !.status = "error", !.text["content"] = <<ErrorPiece>>]
        BY <1>0, <1>2 DEF UpdateAnswer
    <2>2. n.status = "error"
        BY <2>1 DEF Messages
    <2> HIDE DEF n
    <2>9. Told(n, cut, received', done', swallowed) /\ Drawn(n, cut, done', mode)
        BY <2>2 DEF Told, Drawn, Claims, Unedited
    <2> QED
        BY <2>9 DEF n
<1>3. CASE o = "answer"
    <2>1. EndsWithReply
        BY <1>3
    <2>2. n = CompleteAssistantMessage([m EXCEPT !.text = ReplyText])
        BY <1>0, <1>3 DEF UpdateAnswer
    <2>3. n.text = ReplyText /\ n.gen = m.gen /\ ~n.image
        BY <2>2 DEF CompleteAssistantMessage, Messages
    <2>4. /\ mode[generation] # "image" /\ generation \in requests
          /\ received' = [received EXCEPT ![generation]["content"] = 1] /\ generation \in Gens
        BY <2>1 DEF EndsWithReply, Ends, Tells
    <2>5. received \in Counts /\ received[generation] \in [Channels -> Nat]
        BY <2>4, CountTypes DEF Counts
    <2>6. received'[generation] = [received[generation] EXCEPT !["content"] = 1]
        BY <2>4, <2>5 DEF Counts
    <2>l. (generation \in swallowed) \in BOOLEAN
        OBVIOUS
    <2>7. ASSUME NEW ch \in Channels
          PROVE  Full(n.text[ch], received'[generation][ch], generation \in swallowed)
        <3>1. CASE ch = "content"
            <4>1. n.text[ch] = <<1>>
                BY <2>3, <3>1 DEF ReplyText, NoText
            <4>2. received'[generation][ch] = 1
                BY <2>5, <2>6, <3>1
            <4>3. <<1>> \in Seq(Int) /\ Len(<<1>>) = 1 /\ \A i \in 1 .. 1 : <<1>>[i] = i
                OBVIOUS
            <4>4. InOrder(<<1>>, 1)
                BY <4>3 DEF InOrder
            <4>5. Full(<<1>>, 1, generation \in swallowed)
                BY <2>l, <4>3, <4>4, WholeIsFull
            <4> QED
                BY <4>1, <4>2, <4>5
        <3>2. CASE ch # "content"
            <4>1. n.text[ch] = <<>>
                BY <2>3, <3>2 DEF ReplyText, NoText
            <4>2. received'[generation][ch] = 0
                BY <2>4, <2>5, <2>6, <3>2 DEF RequestInv
            <4>3. <<>> \in Seq(Int) /\ InOrder(<<>>, 0) /\ Len(<<>>) = 0
                BY DEF InOrder
            <4>4. Full(<<>>, 0, generation \in swallowed)
                BY <2>l, <4>3, WholeIsFull
            <4> QED
                BY <4>1, <4>2, <4>4
        <3> QED
            BY <3>1, <3>2
    <2> HIDE DEF n
    <2>9. Told(n, cut, received', done', swallowed) /\ Drawn(n, cut, done', mode)
        BY <2>3, <2>4, <2>7 DEF Told, Drawn, Full
    <2> QED
        BY <2>9 DEF n
<1>4. CASE o = "image"
    <2>1. EndsWithImage
        BY <1>4
    <2>2. n = [m EXCEPT !.status = "complete", !.image = TRUE]
        BY <1>0, <1>4 DEF UpdateAnswer
    <2>3. n.text = m.text /\ n.gen = m.gen /\ n.image
        BY <2>2 DEF Messages
    <2>4. received' = received /\ mode[generation] = "image"
        BY <2>1 DEF EndsWithImage
    <2> HIDE DEF n
    <2>9. Told(n, cut, received', done', swallowed) /\ Drawn(n, cut, done', mode)
        BY <2>3, <2>4 DEF Told, Drawn, Full
    <2> QED
        BY <2>9 DEF n
<1> QED
    BY <1>1, <1>2, <1>3, <1>4

LEMMA EndsTrue ==
    ASSUME Types, Types', AnswerInv, RequestInv, CountInv, BusyInv, TextInv, TruthInv, EndsSomehow,
           swallowed' = swallowed
    PROVE  TruthInv'
<1>1. PICK o \in EndingOps : /\ Ends(o)
                             /\ \/ o = "complete" /\ EndsComplete
                                \/ o = "error" /\ EndsWithError
                                \/ o = "answer" /\ EndsWithReply
                                \/ o = "image" /\ EndsWithImage
    BY DEF EndsSomehow, EndsComplete, EndsWithError, EndsWithReply, EndsWithImage, EndingOps
<1> DEFINE w == Heard(View)
           v == UpdateLastAssistantMessage(w, Ending(o))
           k == IF pending.text = NoText THEN UpdateLastAssistantMessage(messages, Ending(o))
                ELSE Heard(messages)
<1>2. /\ Tells(v, k) /\ Busy /\ generation \in Gens /\ Left' = Left
      /\ UNCHANGED <<cut, mode>>
    BY <1>1 DEF Ends, Tells
<1>3. Brings
    BY EndsBrings
<1>4. Genuine(w, cut, received, done, mode, swallowed)
    BY <1>2, HeardGenuine DEF TruthInv, Lists
<1>5. w \in Seq(Messages) /\ StillPending(w, cut, generation)
    BY <1>2, HeardOpen, PageFacts DEF AnswerInv, LiveInv
<1>6. Genuine(w, cut', received', done', mode', swallowed')
    BY <1>3, <1>4, <1>5, BroughtTrue DEF Genuine
<1>7. Ending(o).op \in AnswerOps /\ Ending(o).op # "chunks"
    BY DEF Ending, EndingOps, AnswerOps
<1>8. ASSUME w # <<>>, Own(w[Len(w)], cut)
      PROVE  LET n == UpdateAnswer(w[Len(w)], Ending(o)) IN
             Told(n, cut, received', done', swallowed) /\ Drawn(n, cut, done', mode)
    <2>1. LET m == w[Len(w)] IN
          /\ m \in Messages /\ m.gen = generation /\ IsPending(m) /\ ~m.image
          /\ \A ch \in Channels : Full(m.text[ch], received[generation][ch], generation \in swallowed)
        BY <1>2, <1>8, HeardFull
    <2> HIDE DEF w
    <2> QED
        BY <1>1, <2>1, EndedAnswer
<1>9. Genuine(v, cut', received', done', mode', swallowed')
    <2> HIDE DEF w
    <2>1. Genuine(w, cut, received', done', mode, swallowed)
        BY <1>2, <1>6
    <2>2. Genuine(v, cut, received', done', mode, swallowed)
        BY <1>5, <1>7, <1>8, <2>1, UpdatedGenuine
    <2> QED
        BY <1>2, <2>2
<1>10. updates = <<>> => k \in {v, w}
    BY NothingQueued DEF Heard
<1>11. Lists' \subseteq Lists \cup {v, w}
    <2> HIDE DEF v, w, k
    <2> QED
        BY <1>2, <1>10, TellLists
<1>12. \A l \in Lists' : l \in Lists \/ Genuine(l, cut', received', done', mode', swallowed')
    <2> HIDE DEF v, w
    <2> QED
        BY <1>6, <1>9, <1>11
<1> QED
    BY <1>2, <1>3, <1>12, TrueFrom

\* A render of messages that were there, new ones and edited ones.
LEMMA DisplayTrue ==
    ASSUME Types, Types', CountInv, BusyInv, TruthInv, Still, swallowed' = swallowed,
           NEW l, Displays(l), Left' = Left, Submitted' = Submitted,
           NEW a \in Lists, NEW g \in Gens, From(l, a, g)
    PROVE  TruthInv'
<1>1. Lists' \subseteq Lists \cup {l}
    BY DisplayLists
<1>2. Genuine(a, cut', received', done', mode', swallowed')
    BY StillTrue
<1>3. received' \in Counts
    BY CountTypes DEF Still
<1>4. Genuine(l, cut', received', done', mode', swallowed')
    BY <1>2, <1>3, FromGenuine
<1>5. \A b \in Lists' : b \in Lists \/ Genuine(b, cut', received', done', mode', swallowed')
    BY <1>1, <1>4
<1> QED
    BY <1>5, TrueFrom

LEMMA RendersTrue ==
    ASSUME Types, Types', AnswerInv, CountInv, BusyInv, TruthInv,
           Renders \/ Deletes \/ Edits \/ Clears, swallowed' = swallowed
    PROVE  TruthInv'
<1>1. Still /\ Left' = Left /\ Submitted' = Submitted
    BY MovesStill DEF Renders, Deletes, Edits, Clears, SameRequest
<1>2. messages \in Lists /\ View \in Lists /\ messages \in Seq(Messages) /\ View \in Seq(Messages)
    BY PageFacts DEF Lists
<1>3. \A i \in 1 .. Len(messages) : messages[i].gen \in Gens
    BY <1>2, ElementOfSeq, MessageFields
<1>4. CASE Renders
    <2>1. Lists' \subseteq Lists \cup {View}
        BY <1>1, <1>4, DisplayLists DEF Renders
    <2>2. \A l \in Lists' : l \in Lists
        BY <1>2, <2>1
    <2> QED
        BY <1>1, <2>2, TrueFrom
<1>5. CASE Clears
    <2>1. Lists' \subseteq Lists \cup {<<>>}
        BY <1>1, <1>5, DisplayLists DEF Clears
    <2>2. Genuine(<<>>, cut', received', done', mode', swallowed')
        BY DEF Genuine, AllTold, AllDrawn
    <2>3. \A l \in Lists' : l \in Lists \/ Genuine(l, cut', received', done', mode', swallowed')
        BY <2>1, <2>2
    <2> QED
        BY <1>1, <2>3, TrueFrom
<1>6. CASE Deletes
    <2>1. PICK i \in 1 .. Len(messages) : Displays(RemoveMessageByKey(View, Key(messages[i])))
        BY <1>6 DEF Deletes
    <2>2. From(RemoveMessageByKey(View, Key(messages[i])), View, messages[i].gen)
        BY <1>2, RemovedFrom
    <2>3. messages[i].gen \in Gens
        BY <1>3
    <2> QED
        BY <1>1, <1>2, <2>1, <2>2, <2>3, DisplayTrue
<1>7. CASE Edits
    <2>1. PICK i \in 1 .. Len(messages) : Displays(EditMessage(messages, i))
        BY <1>7 DEF Edits
    <2>2. From(EditMessage(messages, i), messages, messages[i].gen)
        BY <1>2, EditedFrom
    <2>3. messages[i].gen \in Gens
        BY <1>3
    <2> QED
        BY <1>1, <1>2, <2>1, <2>2, <2>3, DisplayTrue
<1> QED
    BY <1>4, <1>5, <1>6, <1>7

LEMMA AsksTrue ==
    ASSUME Types, Types', AnswerInv, CountInv, BusyInv, TruthInv, Sends \/ Converts,
           swallowed' = swallowed
    PROVE  TruthInv'
<1> DEFINE g == generation + 1
<1>1. Still /\ Left' = Left /\ g \in Gens
    BY MovesStill DEF Sends, Converts, Asks, Begins
<1>2. messages \in Lists /\ messages \in Seq(Messages) /\ \A l \in Submitted : l \in Seq(Messages)
    BY PageFacts DEF Lists
<1>3. CASE Converts
    <2>1. PICK a \in Submitted, image \in BOOLEAN :
              LET l == AppendUserMessagePair(a, g, image) IN
              View' = l /\ Kept' = l /\ latest' \in {latest, l}
        BY <1>3 DEF Converts
    <2> DEFINE l == AppendUserMessagePair(a, g, image)
    <2>2. Submitted' \subseteq Submitted /\ messages' = messages
        BY <1>3 DEF Converts
    <2>3. From(l, a, g)
        BY <1>1, <1>2, PairFrom
    <2> HIDE DEF l, g
    <2>4. Lists' \subseteq Lists \cup {l}
        BY <2>1, <2>2 DEF Lists, l
    <2>5. Genuine(a, cut', received', done', mode', swallowed')
        BY <1>1, StillTrue DEF Lists
    <2>6. received' \in Counts
        BY <1>1, CountTypes DEF Still
    <2>7. Genuine(l, cut', received', done', mode', swallowed')
        BY <1>1, <2>3, <2>5, <2>6, FromGenuine
    <2>8. \A b \in Lists' : b \in Lists \/ Genuine(b, cut', received', done', mode', swallowed')
        BY <2>4, <2>7
    <2> QED
        BY <1>1, <2>8, TrueFrom
<1>4. CASE Sends
    <2>c. Submitted' = Submitted
        BY <1>4 DEF Sends
    <2>1. CASE Displays(AppendUserMessagePair(messages, g, FALSE))
        <3>1. From(AppendUserMessagePair(messages, g, FALSE), messages, g)
            BY <1>1, <1>2, PairFrom
        <3> HIDE DEF g
        <3> QED
            BY <1>1, <1>2, <2>1, <2>c, <3>1, DisplayTrue
    <2>2. ASSUME NEW i \in 1 .. Len(messages), Displays(CreateRegeneratedMessages(messages, i, g))
          PROVE  TruthInv'
        <3>1. From(CreateRegeneratedMessages(messages, i, g), messages, g)
            BY <1>1, <1>2, FromSelf, RegeneratedFrom
        <3> HIDE DEF g
        <3> QED
            BY <1>1, <1>2, <2>2, <2>c, <3>1, DisplayTrue
    <2>3. ASSUME NEW i \in 1 .. Len(messages),
                 Displays(CreateRegeneratedMessages(EditMessage(messages, i), i, g))
          PROVE  TruthInv'
        <3> DEFINE e == EditMessage(messages, i)
        <3>1. From(e, messages, g) /\ e \in Seq(Messages) /\ i \in 1 .. Len(e)
            BY <1>2, EditedFrom, EditOutline DEF SameOutline
        <3> HIDE DEF e, g
        <3>2. From(CreateRegeneratedMessages(e, i, g), messages, g)
            BY <1>1, <3>1, RegeneratedFrom
        <3>3. Displays(CreateRegeneratedMessages(e, i, g))
            BY <2>3 DEF e
        <3> QED
            BY <1>1, <1>2, <2>c, <3>2, <3>3, DisplayTrue
    <2> QED
        BY <1>4, <2>1, <2>2, <2>3 DEF Sends
<1> QED
    BY <1>3, <1>4

\* A pending answer that is stopped claims no more than before, for its
\* generation is not done.
LEMMA StoppedTrue ==
    ASSUME NEW l \in Seq(Messages), NEW c, NEW sw, NEW rc, NEW dn, NEW md, Genuine(l, c, rc, dn, md, sw),
           l # <<>> /\ Open(l[Len(l)], c) => l[Len(l)].gen \notin dn
    PROVE  Genuine(UpdateLastAssistantMessage(l, Stop), c, rc, dn, md, sw)
<1> DEFINE m == l[Len(l)]
           n == UpdateAnswer(m, Stop)
<1>1. Stop.op = "stopped" /\ Stop.op \in AnswerOps
    BY DEF Stop, AnswerOps
<1>2. ASSUME l # <<>>, Own(m, c) PROVE Told(n, c, rc, dn, sw) /\ Drawn(n, c, dn, md)
    <2>1. Len(l) \in 1 .. Len(l)
        BY <1>2
    <2>2. m \in Messages /\ Told(m, c, rc, dn, sw) /\ Drawn(m, c, dn, md)
        BY <2>1, ElementOfSeq DEF Genuine, AllTold, AllDrawn
    <2>3. CASE ~IsPending(m)
        <3>1. n = m
            BY <1>1, <2>3 DEF UpdateAnswer
        <3> QED
            BY <2>2, <3>1
    <2>4. CASE IsPending(m)
        <3>1. n = CompleteAssistantMessage(m)
            BY <1>1, <2>4 DEF UpdateAnswer
        <3>2. m.gen \notin dn
            BY <1>2, <2>4 DEF Open, Own
        <3> HIDE DEF m, n
        <3>3. n.text = m.text /\ n.gen = m.gen /\ n.from = m.from
            BY <2>2, <3>1 DEF CompleteAssistantMessage, Messages
        <3>4. Claims(n, c) => Claims(m, c)
            BY <2>4, <3>3 DEF Claims, Unedited, Edited, IsAnswer, IsPending
        <3> QED
            BY <2>2, <3>2, <3>3, <3>4 DEF Told, Drawn
    <2> QED
        BY <2>3, <2>4
<1> QED
    BY <1>1, <1>2, UpdatedGenuine

LEMMA StopsTrue ==
    ASSUME Types, Types', Ctl, ChunkInv, AnswerInv, CountInv, BusyInv, TextInv, TruthInv, Stops,
           swallowed' = swallowed
    PROVE  TruthInv'
<1>1. /\ Still /\ Left' = Left /\ Submitted' = Submitted /\ CutQueue /\ mounted
      /\ done' = done /\ cut \subseteq cut'
    BY MovesStill DEF Stops, Begins, Still
<1>2. ASSUME NEW l \in Seq(Messages), Genuine(l, cut', received', done', mode', swallowed'),
             Displays(UpdateLastAssistantMessage(l, Stop)),
             l # <<>> /\ Open(l[Len(l)], cut') => l[Len(l)].gen \notin done'
      PROVE  TruthInv'
    <2> DEFINE r == UpdateLastAssistantMessage(l, Stop)
    <2>1. Genuine(r, cut', received', done', mode', swallowed')
        BY <1>2, StoppedTrue
    <2>2. Lists' \subseteq Lists \cup {r}
        BY <1>1, <1>2, DisplayLists
    <2> HIDE DEF r
    <2>3. \A b \in Lists' : b \in Lists \/ Genuine(b, cut', received', done', mode', swallowed')
        BY <2>1, <2>2
    <2> QED
        BY <1>1, <2>3, TrueFrom
<1>3. CASE Displays(UpdateLastAssistantMessage(Kept, Stop))
    <2>1. Kept \in Seq(Messages) /\ Kept \in Lists
        BY PageFacts DEF Lists
    <2>2. Genuine(Kept, cut', received', done', mode', swallowed')
        BY <1>1, <2>1, StillTrue
    <2>3. ASSUME Kept # <<>>, Open(Kept[Len(Kept)], cut') PROVE Kept[Len(Kept)].gen \notin done'
        <3>1. Len(Kept) \in 1 .. Len(Kept) /\ Open(Kept[Len(Kept)], cut)
            BY <1>1, <2>1, <2>3 DEF Open
        <3>2. Kept[Len(Kept)].gen = generation
            BY <1>1, <3>1 DEF AnswerInv, OpenInv, OpenNow
        <3>3. generation \notin cut'
            BY <2>3, <3>2 DEF Open
        <3>4. updates = <<>>
            BY <1>1, <3>3, CutFacts
        <3>5. View = Kept
            BY <3>4, NothingQueued
        <3>6. Busy
            BY <1>1, <3>1, <3>5 DEF AnswerInv, OpenInv, NoneOpen
        <3> QED
            BY <1>1, <3>2, <3>6 DEF CountInv
    <2> QED
        BY <1>2, <1>3, <2>1, <2>2, <2>3
<1>4. CASE /\ updates = <<>> /\ pending.text # NoText
           /\ Displays(UpdateLastAssistantMessage(Heard(messages), Stop))
    <2> DEFINE w == Heard(View)
    <2>1. Heard(messages) = w
        BY <1>4, NothingQueued
    <2>2. source = generation
        BY <1>4 DEF ChunkInv
    <2>3. Busy /\ generation \in Gens
        <3>1. Busy /\ source # None
            BY <2>2, PageFacts DEF Ctl, Busy, None
        <3> QED
            BY <2>2, <3>1 DEF Types, RequestTypes
    <2>4. Genuine(w, cut, received, done, mode, swallowed)
        BY <2>3, HeardGenuine DEF TruthInv, Lists
    <2>5. w \in Seq(Messages)
        BY <2>3, HeardOpen, PageFacts
    <2>6. Genuine(w, cut', received', done', mode', swallowed')
        BY <1>1, <2>4, <2>5, StillList DEF Genuine
    <2>7. ASSUME w # <<>>, Open(w[Len(w)], cut') PROVE w[Len(w)].gen \notin done'
        <3>1. Own(w[Len(w)], cut)
            BY <1>1, <2>7 DEF Open, Own, IsPending
        <3>2. w[Len(w)].gen = generation
            BY <2>3, <2>7, <3>1, HeardFull
        <3> QED
            BY <1>1, <2>3, <3>2 DEF CountInv
    <2> HIDE DEF w
    <2> QED
        BY <1>2, <1>4, <2>1, <2>5, <2>6, <2>7
<1> QED
    BY <1>3, <1>4 DEF Stops

\* A page that is loaded shows what was stored, without images.
LEMMA LoadsTrue ==
    ASSUME Types, Types', AnswerInv, SaveInv, CountInv, BusyInv, TruthInv, Loads,
           swallowed' = swallowed
    PROVE  TruthInv'
<1> DEFINE l == Loaded(stored)
<1>1. /\ Still /\ UNCHANGED <<mode, received, cut>> /\ done' \subseteq done
      /\ messages' = l /\ latest' = l /\ View' = l /\ Kept' = l /\ Submitted' = {}
      /\ Left' \subseteq Left \cup {Saved(l)}
    BY MovesStill DEF Loads, Still
<1>2. \A i \in 1 .. Len(stored) : stored[i].gen \in done' => ~OlderInStorage(stored[i])
    BY DEF Loads
<1>3. \A i \in 1 .. Len(stored) :
          stored[i].gen \in done' => ~IsPending(stored[i]) /\ mode[stored[i].gen] # "image"
    BY <1>2 DEF OlderInStorage
<1>4. stored \in Seq(Messages) /\ Saved(stored) = stored /\ stored \in Left
    BY PageFacts DEF SaveInv, Left
<1>5. \A j \in 1 .. Len(stored) : ~stored[j].image
    BY <1>4, SavedTold
<1>6. Genuine(l, cut, received, done', mode, swallowed)
    BY <1>1, <1>3, <1>4, <1>5, LoadedGenuine DEF TruthInv
<1> HIDE DEF l
<1>7. Lists' = {l}
    BY <1>1 DEF Lists
<1>8. \A b \in Lists' : b \in Lists \/ Genuine(b, cut', received', done', mode', swallowed')
    BY <1>1, <1>6, <1>7
<1>9. \A b \in Left' : b \in Left \/ \E a \in Lists \cup Left \cup Lists' : b = Saved(a)
    BY <1>1, <1>7
<1> QED
    BY <1>1, <1>8, <1>9, TrueFrom

LEMMA LeavesTrue ==
    ASSUME Types, Types', AnswerInv, CountInv, BusyInv, TruthInv, Leaves, swallowed' = swallowed
    PROVE  TruthInv'
<1> DEFINE g == generation + 1
<1>1. /\ Still /\ UNCHANGED <<messages, latest>> /\ View' = messages /\ Kept' = messages
      /\ Submitted' = {} /\ g \in Gens
      /\ \A l \in Left' : \/ l \in Left \cup {Saved(latest)}
                          \/ \E list \in Submitted, image \in BOOLEAN :
                                 l = AppendUserMessagePair(list, g, image)
    BY MovesStill DEF Leaves
<1>2. \A l \in Lists' : l \in Lists
    BY <1>1 DEF Lists
<1>3. received' \in Counts
    BY <1>1, CountTypes DEF Still
<1>4. \A l \in Submitted : l \in Seq(Messages) /\ l \in Lists
    BY PageFacts DEF Lists
<1>5. ASSUME NEW list \in Submitted, NEW image \in BOOLEAN
      PROVE  AllTold(AppendUserMessagePair(list, g, image), cut', received', done', swallowed')
    <2>1. From(AppendUserMessagePair(list, g, image), list, g)
        BY <1>1, <1>4, PairFrom
    <2>2. Genuine(list, cut', received', done', mode', swallowed')
        BY <1>1, <1>4, StillTrue
    <2> HIDE DEF g
    <2>3. Genuine(AppendUserMessagePair(list, g, image), cut', received', done', mode', swallowed')
        BY <1>1, <1>3, <2>1, <2>2, FromGenuine
    <2> QED
        BY <2>3 DEF Genuine
<1>6. latest \in Lists
    BY DEF Lists
<1> HIDE DEF g
<1>7. \A l \in Left' : \/ l \in Left \/ \E a \in Lists \cup Left \cup Lists' : l = Saved(a)
                      \/ AllTold(l, cut', received', done', swallowed')
    BY <1>1, <1>5, <1>6
<1> QED
    BY <1>1, <1>2, <1>7, TrueFrom

LEMMA RestsTrue ==
    ASSUME Types, Types', Ctl, AnswerInv, CountInv, BusyInv, TruthInv, Rests, Quiet \/ Hears,
           swallowed \subseteq swallowed'
    PROVE  TruthInv'
<1>1. Still \/ Brings
    BY MovesStill, HearsBrings
<1>2. /\ Lists' \subseteq Lists
      /\ Left' \subseteq Left \cup {Saved(latest)} \cup {Saved(l) : l \in Left}
    BY RestLists
<1>3. latest \in Lists
    BY DEF Lists
<1>4. \A l \in Left' : l \in Left \/ \E a \in Lists \cup Left \cup Lists' : l = Saved(a)
    BY <1>2, <1>3
<1> QED
    BY <1>1, <1>2, <1>4, TrueFrom

\* The invariant: requests, counts, loose streams, the pending answer, its text,
\* the claims.
FaithInv == RequestInv /\ CountInv /\ SwallowInv /\ BusyInv /\ TextInv /\ TruthInv

LEMMA NextFaith ==
    Types /\ Types' /\ Ctl /\ ChunkInv /\ SaveInv /\ AnswerInv /\ AnswerInv' /\ FaithInv /\ [Next]_vars
    => FaithInv'
<1> SUFFICES ASSUME Types, Types', Ctl, ChunkInv, SaveInv, AnswerInv, AnswerInv', FaithInv, [Next]_vars
             PROVE  FaithInv'
    OBVIOUS
<1>1. Moves
    BY MovesCover
<1>s. (Rests /\ Hears) \/ (Moves /\ swallowed' = swallowed)
    BY SwallowCover
<1>2. RequestInv /\ CountInv /\ SwallowInv /\ BusyInv /\ TextInv /\ TruthInv
    BY DEF FaithInv
<1>b. Still \/ Brings
    BY <1>1, <1>2, MovesStill, HearsBrings, EndsBrings DEF Moves, EndsSomehow
<1>3. RequestInv'
    BY <1>2, NextRequestInv
<1>4. CountInv'
    BY <1>2, <1>b, NextCountInv
<1>w. SwallowInv' /\ swallowed \subseteq swallowed'
    BY <1>2, <1>b, <1>s, NextSwallowInv
<1>5. BusyInv'
    BY <1>1, <1>2, NextBusyInv
<1>6. TextInv'
    BY <1>2, <1>s, NextTextInv
<1>7. TruthInv'
    <2>1. CASE Rests /\ Hears
        BY <1>2, <1>w, <2>1, RestsTrue
    <2>2. CASE Moves /\ swallowed' = swallowed
        BY <1>2, <1>w, <2>2, RestsTrue, FlushesTrue, EndsTrue, RendersTrue, AsksTrue, StopsTrue,
           LoadsTrue, LeavesTrue DEF Moves, EndsSomehow
    <2> QED
        BY <1>s, <2>1, <2>2
<1> QED
    BY <1>3, <1>4, <1>w, <1>5, <1>6, <1>7 DEF FaithInv

LEMMA InitFaith == Init => FaithInv
<1> SUFFICES ASSUME Init PROVE FaithInv
    OBVIOUS
<1>1. /\ messages = <<>> /\ updates = <<>> /\ latest = <<>> /\ stored = <<>> /\ converting = {}
      /\ generation = 0 /\ source = None /\ requests = {} /\ headers = {}
      /\ ~isStreaming /\ ~isRequesting /\ done = {} /\ swallowed = {} /\ orphans = {}
      /\ received = [g \in Gens |-> [c \in Channels |-> 0]]
    BY DEF Init
<1>2. View = <<>> /\ Kept = <<>>
    BY <1>1, NothingQueued
<1>3. ~Busy
    BY <1>1 DEF Busy
<1>4. RequestInv
    BY <1>1 DEF RequestInv, None
<1>5. CountInv
    BY <1>1, <1>3 DEF CountInv
<1>s. SwallowInv
    BY <1>1 DEF SwallowInv
<1>6. BusyInv /\ TextInv
    BY <1>3 DEF BusyInv, TextInv
<1>7. TruthInv
    <2>1. \A l \in Lists \cup Left : l = <<>>
        BY <1>1, <1>2 DEF Lists, Left, Submitted
    <2> QED
        BY <2>1 DEF TruthInv, Genuine, AllTold, AllDrawn
<1> QED
    BY <1>4, <1>5, <1>s, <1>6, <1>7 DEF FaithInv

LEMMA FaithShows == Types /\ FaithInv => AnswerFaithful
<1> SUFFICES ASSUME Types, FaithInv, NEW i \in 1 .. Len(messages), IsAnswer(messages[i]),
                    Unedited(messages[i]), messages[i].gen \notin cut
             PROVE  Shows(messages[i])
    BY DEF AnswerFaithful
<1> DEFINE m == messages[i]
<1>1. Genuine(messages, cut, received, done, mode, swallowed)
    BY DEF FaithInv, TruthInv, Lists
<1>2. Told(m, cut, received, done, swallowed) /\ Drawn(m, cut, done, mode)
    BY <1>1 DEF Genuine, AllTold, AllDrawn
<1>3. Claims(m, cut)
    BY DEF Claims
<1>4. m \in Messages
    BY PageFacts, ElementOfSeq
<1> HIDE DEF m
<1>5. ASSUME NEW ch \in Channels
      PROVE  /\ Ascending(m.text[ch], received[m.gen][ch])
             /\ m.gen \notin swallowed => InOrder(m.text[ch], received[m.gen][ch])
             /\ m.status = "complete" /\ m.gen \in done /\ m.gen \notin swallowed =>
                    Len(m.text[ch]) = received[m.gen][ch]
    <2>1. m.text[ch] \in Seq(Int) /\ received[m.gen][ch] \in Int
        BY <1>4, MessageFields, CountTypes
    <2>2. /\ Fits(m.text[ch], received[m.gen][ch], m.gen \in swallowed)
          /\ m.status = "complete" /\ m.gen \in done =>
                 Full(m.text[ch], received[m.gen][ch], m.gen \in swallowed)
        BY <1>2, <1>3 DEF Told
    <2>3. CASE m.gen \in swallowed
        BY <2>2, <2>3 DEF Fits
    <2>4. CASE m.gen \notin swallowed
        <3>1. InOrder(m.text[ch], received[m.gen][ch])
            BY <2>2, <2>4 DEF Fits
        <3>2. Ascending(m.text[ch], received[m.gen][ch])
            BY <2>1, <3>1, InOrderAscends
        <3> QED
            BY <2>2, <2>4, <3>1, <3>2 DEF Full
    <2> QED
        BY <2>3, <2>4
<1>6. m.status = "complete" /\ m.gen \in done => (m.image <=> mode[m.gen] = "image")
    BY <1>2, <1>3 DEF Drawn
<1>7. Shows(m)
    BY <1>5, <1>6 DEF Shows
<1> QED
    BY <1>7 DEF m

\* An answer shows what its own request received, on its channel and in order,
\* no piece twice and none of another answer, whether the provider sends deltas
\* or snapshots, whatever letters repeat, and however messages, flushes, renders,
\* clicks, saves and loads interleave. Every piece is there, and all that came
\* once the answer is complete, but for the streams in which a delta began with
\* all of the buffered text, or the buffer with all of the shown text
\* (mergePendingStreamChunk, getAppendableChunk, flushStreamUpdates,
\* handleStreamComplete).
THEOREM AnswerFaithfulCorrect == Spec => []AnswerFaithful
<1>1. Types /\ Ctl /\ ChunkInv /\ SaveInv /\ AnswerInv /\ FaithInv /\ [Next]_vars
      => (Types /\ Ctl /\ ChunkInv /\ SaveInv /\ AnswerInv /\ FaithInv)'
    BY NextTypes, NextCtl, NextChunkInv, NextSaveInv, NextAnswers, NextFaith
<1>2. QED
    BY <1>1, InitTypes, InitCtl, InitSaveInv, InitAnswers, InitFaith, FaithShows, PTL DEF Spec
=============================================================================
