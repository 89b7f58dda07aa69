-------------------------- MODULE ToolHistoryProofs --------------------------
(***************************************************************************)
(* What the operators of ToolHistory compute, for any list of messages.    *)
(*                                                                         *)
(* The facts about lists of any length are proved by induction.  The       *)
(* induction theorems of the library take an operator, which the provers   *)
(* cannot instantiate; the ones below take a set, and rest on strict       *)
(* inclusion of finite sets being well-founded.                            *)
(***************************************************************************)
EXTENDS ToolHistory, FiniteSetTheorems, WellFoundedInduction, TLAPS

\* A set of numbers that is not empty has a least one.
LEMMA LeastOf ==
  ASSUME NEW S, S \subseteq Nat, S # {}
  PROVE  \E x \in S : \A y \in S : x <= y
<1> DEFINE T == {1..x : x \in S}
<1>1. ASSUME NEW n \in Nat PROVE 1..n \in FiniteSubsetsOf(Nat)
  <2>1. IsFiniteSet(1..n) BY FS_Interval
  <2> QED BY <2>1 DEF FiniteSubsetsOf
<1>2. T \subseteq FiniteSubsetsOf(Nat) /\ T # {} BY <1>1
<1>3. PICK m \in T : \A y \in T : ~ (<<y, m>> \in StrictSubsetOrdering(Nat))
  BY <1>2, FS_StrictSubsetOrderingWellFounded, WFMin
<1>4. PICK x \in S : m = 1..x OBVIOUS
<1>5. ASSUME NEW y \in S, ~(x <= y) PROVE FALSE
  <2>1. x \in Nat /\ y \in Nat /\ y < x BY <1>5
  <2>2. 1..y \subseteq 1..x /\ x \in 1..x /\ x \notin 1..y BY <2>1
  <2>3. 1..y # 1..x BY <2>2
  <2>4. <<1..y, m>> \in StrictSubsetOrdering(Nat)
    BY <2>1, <2>2, <2>3, <1>4 DEF StrictSubsetOrdering
  <2> QED BY <1>3, <2>4
<1> QED BY <1>5

\* Induction over the numbers.
LEMMA NumberInduction ==
  ASSUME NEW S, 0 \in S, \A n \in Nat : n \in S => n + 1 \in S
  PROVE  \A n \in Nat : n \in S
<1> SUFFICES ASSUME Nat \ S # {} PROVE FALSE OBVIOUS
<1>1. PICK x \in Nat \ S : \A y \in Nat \ S : x <= y BY LeastOf
<1>2. x # 0 /\ x - 1 \in Nat /\ ~(x <= x - 1) OBVIOUS
<1>3. x - 1 \in S BY <1>1, <1>2
<1>4. (x - 1) + 1 = x OBVIOUS
<1> QED BY <1>2, <1>3, <1>4

\* Induction over the sequences, one element appended at a time.
LEMMA ListInduction ==
  ASSUME NEW M, NEW S, <<>> \in S,
         \A f \in Seq(M), m \in M : f \in S => Append(f, m) \in S
  PROVE  Seq(M) \subseteq S
<1> DEFINE T == {n \in Nat : \A h \in Seq(M) : Len(h) = n => h \in S}
<1>1. 0 \in T
  <2>1. \A h \in Seq(M) : Len(h) = 0 => h = <<>> OBVIOUS
  <2> QED BY <2>1
<1>2. ASSUME NEW n \in Nat, n \in T PROVE n + 1 \in T
  <2> SUFFICES ASSUME NEW h \in Seq(M), Len(h) = n + 1 PROVE h \in S
    OBVIOUS
  <2> DEFINE f == SubSeq(h, 1, n)
  <2>1. f \in Seq(M) /\ Len(f) = n /\ h[n + 1] \in M OBVIOUS
  <2>2. h = Append(f, h[n + 1]) OBVIOUS
  <2>3. f \in S BY <1>2, <2>1
  <2> HIDE DEF f
  <2> QED BY <2>1, <2>2, <2>3
<1> HIDE DEF T
<1>3. \A n \in Nat : n \in T BY <1>1, <1>2, NumberInduction
<1> QED BY <1>3 DEF T

-----------------------------------------------------------------------------
(* Flattening.                                                             *)

\* g holds the concatenations of the first sequences of ss.
Sums(M, ss, g) ==
  /\ g \in [0..Len(ss) -> Seq(M)]
  /\ g[0] = <<>>
  /\ \A i \in 1..Len(ss) : g[i] = g[i - 1] \o ss[i]

\* The sums of a list with one sequence more.
LEMMA SumsAppend ==
  ASSUME NEW M, NEW ss \in Seq(Seq(M)), NEW s \in Seq(M), NEW g, Sums(M, ss, g)
  PROVE  Sums(M, Append(ss, s),
              [i \in 0..(Len(ss) + 1) |-> IF i <= Len(ss) THEN g[i] ELSE g[Len(ss)] \o s])
<1> DEFINE n == Len(ss)
           t == Append(ss, s)
           k == [i \in 0..(n + 1) |-> IF i <= n THEN g[i] ELSE g[n] \o s]
<1>1. /\ n \in Nat /\ Len(t) = n + 1 /\ t[n + 1] = s
      /\ \A i \in 1..n : t[i] = ss[i]
  OBVIOUS
<1> HIDE DEF n, t
<1>2. /\ g \in [0..n -> Seq(M)] /\ g[0] = <<>>
      /\ \A i \in 1..n : g[i] = g[i - 1] \o ss[i]
  BY DEF Sums, n
<1>3. g[n] \in Seq(M) /\ g[n] \o s \in Seq(M)
  <2>1. g[n] \in Seq(M) BY <1>1, <1>2
  <2> QED BY <2>1
<1>4. k \in [0..(n + 1) -> Seq(M)] BY <1>1, <1>2, <1>3
<1>5. k[0] = <<>> BY <1>1, <1>2
<1>6. ASSUME NEW i \in 1..(n + 1) PROVE k[i] = k[i - 1] \o t[i]
  <2>1. CASE i \in 1..n
    <3>1. k[i] = g[i] /\ k[i - 1] = g[i - 1] BY <1>1, <2>1
    <3> QED BY <1>1, <1>2, <2>1, <3>1
  <2>2. CASE i = n + 1
    <3>1. k[i] = g[n] \o s /\ k[i - 1] = g[n] BY <1>1, <2>2
    <3> QED BY <1>1, <2>2, <3>1
  <2>3. i \in 1..n \/ i = n + 1 BY <1>1
  <2> HIDE DEF k
  <2> QED BY <2>1, <2>2, <2>3
<1> HIDE DEF k
<1>7. Sums(M, t, k) BY <1>1, <1>4, <1>5, <1>6 DEF Sums
<1> QED BY <1>7 DEF n, t, k

\* Every list of sequences has its sums.
LEMMA SumsExist == ASSUME NEW M, NEW ss \in Seq(Seq(M)) PROVE \E g : Sums(M, ss, g)
<1> DEFINE S == {t \in Seq(Seq(M)) : \E g : Sums(M, t, g)}
<1>1. <<>> \in S
  <2>1. Sums(M, <<>>, [i \in 0..0 |-> <<>>]) BY DEF Sums
  <2> QED BY <2>1
<1>2. \A t \in Seq(Seq(M)), s \in Seq(M) : t \in S => Append(t, s) \in S
  <2> SUFFICES ASSUME NEW t \in Seq(Seq(M)), NEW s \in Seq(M), t \in S
               PROVE  Append(t, s) \in S
    OBVIOUS
  <2>1. PICK g : Sums(M, t, g) OBVIOUS
  <2>2. \E k : Sums(M, Append(t, s), k) BY <2>1, SumsAppend
  <2>3. Append(t, s) \in Seq(Seq(M)) OBVIOUS
  <2> QED BY <2>2, <2>3
<1> HIDE DEF S
<1>3. Seq(Seq(M)) \subseteq S BY <1>1, <1>2, ListInduction
<1> QED BY <1>3 DEF S

\* FlattenSeq is the last of the sums.
LEMMA FlattenIs ==
  ASSUME NEW M, NEW ss \in Seq(Seq(M)), NEW g, Sums(M, ss, g)
  PROVE  FlattenSeq(ss) = g[Len(ss)]
<1> DEFINE n == Len(ss)
<1>0. /\ n \in Nat /\ g \in [0..n -> Seq(M)] /\ g[0] = <<>>
      /\ \A i \in 1..n : g[i] = g[i - 1] \o ss[i] /\ ss[i] \in Seq(M)
  BY DEF Sums
<1>1. CASE n = 0
  <2>1. ss = <<>> BY <1>1
  <2> QED BY <1>0, <1>1, <2>1 DEF FlattenSeq
<1>2. CASE n # 0
  <2> DEFINE fl[i \in 1..n] == IF i = 1 THEN ss[i] ELSE fl[i - 1] \o ss[i]
             k == [i \in 1..n |-> g[i]]
  <2>1. FlattenSeq(ss) = fl[n] BY <1>2 DEF FlattenSeq
  <2>2. fl = CHOOSE f : f = [i \in 1..n |-> IF i = 1 THEN ss[i] ELSE f[i - 1] \o ss[i]]
    OBVIOUS
  <2> HIDE DEF fl, n
  <2>3. k = [i \in 1..n |-> IF i = 1 THEN ss[i] ELSE k[i - 1] \o ss[i]]
    <3>1. ASSUME NEW i \in 1..n PROVE k[i] = IF i = 1 THEN ss[i] ELSE k[i - 1] \o ss[i]
      <4>1. CASE i = 1
        <5>1. i - 1 = 0 /\ k[i] = g[i] BY <4>1
        <5>2. g[i] = g[i - 1] \o ss[i] /\ ss[i] \in Seq(M) BY <1>0
        <5>3. g[i] = <<>> \o ss[i] BY <1>0, <5>1, <5>2
        <5>4. <<>> \o ss[i] = ss[i] BY <5>2
        <5> QED BY <4>1, <5>1, <5>3, <5>4
      <4>2. CASE i # 1
        <5>1. i - 1 \in 1..n BY <1>0, <4>2
        <5> QED BY <1>0, <4>2, <5>1
      <4> QED BY <4>1, <4>2
    <3> QED BY <3>1
  <2> HIDE DEF k
  <2>4. fl = [i \in 1..n |-> IF i = 1 THEN ss[i] ELSE fl[i - 1] \o ss[i]] BY <2>2, <2>3
  <2>5. \A i \in Nat : i \in {j \in Nat : j \in 1..n => fl[j] = k[j]}
    <3> DEFINE T == {j \in Nat : j \in 1..n => fl[j] = k[j]}
    <3>1. 0 \in T OBVIOUS
    <3>2. ASSUME NEW j \in Nat, j \in T PROVE j + 1 \in T
      <4> SUFFICES ASSUME j + 1 \in 1..n PROVE fl[j + 1] = k[j + 1] OBVIOUS
      <4>1. CASE j = 0 BY <2>3, <2>4, <4>1
      <4>2. CASE j # 0
        <5>1. j \in 1..n /\ (j + 1) - 1 = j /\ j + 1 # 1 BY <1>0, <4>2
        <5>2. fl[j] = k[j] BY <3>2, <5>1
        <5>3. fl[j + 1] = fl[j] \o ss[j + 1] BY <2>4, <5>1
        <5>4. k[j + 1] = k[j] \o ss[j + 1] BY <2>3, <5>1
        <5> QED BY <5>2, <5>3, <5>4
      <4> QED BY <4>1, <4>2
    <3> HIDE DEF T
    <3>3. \A j \in Nat : j \in T BY <3>1, <3>2, NumberInduction
    <3> QED BY <3>3 DEF T
  <2>6. fl[n] = k[n] /\ k[n] = g[n]
    <3>1. n \in 1..n BY <1>0, <1>2
    <3>2. n \in {j \in Nat : j \in 1..n => fl[j] = k[j]} BY <1>0, <2>5
    <3> QED BY <3>1, <3>2 DEF k
  <2> QED BY <2>1, <2>6 DEF n
<1> QED BY <1>1, <1>2

\* One more sequence is flattened behind the others.
LEMMA FlattenAppend ==
  ASSUME NEW M, NEW ss \in Seq(Seq(M)), NEW s \in Seq(M)
  PROVE  /\ FlattenSeq(ss) \in Seq(M)
         /\ FlattenSeq(Append(ss, s)) = FlattenSeq(ss) \o s
<1>1. PICK g : Sums(M, ss, g) BY SumsExist
<1> DEFINE n == Len(ss)
           k == [i \in 0..(n + 1) |-> IF i <= n THEN g[i] ELSE g[n] \o s]
<1>2. n \in Nat /\ g \in [0..n -> Seq(M)] BY <1>1 DEF Sums
<1>3. FlattenSeq(ss) = g[n] /\ g[n] \in Seq(M) BY <1>1, <1>2, FlattenIs
<1>4. Sums(M, Append(ss, s), k) BY <1>1, SumsAppend
<1>5. Append(ss, s) \in Seq(Seq(M)) /\ Len(Append(ss, s)) = n + 1 OBVIOUS
<1> HIDE DEF k
<1>6. FlattenSeq(Append(ss, s)) = k[n + 1] BY <1>4, <1>5, FlattenIs
<1>7. k[n + 1] = g[n] \o s BY <1>2 DEF k
<1> QED BY <1>3, <1>6, <1>7


-----------------------------------------------------------------------------
(* Answers.                                                                *)

\* What the repair needs to know of the messages: only assistants call, and
\* an answer can be made up for every call.
MessageSet(M, I) ==
  /\ \A m \in M :
       /\ m.role \in {"user", "assistant", "tool"}
       /\ m.calls \in Seq(I)
       /\ m.role # "assistant" => m.calls = <<>>
  /\ \A id \in I : ToolResult(id, "synthetic", FALSE) \in M

\* A result answers one id.
LEMMA ResultIs ==
  ASSUME NEW id, NEW kind, NEW guided
  PROVE  /\ ToolResult(id, kind, guided).role = "tool"
         /\ ToolResult(id, kind, guided).id = id
         /\ ToolResult(id, kind, guided).kind = kind
         /\ ToolResult(id, kind, guided).guided = guided
         /\ ToolResult(id, kind, guided).calls = <<>>
BY DEF ToolResult, Message

\* The first answer is an answer, and none comes before it.
LEMMA FirstAnswerIs ==
  ASSUME NEW M, NEW h \in Seq(M), NEW id, IsAnswered(h, id)
  PROVE  \E i \in Answers(h, id) :
           FirstAnswer(h, id) = h[i] /\ \A j \in Answers(h, id) : i <= j
<1>1. Answers(h, id) \subseteq Nat /\ Answers(h, id) # {} BY DEF Answers, IsAnswered
<1>2. \E i \in Answers(h, id) : \A j \in Answers(h, id) : i <= j BY <1>1, LeastOf
<1> QED BY <1>2 DEF FirstAnswer

\* An id is answered by its first result, or a synthetic one.
LEMMA AnswerIs ==
  ASSUME NEW M, NEW I, MessageSet(M, I), NEW h \in Seq(M), NEW id \in I
  PROVE  /\ AnswerOrSynthetic(h, id) \in M
         /\ AnswerOrSynthetic(h, id).role = "tool"
         /\ AnswerOrSynthetic(h, id).id = id
         /\ AnswerOrSynthetic(h, id).calls = <<>>
<1>1. CASE IsAnswered(h, id)
  <2>1. PICK i \in Answers(h, id) : FirstAnswer(h, id) = h[i] BY <1>1, FirstAnswerIs
  <2>2. h[i] \in M /\ h[i].role = "tool" /\ h[i].id = id BY DEF Answers
  <2>3. h[i].calls = <<>> BY <2>2 DEF MessageSet
  <2> QED BY <1>1, <2>1, <2>2, <2>3 DEF AnswerOrSynthetic
<1>2. CASE ~IsAnswered(h, id)
  <2>1. AnswerOrSynthetic(h, id) = ToolResult(id, "synthetic", FALSE)
    BY <1>2 DEF AnswerOrSynthetic
  <2>2. ToolResult(id, "synthetic", FALSE) \in M BY DEF MessageSet
  <2>3. /\ ToolResult(id, "synthetic", FALSE).role = "tool"
        /\ ToolResult(id, "synthetic", FALSE).id = id
        /\ ToolResult(id, "synthetic", FALSE).calls = <<>>
    BY DEF ToolResult, Message
  <2> QED BY <2>1, <2>2, <2>3
<1> QED BY <1>1, <1>2

\* What is appended behind an answer does not change it.
LEMMA FirstAnswerStays ==
  ASSUME NEW M, NEW h \in Seq(M), NEW t \in Seq(M), NEW id, IsAnswered(h, id)
  PROVE  IsAnswered(h \o t, id) /\ FirstAnswer(h \o t, id) = FirstAnswer(h, id)
<1>1. PICK i \in Answers(h, id) :
        FirstAnswer(h, id) = h[i] /\ \A j \in Answers(h, id) : i <= j
  BY FirstAnswerIs
<1>2. \A j \in DOMAIN h : j \in DOMAIN (h \o t) /\ (h \o t)[j] = h[j] OBVIOUS
<1>3. i \in Answers(h \o t, id) BY <1>2 DEF Answers
<1>4. IsAnswered(h \o t, id) BY <1>3 DEF IsAnswered
<1>5. h \o t \in Seq(M) OBVIOUS
<1>6. PICK k \in Answers(h \o t, id) :
        FirstAnswer(h \o t, id) = (h \o t)[k] /\ \A j \in Answers(h \o t, id) : k <= j
  BY <1>4, <1>5, FirstAnswerIs
<1>7. i \in 1..Len(h) /\ k \in 1..Len(h \o t) /\ k <= i BY <1>3, <1>6 DEF Answers
<1>8. k \in DOMAIN h BY <1>7
<1>9. k \in Answers(h, id) BY <1>2, <1>8 DEF Answers
<1>10. k = i BY <1>1, <1>7, <1>9
<1> QED BY <1>1, <1>2, <1>4, <1>6, <1>8, <1>10

\* Without an answer in the list, the first is one of what is appended.
LEMMA FirstAnswerComes ==
  ASSUME NEW M, NEW h \in Seq(M), NEW t \in Seq(M), NEW id,
         ~IsAnswered(h, id), IsAnswered(h \o t, id)
  PROVE  FirstAnswer(h \o t, id) \in {t[j] : j \in Answers(t, id)}
<1>0. h \o t \in Seq(M) OBVIOUS
<1>1. PICK i \in Answers(h \o t, id) : FirstAnswer(h \o t, id) = (h \o t)[i]
  BY <1>0, FirstAnswerIs
<1>2. i \in 1..(Len(h) + Len(t)) /\ (h \o t)[i].role = "tool" /\ (h \o t)[i].id = id
  BY DEF Answers
<1>3. i \notin DOMAIN h
  <2> SUFFICES ASSUME i \in DOMAIN h PROVE FALSE OBVIOUS
  <2>1. (h \o t)[i] = h[i] OBVIOUS
  <2> QED BY <1>2, <2>1 DEF IsAnswered, Answers
<1> DEFINE j == i - Len(h)
<1>4. j \in DOMAIN t /\ (h \o t)[i] = t[j] BY <1>2, <1>3
<1> QED BY <1>1, <1>2, <1>4 DEF Answers

\* A message that answers nothing changes no answer.
LEMMA NoNewAnswer ==
  ASSUME NEW M, NEW h \in Seq(M), NEW m \in M, m.role # "tool", NEW id
  PROVE  AnswerOrSynthetic(Append(h, m), id) = AnswerOrSynthetic(h, id)
<1>1. Answers(Append(h, m), id) = Answers(h, id)
  <2>1. \A i \in DOMAIN h : i \in DOMAIN Append(h, m) /\ Append(h, m)[i] = h[i] OBVIOUS
  <2>2. \A i \in DOMAIN Append(h, m) : i \in DOMAIN h \/ Append(h, m)[i] = m OBVIOUS
  <2> QED BY <2>1, <2>2 DEF Answers
<1>2. \A i \in Answers(h, id) : Append(h, m)[i] = h[i] BY DEF Answers
<1>3. CASE Answers(h, id) # {}
  <2>1. (CHOOSE i \in Answers(h, id) : \A j \in Answers(h, id) : i <= j) \in Answers(h, id)
    <3>1. Answers(h, id) \subseteq Nat BY DEF Answers
    <3>2. \E i \in Answers(h, id) : \A j \in Answers(h, id) : i <= j BY <1>3, <3>1, LeastOf
    <3> QED BY <3>2
  <2> QED BY <1>1, <1>2, <2>1 DEF AnswerOrSynthetic, FirstAnswer, IsAnswered
<1>4. CASE Answers(h, id) = {} BY <1>1, <1>4 DEF AnswerOrSynthetic, IsAnswered
<1> QED BY <1>3, <1>4

-----------------------------------------------------------------------------
(* The repaired list.                                                      *)

\* The blocks of the messages of f, with the answers h0 holds.
Blocks(h0, f) == [i \in DOMAIN f |-> Block(h0, f[i])]
RepairOf(h0, f) == FlattenSeq(Blocks(h0, f))

\* The block of a message: itself, and one answer for each of its calls.
LEMMA BlockIs ==
  ASSUME NEW M, NEW I, MessageSet(M, I), NEW h \in Seq(M), NEW m \in M
  PROVE  /\ Block(h, m) \in Seq(M)
         /\ m.role = "tool" => Block(h, m) = <<>>
         /\ m.role # "tool" =>
              /\ Len(Block(h, m)) = Len(m.calls) + 1
              /\ Block(h, m)[1] = m
              /\ \A j \in 1..Len(m.calls) :
                   Block(h, m)[j + 1] = AnswerOrSynthetic(h, m.calls[j])
<1> DEFINE answers == [j \in DOMAIN m.calls |-> AnswerOrSynthetic(h, m.calls[j])]
<1>1. m.calls \in Seq(I) /\ DOMAIN m.calls = 1..Len(m.calls) /\ Len(m.calls) \in Nat
  <2>1. m.calls \in Seq(I) BY DEF MessageSet
  <2> QED BY <2>1
<1>2. \A j \in 1..Len(m.calls) : AnswerOrSynthetic(h, m.calls[j]) \in M
  <2>1. \A j \in 1..Len(m.calls) : m.calls[j] \in I BY <1>1
  <2> QED BY <2>1, AnswerIs
<1>3. answers \in Seq(M) /\ Len(answers) = Len(m.calls)
  BY <1>1, <1>2
<1>4. \A j \in 1..Len(m.calls) : answers[j] = AnswerOrSynthetic(h, m.calls[j]) BY <1>1
<1> HIDE DEF answers
<1>5. <<m>> \in Seq(M) /\ Len(<<m>>) = 1 OBVIOUS
<1>6. CASE m.role = "tool" BY <1>6 DEF Block
<1>7. CASE m.role # "tool"
  <2>1. Block(h, m) = <<m>> \o answers BY <1>7 DEF Block, answers
  <2>2. \A j \in 1..Len(m.calls) : (<<m>> \o answers)[j + 1] = answers[j] BY <1>1, <1>3
  <2>3. (<<m>> \o answers)[1] = m /\ Len(<<m>> \o answers) = Len(m.calls) + 1
        /\ <<m>> \o answers \in Seq(M)
    BY <1>1, <1>3, <1>5
  <2> QED BY <1>4, <1>7, <2>1, <2>2, <2>3
<1> QED BY <1>6, <1>7

\* The repair goes message by message.
LEMMA RepairAppend ==
  ASSUME NEW M, NEW I, MessageSet(M, I), NEW h0 \in Seq(M), NEW f \in Seq(M), NEW m \in M
  PROVE  /\ RepairOf(h0, f) \in Seq(M)
         /\ RepairOf(h0, Append(f, m)) = RepairOf(h0, f) \o Block(h0, m)
<1>1. \A x \in M : Block(h0, x) \in Seq(M) BY BlockIs
<1>2. Blocks(h0, f) \in Seq(Seq(M)) /\ Len(Blocks(h0, f)) = Len(f)
  <2>1. \A i \in 1..Len(f) : f[i] \in M OBVIOUS
  <2>2. DOMAIN f = 1..Len(f) /\ Len(f) \in Nat OBVIOUS
  <2> QED BY <1>1, <2>1, <2>2 DEF Blocks
<1>3. Blocks(h0, Append(f, m)) = Append(Blocks(h0, f), Block(h0, m))
  <2> DEFINE a == Blocks(h0, Append(f, m))
             b == Append(Blocks(h0, f), Block(h0, m))
  <2>1. \A i \in 1..(Len(f) + 1) : Append(f, m)[i] = IF i <= Len(f) THEN f[i] ELSE m
    OBVIOUS
  <2>2. DOMAIN Append(f, m) = 1..(Len(f) + 1) /\ DOMAIN f = 1..Len(f) /\ Len(f) \in Nat
    OBVIOUS
  <2>3. a = [i \in 1..(Len(f) + 1) |-> Block(h0, IF i <= Len(f) THEN f[i] ELSE m)]
    BY <2>1, <2>2 DEF Blocks
  <2>4. b = [i \in 1..(Len(f) + 1) |->
              IF i <= Len(f) THEN Blocks(h0, f)[i] ELSE Block(h0, m)]
    <3>1. b \in Seq(Seq(M)) /\ Len(b) = Len(f) + 1 BY <1>1, <1>2
    <3>2. \A i \in 1..(Len(f) + 1) :
            b[i] = IF i <= Len(f) THEN Blocks(h0, f)[i] ELSE Block(h0, m)
      BY <1>1, <1>2
    <3> HIDE DEF b
    <3>3. b = [i \in 1..Len(b) |-> b[i]] BY <3>1
    <3> QED BY <3>1, <3>2, <3>3
  <2>5. \A i \in 1..Len(f) : Blocks(h0, f)[i] = Block(h0, f[i]) BY <2>2 DEF Blocks
  <2>6. \A i \in 1..(Len(f) + 1) :
          (IF i <= Len(f) THEN Blocks(h0, f)[i] ELSE Block(h0, m))
            = Block(h0, IF i <= Len(f) THEN f[i] ELSE m)
    BY <2>2, <2>5
  <2> QED BY <2>3, <2>4, <2>6
<1>4. Block(h0, m) \in Seq(M) BY <1>1
<1> QED BY <1>2, <1>3, <1>4, FlattenAppend DEF RepairOf

\* Of nothing it makes nothing.
LEMMA RepairEmpty == ASSUME NEW h0 PROVE RepairOf(h0, <<>>) = <<>>
<1>1. Blocks(h0, <<>>) = <<>> BY DEF Blocks
<1> QED BY <1>1 DEF RepairOf, FlattenSeq


\* Concatenation keeps the type.
LEMMA ConcatIs ==
  ASSUME NEW M, NEW f \in Seq(M), NEW g \in Seq(M)
  PROVE  /\ f \o g \in Seq(M)
         /\ Len(f \o g) = Len(f) + Len(g)
         /\ \A i \in 1..Len(f) : (f \o g)[i] = f[i]
         /\ \A i \in 1..Len(g) : (f \o g)[Len(f) + i] = g[i]
OBVIOUS

\* The members of a longer list.
LEMMA ToSets ==
  ASSUME NEW M, NEW f \in Seq(M)
  PROVE  /\ \A g \in Seq(M) : ToSet(f \o g) = ToSet(f) \cup ToSet(g)
         /\ \A m \in M : ToSet(Append(f, m)) = ToSet(f) \cup {m}
         /\ ToSet(f) \subseteq M
<1>1. ASSUME NEW g \in Seq(M) PROVE ToSet(f \o g) = ToSet(f) \cup ToSet(g)
  <2> DEFINE c == f \o g
  <2>0. /\ Len(c) = Len(f) + Len(g) /\ Len(f) \in Nat /\ Len(g) \in Nat
        /\ DOMAIN c = 1..(Len(f) + Len(g)) /\ DOMAIN f = 1..Len(f) /\ DOMAIN g = 1..Len(g)
        /\ \A i \in 1..Len(f) : c[i] = f[i]
        /\ \A i \in 1..Len(g) : c[Len(f) + i] = g[i]
    BY ConcatIs
  <2> HIDE DEF c
  <2>1. \A i \in DOMAIN f : i \in DOMAIN c /\ c[i] = f[i] BY <2>0
  <2>2. \A i \in DOMAIN g : Len(f) + i \in DOMAIN c /\ c[Len(f) + i] = g[i] BY <2>0
  <2>3. \A i \in DOMAIN c : (i \in DOMAIN f /\ c[i] = f[i])
          \/ (i - Len(f) \in DOMAIN g /\ c[i] = g[i - Len(f)])
    <3> SUFFICES ASSUME NEW i \in DOMAIN c, i \notin DOMAIN f
                 PROVE  i - Len(f) \in DOMAIN g /\ c[i] = g[i - Len(f)]
      BY <2>1
    <3>1. i - Len(f) \in 1..Len(g) /\ Len(f) + (i - Len(f)) = i BY <2>0
    <3>2. c[Len(f) + (i - Len(f))] = g[i - Len(f)] BY <2>0, <3>1
    <3> QED BY <2>0, <3>1, <3>2
  <2>4. ToSet(c) \subseteq ToSet(f) \cup ToSet(g) BY <2>3 DEF ToSet
  <2>5. ToSet(f) \subseteq ToSet(c) BY <2>1 DEF ToSet
  <2>6. ToSet(g) \subseteq ToSet(c) BY <2>2 DEF ToSet
  <2> QED BY <2>4, <2>5, <2>6 DEF c
<1>2. ASSUME NEW m \in M PROVE ToSet(Append(f, m)) = ToSet(f) \cup {m}
  <2>1. \A i \in DOMAIN f : i \in DOMAIN Append(f, m) /\ Append(f, m)[i] = f[i] OBVIOUS
  <2>2. Len(f) + 1 \in DOMAIN Append(f, m) /\ Append(f, m)[Len(f) + 1] = m OBVIOUS
  <2>3. \A i \in DOMAIN Append(f, m) : i \in DOMAIN f \/ Append(f, m)[i] = m OBVIOUS
  <2> QED BY <2>1, <2>2, <2>3 DEF ToSet
<1>3. \A i \in DOMAIN f : f[i] \in M OBVIOUS
<1> QED BY <1>1, <1>2, <1>3 DEF ToSet

\* Every message but the old answers stays, and the answers of the calls come.
StandsFor(h0, m, x) ==
  m.role # "tool" /\ (x = m \/ \E id \in ToSet(m.calls) : x = AnswerOrSynthetic(h0, id))

\* What is in the repaired list.
LEMMA RepairHolds ==
  ASSUME NEW M, NEW I, MessageSet(M, I), NEW h0 \in Seq(M), NEW h \in Seq(M)
  PROVE  \A x : x \in ToSet(RepairOf(h0, h)) <=> \E m \in ToSet(h) : StandsFor(h0, m, x)
<1> DEFINE S == {f \in Seq(M) :
      \A x : x \in ToSet(RepairOf(h0, f)) <=> \E m \in ToSet(f) : StandsFor(h0, m, x)}
<1>1. <<>> \in S
  <2>1. ToSet(<<>>) = {} BY DEF ToSet
  <2> QED BY <2>1, RepairEmpty
<1>2. \A f \in Seq(M), m \in M : f \in S => Append(f, m) \in S
  <2> SUFFICES ASSUME NEW f \in Seq(M), NEW m \in M, f \in S PROVE Append(f, m) \in S
    OBVIOUS
  <2> DEFINE b == Block(h0, m)
  <2>1. /\ RepairOf(h0, f) \in Seq(M) /\ b \in Seq(M)
        /\ RepairOf(h0, Append(f, m)) = RepairOf(h0, f) \o b
    <3>1. RepairOf(h0, f) \in Seq(M) /\ RepairOf(h0, Append(f, m)) = RepairOf(h0, f) \o b
      BY RepairAppend
    <3>2. b \in Seq(M) BY BlockIs
    <3> QED BY <3>1, <3>2
  <2>2. \A x : x \in ToSet(b) <=> StandsFor(h0, m, x)
    <3>1. CASE m.role = "tool"
      <4>1. b = <<>> BY <3>1, BlockIs
      <4> QED BY <3>1, <4>1 DEF StandsFor, ToSet
    <3>2. CASE m.role # "tool"
      <4>1. /\ Len(b) = Len(m.calls) + 1 /\ b[1] = m
            /\ \A j \in 1..Len(m.calls) : b[j + 1] = AnswerOrSynthetic(h0, m.calls[j])
        BY <3>2, BlockIs
      <4>2. Len(m.calls) \in Nat /\ DOMAIN m.calls = 1..Len(m.calls)
            /\ DOMAIN b = 1..(Len(m.calls) + 1)
        <5>1. m.calls \in Seq(I) BY DEF MessageSet
        <5> HIDE DEF b
        <5> QED BY <2>1, <4>1, <5>1
      <4> HIDE DEF b
      <4>3. \A i \in DOMAIN b : StandsFor(h0, m, b[i])
        <5> SUFFICES ASSUME NEW i \in DOMAIN b PROVE StandsFor(h0, m, b[i]) OBVIOUS
        <5>1. CASE i = 1 BY <3>2, <4>1, <5>1 DEF StandsFor
        <5>2. CASE i # 1
          <6>1. i - 1 \in 1..Len(m.calls) /\ (i - 1) + 1 = i BY <4>2, <5>2
          <6>2. b[i] = AnswerOrSynthetic(h0, m.calls[i - 1]) BY <4>1, <6>1
          <6>3. m.calls[i - 1] \in ToSet(m.calls) BY <4>2, <6>1 DEF ToSet
          <6> QED BY <3>2, <6>2, <6>3 DEF StandsFor
        <5> QED BY <5>1, <5>2
      <4>4. m \in ToSet(b) BY <4>1, <4>2 DEF ToSet
      <4>5. \A id \in ToSet(m.calls) : AnswerOrSynthetic(h0, id) \in ToSet(b)
        <5> SUFFICES ASSUME NEW j \in 1..Len(m.calls)
                     PROVE  AnswerOrSynthetic(h0, m.calls[j]) \in ToSet(b)
          BY <4>2 DEF ToSet
        <5>1. j + 1 \in DOMAIN b BY <4>2
        <5> QED BY <4>1, <5>1 DEF ToSet
      <4>6. \A x \in ToSet(b) : StandsFor(h0, m, x) BY <4>3 DEF ToSet
      <4> QED BY <4>4, <4>5, <4>6 DEF StandsFor
    <3> QED BY <3>1, <3>2
  <2>3. /\ ToSet(RepairOf(h0, f) \o b) = ToSet(RepairOf(h0, f)) \cup ToSet(b)
        /\ ToSet(Append(f, m)) = ToSet(f) \cup {m}
    BY <2>1, ToSets
  <2> HIDE DEF b
  <2>4. \A x : x \in ToSet(RepairOf(h0, f)) <=> \E y \in ToSet(f) : StandsFor(h0, y, x)
    OBVIOUS
  <2>5. \A x : x \in ToSet(RepairOf(h0, Append(f, m)))
                 <=> \E y \in ToSet(Append(f, m)) : StandsFor(h0, y, x)
    BY <2>1, <2>2, <2>3, <2>4
  <2>6. Append(f, m) \in Seq(M) OBVIOUS
  <2> QED BY <2>5, <2>6
<1> HIDE DEF S
<1>3. Seq(M) \subseteq S BY <1>1, <1>2, ListInduction
<1> QED BY <1>3 DEF S

\* Followed by answers: the next messages answer the calls.
LEMMA FollowedIs ==
  ASSUME NEW h, NEW i, NEW n, n = Len(h[i].calls)
  PROVE  FollowedByAnswers(h, i) <=>
           /\ i + n <= Len(h)
           /\ \A j \in 1..n : h[i + j].role = "tool"
           /\ {h[i + j].id : j \in 1..n} = {h[i].calls[j] : j \in 1..n}
           /\ i + n < Len(h) => h[i + n + 1].role # "tool"
BY DEF FollowedByAnswers

\* A block behind a list in order leaves a list in order.
LEMMA CleanBlock ==
  ASSUME NEW M, NEW I, MessageSet(M, I), NEW h0 \in Seq(M), NEW m \in M,
         NEW l \in Seq(M), IsClean(l)
  PROVE  IsClean(l \o Block(h0, m))
<1> DEFINE b == Block(h0, m)
           n == Len(m.calls)
           L == Len(l)
           c == l \o b
<1>1. CASE m.role = "tool"
  <2>1. b = <<>> BY <1>1, BlockIs
  <2>2. c = l BY <2>1
  <2> QED BY <2>2
<1>2. CASE m.role # "tool"
  <2>1. /\ b \in Seq(M) /\ Len(b) = n + 1 /\ b[1] = m
        /\ \A j \in 1..n : b[j + 1] = AnswerOrSynthetic(h0, m.calls[j])
    BY <1>2, BlockIs
  <2>2. m.calls \in Seq(I) /\ n \in Nat /\ DOMAIN m.calls = 1..n /\ L \in Nat
        /\ (m.role # "assistant" => n = 0)
    <3>1. m.calls \in Seq(I) /\ (m.role # "assistant" => m.calls = <<>>) BY DEF MessageSet
    <3> QED BY <3>1
  <2>3. \A j \in 1..n : m.calls[j] \in I BY <2>2
  <2>4. \A j \in 1..n : b[j + 1].role = "tool" /\ b[j + 1].id = m.calls[j]
    BY <2>1, <2>3, AnswerIs
  <2> HIDE DEF b
  <2>5. /\ c \in Seq(M) /\ Len(c) = L + n + 1
        /\ \A i \in 1..L : c[i] = l[i]
        /\ \A i \in 1..(n + 1) : c[L + i] = b[i]
    <3>0. b \in Seq(M) BY <2>1
    <3>1. /\ c \in Seq(M) /\ Len(c) = L + Len(b)
          /\ \A i \in 1..L : c[i] = l[i]
          /\ \A i \in 1..Len(b) : c[L + i] = b[i]
      BY <3>0, ConcatIs
    <3>2. Len(b) = n + 1 BY <2>1
    <3> HIDE DEF c, n, L
    <3> QED BY <2>2, <3>1, <3>2
  <2>6. c[L + 1] = m
    <3>1. 1 \in 1..(n + 1) BY <2>2
    <3> QED BY <2>1, <2>5, <3>1
  <2>7. \A j \in 1..n : c[L + 1 + j].role = "tool" /\ c[L + 1 + j].id = m.calls[j]
    <3> SUFFICES ASSUME NEW j \in 1..n
                 PROVE  c[L + 1 + j].role = "tool" /\ c[L + 1 + j].id = m.calls[j]
      OBVIOUS
    <3>1. j + 1 \in 1..(n + 1) /\ L + (j + 1) = L + 1 + j BY <2>2
    <3>2. c[L + 1 + j] = b[j + 1] BY <2>5, <3>1
    <3> QED BY <2>4, <3>2
  <2> HIDE DEF c, n, L
  <2>8. DOMAIN c = 1..(L + n + 1) /\ DOMAIN l = 1..L BY <2>5 DEF L
  <2>9. ASSUME NEW i \in DOMAIN c, c[i].role = "assistant" PROVE FollowedByAnswers(c, i)
    <3>1. CASE i \in 1..L
      <4> DEFINE k == Len(l[i].calls)
      <4>1. l[i] = c[i] /\ l[i].role = "assistant" BY <2>5, <2>9, <3>1
      <4>2. FollowedByAnswers(l, i) BY <2>8, <3>1, <4>1 DEF IsClean
      <4>3. l[i].calls \in Seq(I) /\ k \in Nat
        <5>1. l[i] \in M BY <3>1 DEF L
        <5>2. l[i].calls \in Seq(I) BY <5>1 DEF MessageSet
        <5> QED BY <5>2
      <4>13. k = Len(l[i].calls) OBVIOUS
      <4> HIDE DEF k
      <4>4. /\ i + k <= L
            /\ \A j \in 1..k : l[i + j].role = "tool"
            /\ {l[i + j].id : j \in 1..k} = {l[i].calls[j] : j \in 1..k}
            /\ i + k < L => l[i + k + 1].role # "tool"
        <5>1. /\ i + k <= Len(l)
              /\ \A j \in 1..k : l[i + j].role = "tool"
              /\ {l[i + j].id : j \in 1..k} = {l[i].calls[j] : j \in 1..k}
              /\ i + k < Len(l) => l[i + k + 1].role # "tool"
          BY <4>2 DEF FollowedByAnswers, k
        <5> QED BY <5>1 DEF L
      <4>5. \A j \in 1..k : c[i + j] = l[i + j]
        <5> SUFFICES ASSUME NEW j \in 1..k PROVE c[i + j] = l[i + j] OBVIOUS
        <5>1. i + j \in 1..L BY <2>2, <3>1, <4>3, <4>4
        <5> QED BY <2>5, <5>1
      <4>6. {c[i + j].id : j \in 1..k} = {l[i + j].id : j \in 1..k} BY <4>5
      <4>7. i + k < Len(c) => c[i + k + 1].role # "tool"
        <5>1. CASE i + k < L
          <6>1. i + k + 1 \in 1..L BY <2>2, <3>1, <4>3, <5>1
          <6> QED BY <2>5, <4>4, <5>1, <6>1
        <5>2. CASE i + k = L
          <6>1. c[i + k + 1] = m BY <2>6, <5>2
          <6> QED BY <1>2, <6>1
        <5> QED BY <2>2, <3>1, <4>3, <4>4, <5>1, <5>2
      <4>8. i + k <= Len(c) BY <2>2, <2>5, <3>1, <4>3, <4>4
      <4>9. k = Len(c[i].calls) BY <4>1 DEF k
      <4>10. {c[i].calls[j] : j \in 1..k} = {l[i].calls[j] : j \in 1..k} BY <4>1
      <4>11. \A j \in 1..k : c[i + j].role = "tool" BY <4>4, <4>5
      <4>12. {c[i + j].id : j \in 1..k} = {c[i].calls[j] : j \in 1..k} BY <4>4, <4>6, <4>10
      <4> QED BY <4>7, <4>8, <4>9, <4>11, <4>12, FollowedIs
    <3>2. CASE i = L + 1
      <4>1. c[i] = m /\ n = Len(c[i].calls) BY <2>6, <3>2 DEF n
      <4>2. \A j \in 1..n : c[i + j].role = "tool" /\ c[i + j].id = c[i].calls[j]
        BY <2>7, <3>2, <4>1
      <4>3. {c[i + j].id : j \in 1..n} = {c[i].calls[j] : j \in 1..n} BY <4>2
      <4>4. i + n <= Len(c) /\ ~(i + n < Len(c)) BY <2>2, <2>5, <3>2
      <4> QED BY <4>1, <4>2, <4>3, <4>4, FollowedIs
    <3>3. CASE i \in (L + 2)..(L + n + 1)
      <4>1. i - (L + 1) \in 1..n /\ L + 1 + (i - (L + 1)) = i BY <2>2, <3>3
      <4>2. c[i].role = "tool" BY <2>7, <4>1
      <4> QED BY <2>9, <4>2
    <3>4. i \in 1..L \/ i = L + 1 \/ i \in (L + 2)..(L + n + 1) BY <2>2, <2>8
    <3> QED BY <3>1, <3>2, <3>3, <3>4
  <2>10. ASSUME NEW i \in DOMAIN c, c[i].role = "tool" PROVE i > 1 /\ c[i - 1].role # "user"
    <3>1. CASE i \in 1..L
      <4>1. l[i].role = "tool" BY <2>5, <2>10, <3>1
      <4>2. i > 1 /\ l[i - 1].role # "user" BY <2>8, <3>1, <4>1 DEF IsClean
      <4>3. i - 1 \in 1..L BY <2>2, <3>1, <4>2
      <4> QED BY <2>5, <4>2, <4>3
    <3>2. CASE i = L + 1 BY <1>2, <2>6, <2>10, <3>2
    <3>3. CASE i = L + 2 /\ n # 0
      <4>1. i - 1 = L + 1 /\ i > 1 BY <2>2, <3>3
      <4>2. c[i - 1].role = "assistant" BY <2>2, <2>6, <3>3, <4>1 DEF MessageSet
      <4> QED BY <4>1, <4>2
    <3>4. CASE i \in (L + 3)..(L + n + 1)
      <4> DEFINE j == i - L - 2
      <4>0. L \in Nat /\ n \in Nat BY <2>2
      <4>1. j \in 1..n /\ L + 1 + j = i - 1 /\ i > 1 BY <3>4, <4>0
      <4> HIDE DEF j
      <4>2. c[i - 1].role = "tool" BY <2>7, <4>1
      <4> QED BY <4>1, <4>2
    <3>5. i \in 1..L \/ i = L + 1 \/ (i = L + 2 /\ n # 0) \/ i \in (L + 3)..(L + n + 1)
      BY <2>2, <2>8
    <3> QED BY <3>1, <3>2, <3>3, <3>4, <3>5
  <2>11. IsClean(c) BY <2>9, <2>10 DEF IsClean
  <2> QED BY <2>11 DEF c, b
<1> QED BY <1>1, <1>2


\* The repair puts any list in order.
THEOREM RepairedIsClean ==
  ASSUME NEW M, NEW I, MessageSet(M, I), NEW h \in Seq(M)
  PROVE  Repaired(h) \in Seq(M) /\ IsClean(Repaired(h))
<1> DEFINE S == {f \in Seq(M) : RepairOf(h, f) \in Seq(M) /\ IsClean(RepairOf(h, f))}
<1>1. <<>> \in S
  <2>1. IsClean(<<>>) BY DEF IsClean
  <2>2. RepairOf(h, <<>>) = <<>> BY RepairEmpty
  <2>3. <<>> \in Seq(M) OBVIOUS
  <2> QED BY <2>1, <2>2, <2>3
<1>2. \A f \in Seq(M), m \in M : f \in S => Append(f, m) \in S
  <2> SUFFICES ASSUME NEW f \in Seq(M), NEW m \in M, f \in S PROVE Append(f, m) \in S
    OBVIOUS
  <2>1. RepairOf(h, f) \in Seq(M) /\ IsClean(RepairOf(h, f)) OBVIOUS
  <2>2. IsClean(RepairOf(h, f) \o Block(h, m)) BY <2>1, CleanBlock
  <2>3. RepairOf(h, Append(f, m)) = RepairOf(h, f) \o Block(h, m) BY RepairAppend
  <2>4. Block(h, m) \in Seq(M) BY BlockIs
  <2>5. RepairOf(h, f) \o Block(h, m) \in Seq(M) BY <2>1, <2>4, ConcatIs
  <2>6. Append(f, m) \in Seq(M) OBVIOUS
  <2> QED BY <2>2, <2>3, <2>5, <2>6
<1> HIDE DEF S
<1>3. Seq(M) \subseteq S BY <1>1, <1>2, ListInduction
<1>4. h \in S BY <1>3
<1>5. Repaired(h) = RepairOf(h, h) BY DEF Repaired, RepairOf, Blocks
<1> QED BY <1>4, <1>5 DEF S

\* What stands in the repaired list.
LEMMA RepairedHolds ==
  ASSUME NEW M, NEW I, MessageSet(M, I), NEW h \in Seq(M)
  PROVE  \A x : x \in ToSet(Repaired(h)) <=> \E m \in ToSet(h) : StandsFor(h, m, x)
<1>1. Repaired(h) = RepairOf(h, h) BY DEF Repaired, RepairOf, Blocks
<1> QED BY <1>1, RepairHolds

\* No message of the user is lost or invented.
LEMMA OthersStay ==
  ASSUME NEW M, NEW I, MessageSet(M, I), NEW h \in Seq(M), NEW m, m.role # "tool"
  PROVE  m \in ToSet(Repaired(h)) <=> m \in ToSet(h)
<1>1. \A x : x \in ToSet(Repaired(h)) <=> \E y \in ToSet(h) : StandsFor(h, y, x)
  BY RepairedHolds
<1>2. ASSUME m \in ToSet(h) PROVE m \in ToSet(Repaired(h))
  <2>1. StandsFor(h, m, m) BY DEF StandsFor
  <2> QED BY <1>1, <1>2, <2>1
<1>3. ASSUME m \in ToSet(Repaired(h)) PROVE m \in ToSet(h)
  <2>1. PICK y \in ToSet(h) : StandsFor(h, y, m) BY <1>1, <1>3
  <2>2. y \in M BY DEF ToSet
  <2>3. y.calls \in Seq(I) BY <2>2 DEF MessageSet
  <2>4. ToSet(y.calls) \subseteq I
    <3>1. \A j \in DOMAIN y.calls : y.calls[j] \in I BY <2>3
    <3> QED BY <3>1 DEF ToSet
  <2>5. \A id \in ToSet(y.calls) : AnswerOrSynthetic(h, id).role = "tool" BY <2>4, AnswerIs
  <2> QED BY <2>1, <2>5 DEF StandsFor
<1> QED BY <1>2, <1>3

\* A message of the user at the end of the list stays there.
LEMMA LastStays ==
  ASSUME NEW M, NEW I, MessageSet(M, I), NEW f \in Seq(M), NEW m \in M, m.role = "user"
  PROVE  Repaired(Append(f, m)) = Append(Repaired(f), m)
<1> DEFINE h == Append(f, m)
<1>1. h \in Seq(M) /\ Len(h) = Len(f) + 1 OBVIOUS
<1>2. \A x : Block(h, x) = Block(f, x)
  <2>1. \A id : AnswerOrSynthetic(h, id) = AnswerOrSynthetic(f, id) BY NoNewAnswer
  <2> QED BY <2>1 DEF Block
<1>0. RepairOf(h, h) = RepairOf(h, Append(f, m)) OBVIOUS
<1> HIDE DEF h
<1>3. RepairOf(h, f) = RepairOf(f, f) BY <1>2 DEF RepairOf, Blocks
<1>4. RepairOf(h, h) = RepairOf(h, f) \o Block(h, m) /\ RepairOf(h, f) \in Seq(M)
  <2>1. /\ RepairOf(h, f) \in Seq(M)
        /\ RepairOf(h, Append(f, m)) = RepairOf(h, f) \o Block(h, m)
    BY <1>1, RepairAppend
  <2> QED BY <1>0, <2>1
<1>5. Block(h, m) = <<m>>
  <2>1. m.calls = <<>> BY DEF MessageSet
  <2>2. Len(m.calls) = 0 BY <2>1
  <2>3. Block(h, m) \in Seq(M) /\ Len(Block(h, m)) = Len(m.calls) + 1 /\ Block(h, m)[1] = m
    <3>1. m.role # "tool" OBVIOUS
    <3>2. h \in Seq(M) BY <1>1
    <3> QED BY <3>1, <3>2, BlockIs
  <2>4. Block(h, m) \in Seq(M) /\ Len(Block(h, m)) = 1 /\ Block(h, m)[1] = m BY <2>2, <2>3
  <2> QED BY <2>4
<1>6. Repaired(h) = RepairOf(h, h) /\ Repaired(f) = RepairOf(f, f)
  BY DEF Repaired, RepairOf, Blocks
<1>7. Repaired(f) \in Seq(M) /\ Repaired(h) = Repaired(f) \o <<m>>
  BY <1>3, <1>4, <1>5, <1>6
<1>8. Repaired(f) \o <<m>> = Append(Repaired(f), m) BY <1>7
<1> QED BY <1>7, <1>8 DEF h

-----------------------------------------------------------------------------
(* The calls of a list, and their answers.                                 *)
CallsOf(h) == UNION {ToSet(m.calls) : m \in ToSet(h)}

\* No call is made twice.
CallsOnce(h) ==
  \A a, b \in DOMAIN h : \A x \in DOMAIN h[a].calls, y \in DOMAIN h[b].calls :
    h[a].calls[x] = h[b].calls[y] => a = b /\ x = y

\* The calls of a longer list.
LEMMA CallsOfAppend ==
  ASSUME NEW M, NEW f \in Seq(M)
  PROVE  /\ \A g \in Seq(M) : CallsOf(f \o g) = CallsOf(f) \cup CallsOf(g)
         /\ \A m \in M : CallsOf(Append(f, m)) = CallsOf(f) \cup ToSet(m.calls)
<1>1. /\ \A g \in Seq(M) : ToSet(f \o g) = ToSet(f) \cup ToSet(g)
      /\ \A m \in M : ToSet(Append(f, m)) = ToSet(f) \cup {m}
  BY ToSets
<1> QED BY <1>1 DEF CallsOf

\* Calls stay announced once when the new ones are new.
LEMMA CallsOnceAppend ==
  ASSUME NEW M, NEW f \in Seq(M), NEW m \in M
  PROVE  CallsOnce(Append(f, m)) <=>
           /\ CallsOnce(f)
           /\ \A x, y \in DOMAIN m.calls : m.calls[x] = m.calls[y] => x = y
           /\ \A x \in DOMAIN m.calls : m.calls[x] \notin CallsOf(f)
<1> DEFINE h == Append(f, m)
           n == Len(f)
<1>1. /\ n \in Nat /\ DOMAIN f = 1..n /\ DOMAIN h = 1..(n + 1) /\ h[n + 1] = m
      /\ \A i \in 1..n : h[i] = f[i]
  OBVIOUS
<1> HIDE DEF h, n
<1>2. \A id : id \in CallsOf(f) <=> \E i \in 1..n : \E x \in DOMAIN f[i].calls : id = f[i].calls[x]
  BY <1>1 DEF CallsOf, ToSet
<1>3. ASSUME CallsOnce(h)
      PROVE  /\ CallsOnce(f)
             /\ \A x, y \in DOMAIN m.calls : m.calls[x] = m.calls[y] => x = y
             /\ \A x \in DOMAIN m.calls : m.calls[x] \notin CallsOf(f)
  <2>1. CallsOnce(f)
    <3>1. \A i \in 1..n : i \in 1..(n + 1) BY <1>1
    <3> QED BY <1>1, <1>3, <3>1 DEF CallsOnce
  <2>2. n + 1 \in DOMAIN h BY <1>1
  <2>3. \A x, y \in DOMAIN m.calls : m.calls[x] = m.calls[y] => x = y
    BY <1>1, <1>3, <2>2 DEF CallsOnce
  <2>4. ASSUME NEW x \in DOMAIN m.calls, m.calls[x] \in CallsOf(f) PROVE FALSE
    <3>1. PICK i \in 1..n : \E y \in DOMAIN f[i].calls : m.calls[x] = f[i].calls[y]
      BY <1>2, <2>4
    <3>2. i \in DOMAIN h /\ i # n + 1 /\ h[i] = f[i] BY <1>1
    <3> QED BY <1>1, <1>3, <2>2, <3>1, <3>2 DEF CallsOnce
  <2> QED BY <2>1, <2>3, <2>4
<1>4. ASSUME /\ CallsOnce(f)
             /\ \A x, y \in DOMAIN m.calls : m.calls[x] = m.calls[y] => x = y
             /\ \A x \in DOMAIN m.calls : m.calls[x] \notin CallsOf(f)
      PROVE  CallsOnce(h)
  <2> SUFFICES ASSUME NEW a \in DOMAIN h, NEW b \in DOMAIN h,
                      NEW x \in DOMAIN h[a].calls, NEW y \in DOMAIN h[b].calls,
                      h[a].calls[x] = h[b].calls[y]
               PROVE  a = b /\ x = y
    BY DEF CallsOnce
  <2>1. CASE a \in 1..n /\ b \in 1..n BY <1>1, <1>4, <2>1 DEF CallsOnce
  <2>2. CASE a \in 1..n /\ b = n + 1
    <3>1. h[a].calls[x] \in CallsOf(f) BY <1>1, <1>2, <2>2
    <3> QED BY <1>1, <1>4, <2>2, <3>1
  <2>3. CASE a = n + 1 /\ b \in 1..n
    <3>1. h[b].calls[y] \in CallsOf(f) BY <1>1, <1>2, <2>3
    <3> QED BY <1>1, <1>4, <2>3, <3>1
  <2>4. CASE a = n + 1 /\ b = n + 1 BY <1>1, <1>4, <2>4
  <2>5. (a \in 1..n \/ a = n + 1) /\ (b \in 1..n \/ b = n + 1) BY <1>1
  <2> QED BY <2>1, <2>2, <2>3, <2>4, <2>5
<1> QED BY <1>3, <1>4 DEF h

\* Messages that call nothing add no call.
LEMMA CallsOnceMore ==
  ASSUME NEW M, NEW f \in Seq(M), NEW g \in Seq(M), CallsOnce(f),
         \A i \in DOMAIN g : g[i].calls = <<>>
  PROVE  CallsOnce(f \o g) /\ CallsOf(f \o g) = CallsOf(f)
<1> DEFINE h == f \o g
           n == Len(f)
<1>1. /\ n \in Nat /\ DOMAIN f = 1..n
      /\ \A i \in 1..n : h[i] = f[i]
      /\ \A i \in DOMAIN h : i \in 1..n \/ h[i].calls = <<>>
  <2>1. h \in Seq(M) /\ Len(h) = n + Len(g) /\ \A i \in 1..n : h[i] = f[i] BY ConcatIs
  <2>2. \A i \in 1..Len(g) : h[n + i] = g[i] BY ConcatIs
  <2> HIDE DEF h
  <2>3. n \in Nat /\ Len(g) \in Nat /\ DOMAIN f = 1..n /\ DOMAIN h = 1..(n + Len(g))
        /\ DOMAIN g = 1..Len(g)
    BY <2>1
  <2> HIDE DEF n
  <2>4. ASSUME NEW i \in DOMAIN h, i \notin 1..n PROVE h[i].calls = <<>>
    <3>1. i - n \in 1..Len(g) /\ n + (i - n) = i BY <2>3, <2>4
    <3>2. h[i] = g[i - n] BY <2>2, <3>1
    <3> QED BY <2>3, <3>1, <3>2
  <2> QED BY <2>1, <2>3, <2>4
<1> HIDE DEF h, n
<1>2. CallsOnce(h)
  <2>1. \A a \in DOMAIN h : DOMAIN h[a].calls # {} => a \in DOMAIN f /\ h[a] = f[a] BY <1>1
  <2> QED BY <2>1 DEF CallsOnce
<1>3. CallsOf(g) = {} BY DEF CallsOf, ToSet
<1>4. CallsOf(h) = CallsOf(f) \cup CallsOf(g) BY CallsOfAppend DEF h
<1> QED BY <1>2, <1>3, <1>4 DEF h


\* A call of a list is announced in it.
LEMMA CallsAreOf ==
  ASSUME NEW M, NEW I, MessageSet(M, I), NEW h \in Seq(M)
  PROVE  /\ CallsOf(h) \subseteq I
         /\ \A id \in CallsOf(h) : \E m \in ToSet(h) : m.role = "assistant" /\ id \in ToSet(m.calls)
<1> SUFFICES ASSUME NEW m \in ToSet(h), NEW id \in ToSet(m.calls)
             PROVE  id \in I /\ m.role = "assistant"
  BY DEF CallsOf
<1>1. m \in M BY ToSets
<1>2. m.calls \in Seq(I) /\ (m.role # "assistant" => m.calls = <<>>) BY <1>1 DEF MessageSet
<1>3. ToSet(m.calls) \subseteq I BY <1>2, ToSets
<1>4. ASSUME m.calls = <<>> PROVE FALSE BY <1>4 DEF ToSet
<1> QED BY <1>2, <1>3, <1>4

\* The repair neither drops nor repeats a call.
LEMMA RepairedCalls ==
  ASSUME NEW M, NEW I, MessageSet(M, I), NEW h \in Seq(M)
  PROVE  /\ CallsOf(Repaired(h)) = CallsOf(h)
         /\ CallsOnce(h) => CallsOnce(Repaired(h))
<1> DEFINE S == {f \in Seq(M) :
      /\ CallsOf(RepairOf(h, f)) = CallsOf(f)
      /\ CallsOnce(f) => CallsOnce(RepairOf(h, f))}
<1>1. <<>> \in S
  <2>1. RepairOf(h, <<>>) = <<>> BY RepairEmpty
  <2>2. <<>> \in Seq(M) OBVIOUS
  <2> QED BY <2>1, <2>2
<1>2. \A f \in Seq(M), m \in M : f \in S => Append(f, m) \in S
  <2> SUFFICES ASSUME NEW f \in Seq(M), NEW m \in M, f \in S PROVE Append(f, m) \in S
    OBVIOUS
  <2> DEFINE l == RepairOf(h, f)
             b == Block(h, m)
  <2>1. /\ CallsOf(l) = CallsOf(f)
        /\ CallsOnce(f) => CallsOnce(l)
    OBVIOUS
  <2> HIDE DEF S
  <2>2. l \in Seq(M) /\ RepairOf(h, Append(f, m)) = l \o b BY RepairAppend
  <2>3. b \in Seq(M) BY BlockIs
  <2>4. Append(f, m) \in Seq(M) OBVIOUS
  <2>5. CASE m.role = "tool"
    <3>1. b = <<>> BY <2>5, BlockIs
    <3>2. l \o b = l BY <2>2, <3>1
    <3>3. m.calls = <<>> BY <2>5 DEF MessageSet
    <3>4. ToSet(m.calls) = {} BY <3>3 DEF ToSet
    <3>5. CallsOf(Append(f, m)) = CallsOf(f)
      <4>1. CallsOf(Append(f, m)) = CallsOf(f) \cup ToSet(m.calls) BY CallsOfAppend
      <4> QED BY <3>4, <4>1
    <3>6. CallsOnce(Append(f, m)) => CallsOnce(f) BY CallsOnceAppend
    <3> HIDE DEF l, b
    <3> QED BY <2>1, <2>2, <2>4, <3>2, <3>5, <3>6 DEF S, l
  <2>6. CASE m.role # "tool"
    <3> DEFINE n == Len(m.calls)
               g == [j \in 1..n |-> AnswerOrSynthetic(h, m.calls[j])]
    <3>1. m.calls \in Seq(I) /\ n \in Nat BY DEF MessageSet
    <3>2. \A j \in 1..n : AnswerOrSynthetic(h, m.calls[j]) \in M
            /\ AnswerOrSynthetic(h, m.calls[j]).calls = <<>>
      <4>1. \A j \in 1..n : m.calls[j] \in I BY <3>1
      <4> QED BY <4>1, AnswerIs
    <3>3. g \in Seq(M) /\ \A j \in DOMAIN g : g[j].calls = <<>>
      <4>1. \A j \in 1..n : g[j] = AnswerOrSynthetic(h, m.calls[j]) /\ g[j] \in M BY <3>2
      <4>2. g \in [1..n -> M] BY <3>2
      <4> HIDE DEF g, n
      <4>3. g \in Seq(M) BY <3>1, <4>2
      <4>4. DOMAIN g = 1..n BY <4>2
      <4> QED BY <3>2, <4>1, <4>3, <4>4
    <3>4. b = <<m>> \o g
      <4>1. DOMAIN m.calls = 1..n BY <3>1
      <4> QED BY <2>6, <4>1 DEF Block
    <3> HIDE DEF b, g, l, n
    <3>5. l \o b = Append(l, m) \o g BY <2>2, <3>3, <3>4
    <3>6. Append(l, m) \in Seq(M) BY <2>2
    <3>7. /\ CallsOf(Append(l, m)) = CallsOf(l) \cup ToSet(m.calls)
          /\ CallsOf(Append(f, m)) = CallsOf(f) \cup ToSet(m.calls)
      BY <2>2, CallsOfAppend
    <3>8. CallsOf(g) = {} BY <3>3 DEF CallsOf, ToSet
    <3>9. CallsOf(l \o b) = CallsOf(Append(f, m))
      <4>1. CallsOf(Append(l, m) \o g) = CallsOf(Append(l, m)) \cup CallsOf(g)
        <5> DEFINE q == Append(l, m)
        <5>1. q \in Seq(M) BY <3>6
        <5> HIDE DEF q
        <5>2. CallsOf(q \o g) = CallsOf(q) \cup CallsOf(g) BY <3>3, <5>1, CallsOfAppend
        <5> QED BY <5>2 DEF q
      <4> QED BY <2>1, <3>5, <3>7, <3>8, <4>1
    <3>10. ASSUME CallsOnce(Append(f, m)) PROVE CallsOnce(l \o b)
      <4>1. /\ CallsOnce(f)
            /\ \A x, y \in DOMAIN m.calls : m.calls[x] = m.calls[y] => x = y
            /\ \A x \in DOMAIN m.calls : m.calls[x] \notin CallsOf(f)
        BY <3>10, CallsOnceAppend
      <4>2. CallsOnce(l) /\ \A x \in DOMAIN m.calls : m.calls[x] \notin CallsOf(l)
        BY <2>1, <4>1
      <4>3. CallsOnce(Append(l, m)) BY <2>2, <4>1, <4>2, CallsOnceAppend
      <4>4. CallsOnce(Append(l, m) \o g) BY <3>3, <3>6, <4>3, CallsOnceMore
      <4> QED BY <3>5, <4>4
    <3> QED BY <2>2, <2>4, <3>9, <3>10 DEF S
  <2> QED BY <2>5, <2>6
<1> HIDE DEF S
<1>3. h \in S BY <1>1, <1>2, ListInduction
<1>4. Repaired(h) = RepairOf(h, h) BY DEF Repaired, RepairOf, Blocks
<1> QED BY <1>3, <1>4 DEF S

\* In the repaired list a call has the answer it had, or the one made up for it.
LEMMA RepairedAnswers ==
  ASSUME NEW M, NEW I, MessageSet(M, I), NEW h \in Seq(M)
  PROVE  /\ \A m \in ToSet(Repaired(h)) : m.role = "tool" =>
              m.id \in CallsOf(h) /\ m = AnswerOrSynthetic(h, m.id)
         /\ \A id \in CallsOf(h) :
              /\ IsAnswered(Repaired(h), id)
              /\ FirstAnswer(Repaired(h), id) = AnswerOrSynthetic(h, id)
<1>1. \A x : x \in ToSet(Repaired(h)) <=> \E m \in ToSet(h) : StandsFor(h, m, x)
  BY RepairedHolds
<1>2. CallsOf(h) \subseteq I BY CallsAreOf
<1>3. \A id \in CallsOf(h) :
        AnswerOrSynthetic(h, id).role = "tool" /\ AnswerOrSynthetic(h, id).id = id
  BY <1>2, AnswerIs
<1>4. ASSUME NEW m \in ToSet(Repaired(h)), m.role = "tool"
      PROVE  m.id \in CallsOf(h) /\ m = AnswerOrSynthetic(h, m.id)
  <2>1. PICK y \in ToSet(h) : StandsFor(h, y, m) BY <1>1
  <2>2. PICK id \in ToSet(y.calls) : m = AnswerOrSynthetic(h, id) BY <1>4, <2>1 DEF StandsFor
  <2>3. id \in CallsOf(h) BY <2>1, <2>2 DEF CallsOf
  <2> QED BY <1>3, <2>2, <2>3
<1>5. ASSUME NEW id \in CallsOf(h)
      PROVE  /\ IsAnswered(Repaired(h), id)
             /\ FirstAnswer(Repaired(h), id) = AnswerOrSynthetic(h, id)
  <2> DEFINE a == AnswerOrSynthetic(h, id)
  <2>1. PICK y \in ToSet(h) : y.role = "assistant" /\ id \in ToSet(y.calls) BY CallsAreOf
  <2>2. StandsFor(h, y, a) BY <2>1 DEF StandsFor
  <2>3. a \in ToSet(Repaired(h)) BY <1>1, <2>1, <2>2
  <2>4. a.role = "tool" /\ a.id = id BY <1>3
  <2> HIDE DEF a
  <2>5. IsAnswered(Repaired(h), id) BY <2>3, <2>4 DEF ToSet, IsAnswered, Answers
  <2>6. Repaired(h) \in Seq(M) BY RepairedIsClean
  <2>7. PICK i \in Answers(Repaired(h), id) : FirstAnswer(Repaired(h), id) = Repaired(h)[i]
    BY <2>5, <2>6, FirstAnswerIs
  <2>8. /\ Repaired(h)[i] \in ToSet(Repaired(h))
        /\ Repaired(h)[i].role = "tool" /\ Repaired(h)[i].id = id
    BY DEF Answers, ToSet
  <2>9. Repaired(h)[i] = AnswerOrSynthetic(h, id) BY <1>4, <2>8
  <2> QED BY <2>5, <2>7, <2>9
<1> QED BY <1>4, <1>5

-----------------------------------------------------------------------------
(* A list in order that makes no call twice answers each once.             *)

\* Before a tool message, with nothing but tool messages between, stands the
\* assistant message whose answers they are.
LEMMA AnswersAnAssistant ==
  ASSUME NEW M, NEW I, MessageSet(M, I), NEW h \in Seq(M), IsClean(h),
         NEW i \in DOMAIN h, h[i].role = "tool"
  PROVE  \E a \in DOMAIN h :
           /\ h[a].role = "assistant"
           /\ i \in (a + 1)..(a + Len(h[a].calls))
<1>0. DOMAIN h = 1..Len(h) /\ Len(h) \in Nat /\ i \in Nat OBVIOUS
<1> DEFINE S == {k \in 0..i : \A j \in (k + 1)..i : h[j].role = "tool"}
<1>1. i \in S /\ S \subseteq Nat BY <1>0
<1>2. PICK a \in S : \A k \in S : a <= k BY <1>1, LeastOf
<1>3. a \in 0..i /\ \A j \in (a + 1)..i : h[j].role = "tool" OBVIOUS
<1>4. a # 0
  <2> SUFFICES ASSUME a = 0 PROVE FALSE OBVIOUS
  <2>1. 1 \in (a + 1)..i /\ 1 \in DOMAIN h BY <1>0
  <2> QED BY <1>3, <2>1 DEF IsClean
<1>5. a \in DOMAIN h /\ a \in Nat BY <1>0, <1>3, <1>4
<1>6. h[a].role # "tool"
  <2> SUFFICES ASSUME h[a].role = "tool" PROVE FALSE OBVIOUS
  <2>1. a - 1 \in 0..i /\ ~(a <= a - 1) BY <1>0, <1>3, <1>4
  <2>2. \A j \in ((a - 1) + 1)..i : j = a \/ j \in (a + 1)..i BY <1>3, <1>0
  <2>3. \A j \in ((a - 1) + 1)..i : h[j].role = "tool" BY <1>3, <2>2
  <2>4. a - 1 \in S BY <2>1, <2>3
  <2> QED BY <1>2, <2>1, <2>4
<1> HIDE DEF S
<1>7. a + 1 \in (a + 1)..i
  <2>1. a # i BY <1>6
  <2> QED BY <1>0, <1>3, <2>1
<1>8. h[a].role = "assistant"
  <2>1. a + 1 \in DOMAIN h /\ h[a + 1].role = "tool" BY <1>0, <1>3, <1>5, <1>7
  <2>2. h[(a + 1) - 1].role # "user" BY <2>1 DEF IsClean
  <2>3. (a + 1) - 1 = a BY <1>5
  <2>4. h[a] \in M BY <1>5
  <2>5. h[a].role \in {"user", "assistant", "tool"} BY <2>4 DEF MessageSet
  <2> QED BY <1>6, <2>2, <2>3, <2>5
<1> DEFINE n == Len(h[a].calls)
<1>9. n \in Nat
  <2>1. h[a] \in M BY <1>5
  <2>2. h[a].calls \in Seq(I) BY <2>1 DEF MessageSet
  <2> QED BY <2>2
<1>10. a + n <= Len(h) /\ (a + n < Len(h) => h[a + n + 1].role # "tool")
  <2>1. FollowedByAnswers(h, a) BY <1>5, <1>8 DEF IsClean
  <2> QED BY <2>1 DEF FollowedByAnswers
<1> HIDE DEF n
<1>11. i <= a + n
  <2> SUFFICES ASSUME ~(i <= a + n) PROVE FALSE OBVIOUS
  <2>1. a + n + 1 \in (a + 1)..i /\ a + n < Len(h) BY <1>0, <1>5, <1>9
  <2> QED BY <1>3, <1>10, <2>1
<1>12. i \in (a + 1)..(a + n) BY <1>0, <1>5, <1>7, <1>9, <1>11
<1> QED BY <1>5, <1>8, <1>12 DEF n

\* A clean list answers each call once.
LEMMA AnsweredOnce ==
  ASSUME NEW M, NEW I, MessageSet(M, I), NEW h \in Seq(M), IsClean(h), CallsOnce(h),
         NEW i \in DOMAIN h, h[i].role = "tool"
  PROVE  h[i].id \in CallsOf(h) /\ FirstAnswer(h, h[i].id) = h[i]
<1> DEFINE id == h[i].id
<1>1. ASSUME NEW k \in DOMAIN h, h[k].role = "tool"
      PROVE  \E a \in DOMAIN h :
               /\ h[a].role = "assistant"
               /\ k \in (a + 1)..(a + Len(h[a].calls))
               /\ \E x \in DOMAIN h[a].calls : h[k].id = h[a].calls[x]
  <2>1. PICK a \in DOMAIN h : h[a].role = "assistant" /\ k \in (a + 1)..(a + Len(h[a].calls))
    BY <1>1, AnswersAnAssistant
  <2> DEFINE n == Len(h[a].calls)
  <2>2. a \in Nat /\ h[a].calls \in Seq(I) /\ n \in Nat /\ DOMAIN h[a].calls = 1..n
    <3>1. h[a] \in M /\ a \in Nat OBVIOUS
    <3>2. h[a].calls \in Seq(I) BY <3>1 DEF MessageSet
    <3> QED BY <3>1, <3>2
  <2>3. FollowedByAnswers(h, a) BY <2>1 DEF IsClean
  <2>4. {h[a + j].id : j \in 1..n} = {h[a].calls[j] : j \in 1..n}
    BY <2>3 DEF FollowedByAnswers
  <2>6. k \in (a + 1)..(a + n) BY <2>1
  <2> HIDE DEF n
  <2>5. k - a \in 1..n /\ a + (k - a) = k BY <2>2, <2>6
  <2>7. h[a + (k - a)].id \in {h[a + j].id : j \in 1..n} BY <2>5
  <2>8. h[k].id \in {h[a].calls[j] : j \in 1..n} BY <2>4, <2>5, <2>7
  <2> QED BY <2>1, <2>2, <2>8
<1>2. PICK a \in DOMAIN h :
        /\ h[a].role = "assistant" /\ i \in (a + 1)..(a + Len(h[a].calls))
        /\ \E x \in DOMAIN h[a].calls : h[i].id = h[a].calls[x]
  BY <1>1
<1>3. id \in CallsOf(h) BY <1>2 DEF CallsOf, ToSet
<1>4. ASSUME NEW k \in Answers(h, id) PROVE k = i
  <2>0. k \in DOMAIN h /\ h[k].role = "tool" /\ h[k].id = h[i].id BY DEF Answers
  <2>1. PICK b \in DOMAIN h :
          /\ h[b].role = "assistant" /\ k \in (b + 1)..(b + Len(h[b].calls))
          /\ \E x \in DOMAIN h[b].calls : h[k].id = h[b].calls[x]
    BY <1>1, <2>0
  <2>2. b = a
    <3>1. PICK x \in DOMAIN h[a].calls : h[i].id = h[a].calls[x] BY <1>2
    <3>2. PICK y \in DOMAIN h[b].calls : h[k].id = h[b].calls[y] BY <2>1
    <3>3. h[a].calls[x] = h[b].calls[y] BY <2>0, <3>1, <3>2
    <3> QED BY <3>3 DEF CallsOnce
  <2> DEFINE n == Len(h[a].calls)
             ids == {h[a].calls[j] : j \in 1..n}
             f == [j \in 1..n |-> h[a + j].id]
             c == [j \in 1..n |-> h[a].calls[j]]
  <2>3. a \in Nat /\ n \in Nat /\ DOMAIN h[a].calls = 1..n
    <3>1. h[a] \in M /\ a \in Nat OBVIOUS
    <3>2. h[a].calls \in Seq(I) BY <3>1 DEF MessageSet
    <3> QED BY <3>1, <3>2
  <2>4. {h[a + j].id : j \in 1..n} = ids
    <3>1. FollowedByAnswers(h, a) BY <1>2 DEF IsClean
    <3> QED BY <3>1 DEF FollowedByAnswers
  <2>5. i \in (a + 1)..(a + n) /\ k \in (a + 1)..(a + n) BY <1>2, <2>1, <2>2
  <2>6. \A x, y \in 1..n : h[a].calls[x] = h[a].calls[y] => x = y BY <2>3 DEF CallsOnce
  <2> HIDE DEF n
  <2>7. IsFiniteSet(1..n) /\ Cardinality(1..n) = n
    <3>1. IsFiniteSet(1..n) BY <2>3, FS_Interval
    <3>2. Cardinality(1..n) = IF 1 > n THEN 0 ELSE n - 1 + 1 BY <2>3, FS_Interval
    <3> QED BY <2>3, <3>1, <3>2
  <2>8. c \in Bijection(1..n, ids)
    <3>1. c \in [1..n -> ids] OBVIOUS
    <3>2. \A x, y \in 1..n : c[x] = c[y] => x = y BY <2>6
    <3>3. \A t \in ids : \E x \in 1..n : c[x] = t OBVIOUS
    <3> HIDE DEF c, ids
    <3> QED BY <3>1, <3>2, <3>3 DEF Bijection, Injection, Surjection, IsInjective
  <2>9. f \in Surjection(1..n, ids)
    <3>1. \A j \in 1..n : f[j] = h[a + j].id OBVIOUS
    <3>2. f \in [1..n -> {h[a + j].id : j \in 1..n}] OBVIOUS
    <3>3. \A t \in {h[a + j].id : j \in 1..n} : \E x \in 1..n : f[x] = t OBVIOUS
    <3> HIDE DEF f, ids
    <3> QED BY <2>4, <3>2, <3>3 DEF Surjection
  <2> HIDE DEF c, ids
  <2>10. IsFiniteSet(ids) /\ Cardinality(1..n) = Cardinality(ids)
    <3>1. ExistsBijection(1..n, ids) BY <2>8 DEF ExistsBijection
    <3>2. IsFiniteSet(ids) /\ Cardinality(ids) = Cardinality(1..n)
      BY <2>7, <3>1, FS_Bijection
    <3> QED BY <3>2
  <2>11. f \in Injection(1..n, ids) BY <2>7, <2>9, <2>10, FS_SurjSameCardinalityImpliesInj
  <2>12. i - a \in 1..n /\ k - a \in 1..n /\ a + (i - a) = i /\ a + (k - a) = k
    BY <2>3, <2>5
  <2>13. f[i - a] = h[i].id /\ f[k - a] = h[k].id BY <2>12
  <2> HIDE DEF f
  <2>14. i - a = k - a BY <2>0, <2>11, <2>12, <2>13 DEF Injection, IsInjective
  <2> QED BY <2>3, <2>5, <2>14
<1>5. i \in Answers(h, id) BY DEF Answers
<1>6. IsAnswered(h, id) BY <1>5 DEF IsAnswered
<1>7. PICK k \in Answers(h, id) : FirstAnswer(h, id) = h[k] BY <1>6, FirstAnswerIs
<1> QED BY <1>3, <1>4, <1>7
=============================================================================
