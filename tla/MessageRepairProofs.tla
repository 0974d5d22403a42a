------------------------- MODULE MessageRepairProofs -------------------------
(***************************************************************************)
(* repair_dangling_tool_calls, for every history: what it returns is a     *)
(* sequence of messages in which every AI message with tool_calls is       *)
(* followed by as many tool messages as it has calls.                      *)
(*                                                                         *)
(* Repair is a recursive function from the last message to the first; the  *)
(* proofs are inductions on the number of messages that are left.          *)
(***************************************************************************)
EXTENDS MessageRepair, SequenceFacts

Remembered == [kind : Kinds, ids : Seq(Nat), real : BOOLEAN]

\* Each message is followed by the tool messages it needs.
AnswersFollow(r) ==
  \A i \in DOMAIN r : \A k \in 1..Needed(r[i]) : i + k <= Len(r) /\ r[i + k].kind = "tool"

\* A message of the two kinds is one to remember.
LEMMA MessagesAreRemembered ==
  ASSUME NEW kind \in Kinds, NEW ids \in Seq(Nat)
  PROVE  /\ Message(kind, ids) \in Remembered /\ Message(kind, ids).kind = kind
         /\ Message(kind, ids).ids = ids
BY DEF Message, Remembered

\* The synthetic answer is a tool message.
LEMMA CancelledIsAnswer ==
  ASSUME NEW id \in Nat
  PROVE  Cancelled(id) \in Remembered /\ Cancelled(id).kind = "tool"
BY DEF Cancelled, Remembered, Kinds

\* A message needs a number of answers, and a tool message none.
LEMMA NeededType ==
  ASSUME NEW m \in Remembered
  PROVE  Needed(m) \in Nat /\ (m.kind = "tool" => Needed(m) = 0)
BY DEF Needed, Remembered

\* The answers that are there: no more than needed, within the history, tool messages.
LEMMA AnsweringCounts ==
  ASSUME NEW messages \in Seq(Remembered), NEW i \in 1..Len(messages)
  PROVE  /\ Answering(messages, i) \in 0..Needed(messages[i])
         /\ i + Answering(messages, i) <= Len(messages)
         /\ \A j \in 1..Answering(messages, i) : messages[i + j].kind = "tool"
<1> DEFINE T == {k \in 0..Needed(messages[i]) :
                   i + k <= Len(messages) /\ \A j \in 1..k : messages[i + j].kind = "tool"}
<1>1. Needed(messages[i]) \in Nat
  <2>1. messages[i] \in Remembered
    OBVIOUS
  <2> QED BY <2>1, NeededType
<1>2. T \subseteq Nat /\ \A t \in T : t <= Needed(messages[i])
  BY <1>1
<1>3. 0 \in T
  BY <1>1
<1> HIDE DEF T
<1>4. \E x \in T : \A y \in T : x >= y
  BY <1>1, <1>2, <1>3, BoundedSetHasMax
<1>5. Max(T) \in T
  BY <1>4 DEF Max
<1>6. Answering(messages, i) = Max(T)
  BY DEF Answering, T
<1>7. Answering(messages, i) \in T
  BY <1>5, <1>6
<1> QED BY <1>7 DEF T

\* A message with its answers, those that are there and those that are missing.
Block(messages, i) ==
  SubSeq(messages, i, i + Answering(messages, i)) \o Missing(messages, i)

LEMMA BlockIsAnswered ==
  ASSUME NEW messages \in Seq(Remembered), NEW i \in 1..Len(messages)
  PROVE  /\ Block(messages, i) \in Seq(Remembered)
         /\ Len(Block(messages, i)) = 1 + Needed(messages[i])
         /\ Block(messages, i)[1] = messages[i]
         /\ \A k \in 1..Needed(messages[i]) : Block(messages, i)[1 + k].kind = "tool"
<1> PICK n \in Nat, c \in Nat :
      n = Needed(messages[i]) /\ c = Answering(messages, i)
  <2>1. messages[i] \in Remembered
    OBVIOUS
  <2>2. Needed(messages[i]) \in Nat
    BY <2>1, NeededType
  <2>3. Answering(messages, i) \in 0..Needed(messages[i])
    BY AnsweringCounts
  <2> QED BY <2>2, <2>3
<1> DEFINE there   == SubSeq(messages, i, i + c)
           missing == Missing(messages, i)
<1>1. c <= n /\ i + c <= Len(messages) /\ \A j \in 1..c : messages[i + j].kind = "tool"
  BY AnsweringCounts
<1>2. there \in Seq(Remembered) /\ Len(there) = c + 1
      /\ \A k \in 1..(c + 1) : there[k] = messages[i + k - 1]
  <2>1. \A k \in i..(i + c) : messages[k] \in Remembered
    BY <1>1
  <2>2. i \in Int /\ i + c \in Int
    OBVIOUS
  <2>3. /\ there \in Seq(Remembered)
        /\ Len(there) = IF i <= i + c THEN (i + c) - i + 1 ELSE 0
        /\ \A k \in 1..((i + c) - i + 1) : there[k] = messages[i + k - 1]
    BY ONLY <2>1, <2>2, SubSeqProperties
  <2> QED BY <2>3
<1>3. missing \in Seq(Remembered) /\ Len(missing) = n - c
      /\ \A k \in 1..(n - c) : missing[k].kind = "tool"
  <2>1. PICK d \in Nat : d = n - c
    <3>1. n - c \in Nat
      BY <1>1
    <3> QED BY <3>1
  <2>2. missing = [k \in 1..d |-> Cancelled(messages[i].ids[c + k])]
    BY <2>1 DEF Missing
  <2>3. ASSUME NEW k \in 1..d
        PROVE  messages[i].ids[c + k] \in Nat
    <3>1. PICK ids \in Seq(Nat) : ids = messages[i].ids
      <4>1. messages[i] \in Remembered
        OBVIOUS
      <4> QED BY <4>1 DEF Remembered
    <3>2. n = IF messages[i].kind = "calls" THEN Len(ids) ELSE 0
      BY <3>1 DEF Needed
    <3>3. n = Len(ids)
      BY <2>1, <3>2
    <3>4. c + k \in 1..Len(ids)
      BY <2>1, <3>3
    <3>5. ids[c + k] \in Nat
      BY <3>4
    <3> QED BY <3>1, <3>5
  <2>4. \A k \in 1..d :
          /\ Cancelled(messages[i].ids[c + k]) \in Remembered
          /\ Cancelled(messages[i].ids[c + k]).kind = "tool"
    BY <2>3, CancelledIsAnswer
  <2>5. missing \in [1..d -> Remembered] /\ \A k \in 1..d : missing[k].kind = "tool"
    BY <2>2, <2>4
  <2> HIDE DEF missing
  <2>6. missing \in Seq(Remembered) /\ Len(missing) = d
    BY <2>5
  <2> QED BY <2>1, <2>5, <2>6
<1> HIDE DEF there, missing
<1> DEFINE block == there \o missing
<1>4. /\ block \in Seq(Remembered) /\ Len(block) = Len(there) + Len(missing)
      /\ \A k \in 1..(Len(there) + Len(missing)) :
           block[k] = IF k <= Len(there) THEN there[k] ELSE missing[k - Len(there)]
  BY ONLY <1>2, <1>3, ConcatProperties
<1>5. Block(messages, i) = block
  BY DEF Block, there, missing
<1> HIDE DEF block
<1>6. Len(block) = 1 + n
  BY <1>1, <1>2, <1>3, <1>4
<1>7. block[1] = messages[i]
  <2>1. 1 \in 1..(Len(there) + Len(missing)) /\ 1 <= Len(there) /\ 1 \in 1..(c + 1)
    BY SMTT(20), <1>1, <1>2, <1>3
  <2>2. block[1] = there[1]
    BY <1>4, <2>1
  <2>3. there[1] = messages[i + 1 - 1]
    BY <1>2, <2>1
  <2> QED BY <2>2, <2>3
<1>8. ASSUME NEW k \in 1..n
      PROVE  block[1 + k].kind = "tool"
  <2>1. 1 + k \in 1..(Len(there) + Len(missing))
    BY <1>1, <1>2, <1>3
  <2>2. CASE k <= c
    <3>1. 1 + k \in 1..(c + 1) /\ i + (1 + k) - 1 = i + k /\ k \in 1..c
      BY <2>2
    <3>2. there[1 + k] = messages[i + k]
      BY <1>2, <3>1
    <3>3. block[1 + k] = there[1 + k]
      BY <1>2, <1>4, <2>1, <3>1
    <3> QED BY <1>1, <3>1, <3>2, <3>3
  <2>3. CASE ~(k <= c)
    <3>1. (1 + k) - (c + 1) = k - c /\ k - c \in 1..(n - c) /\ ~(1 + k <= c + 1)
      BY <2>3
    <3>2. block[1 + k] = missing[(1 + k) - (c + 1)]
      BY <1>2, <1>4, <2>1, <3>1
    <3> QED BY <1>3, <3>1, <3>2
  <2> QED BY <2>2, <2>3
<1> QED BY <1>4, <1>5, <1>6, <1>7, <1>8

\* A message with its answers before a history that has its own.
LEMMA BlocksFollow ==
  ASSUME NEW messages \in Seq(Remembered), NEW i \in 1..Len(messages),
         NEW rest \in Seq(Remembered), AnswersFollow(rest)
  PROVE  /\ Block(messages, i) \o rest \in Seq(Remembered)
         /\ AnswersFollow(Block(messages, i) \o rest)
<1> DEFINE block == Block(messages, i)
           all   == block \o rest
<1> PICK n \in Nat, l \in Nat : n = Needed(messages[i]) /\ l = Len(rest)
  <2>1. messages[i] \in Remembered
    OBVIOUS
  <2> QED BY <2>1, NeededType
<1>1. /\ block \in Seq(Remembered) /\ Len(block) = 1 + n /\ block[1] = messages[i]
      /\ \A k \in 1..n : block[1 + k].kind = "tool"
  BY BlockIsAnswered
<1> HIDE DEF block
<1>2. /\ all \in Seq(Remembered) /\ Len(all) = Len(block) + Len(rest)
      /\ \A k \in 1..(Len(block) + Len(rest)) :
           all[k] = IF k <= Len(block) THEN block[k] ELSE rest[k - Len(block)]
  BY ONLY <1>1, rest \in Seq(Remembered), ConcatProperties
<1> HIDE DEF all
<1>3. /\ Len(all) = 1 + n + l /\ DOMAIN all = 1..(1 + n + l)
      /\ \A k \in 1..(1 + n) : all[k] = block[k]
      /\ \A k \in 1..l : all[1 + n + k] = rest[k]
  <2>1. Len(all) = 1 + n + l /\ DOMAIN all = 1..(1 + n + l)
    BY <1>1, <1>2
  <2>2. ASSUME NEW k \in 1..(1 + n)
        PROVE  all[k] = block[k]
    <3>1. k \in 1..(Len(block) + Len(rest)) /\ k <= Len(block)
      BY <1>1
    <3> QED BY <1>2, <3>1
  <2>3. ASSUME NEW k \in 1..l
        PROVE  all[1 + n + k] = rest[k]
    <3>1. /\ 1 + n + k \in 1..(Len(block) + Len(rest)) /\ ~(1 + n + k <= Len(block))
          /\ (1 + n + k) - Len(block) = k
      BY <1>1
    <3>2. all[1 + n + k] = rest[(1 + n + k) - Len(block)]
      BY <1>2, <3>1
    <3> QED BY <3>1, <3>2
  <2> QED BY <2>1, <2>2, <2>3
<1>4. ASSUME NEW p \in 1..(1 + n + l), NEW k \in 1..Needed(all[p])
      PROVE  p + k <= 1 + n + l /\ all[p + k].kind = "tool"
  <2>1. CASE p = 1
    <3>1. all[p] = messages[i] /\ k \in 1..n
      BY <1>1, <1>3, <2>1
    <3>2. 1 + k \in 1..(1 + n) /\ 1 + k <= 1 + n + l
      BY <3>1
    <3>3. all[1 + k] = block[1 + k]
      BY <1>3, <3>2
    <3> QED BY <1>1, <2>1, <3>1, <3>2, <3>3
  <2>2. CASE p \in 2..(1 + n)
    <3>1. PICK q \in 1..n : p = 1 + q
      <4>1. p - 1 \in 1..n /\ p = 1 + (p - 1)
        BY <2>2
      <4> QED BY <4>1
    <3>2. all[p].kind = "tool" /\ all[p] \in Remembered
      BY SMTT(20), <1>1, <1>2, <1>3, <2>2, <3>1
    <3>3. Needed(all[p]) = 0
      BY <3>2, NeededType
    <3> QED BY <3>3
  <2>3. CASE p \in (2 + n)..(1 + n + l)
    <3>1. PICK q \in 1..l : p = 1 + n + q
      <4>1. p - (1 + n) \in 1..l /\ p = 1 + n + (p - (1 + n))
        BY <2>3
      <4> QED BY <4>1
    <3>2. all[p] = rest[q]
      BY <1>3, <3>1
    <3>3. q + k <= l /\ rest[q + k].kind = "tool"
      <4>1. q \in DOMAIN rest /\ k \in 1..Needed(rest[q])
        BY <3>2
      <4> QED BY <4>1 DEF AnswersFollow
    <3>4. Needed(rest[q]) \in Nat
      <4>1. rest[q] \in Remembered
        OBVIOUS
      <4> QED BY <4>1, NeededType
    <3>5. q + k \in 1..l /\ p + k = 1 + n + (q + k) /\ p + k <= 1 + n + l
      BY <3>1, <3>2, <3>3, <3>4
    <3>6. all[1 + n + (q + k)] = rest[q + k]
      BY <1>3, <3>5
    <3> QED BY <3>3, <3>5, <3>6
  <2>4. p = 1 \/ p \in 2..(1 + n) \/ p \in (2 + n)..(1 + n + l)
    OBVIOUS
  <2> QED BY <2>1, <2>2, <2>3, <2>4
<1>5. AnswersFollow(all)
  BY <1>3, <1>4 DEF AnswersFollow
<1> QED BY <1>2, <1>5 DEF all, block

\* from of Repair, on the histories that begin at lo or later.
IsRepaired(from, messages, lo) ==
  /\ from \in [lo..(Len(messages) + 1) -> Seq(Remembered)]
  /\ from[Len(messages) + 1] = <<>>
  /\ \A i \in lo..Len(messages) :
       from[i] = Block(messages, i) \o from[i + 1 + Answering(messages, i)]
  /\ \A i \in lo..(Len(messages) + 1) : AnswersFollow(from[i])

\* One message earlier.
LEMMA RepairedGrows ==
  ASSUME NEW messages \in Seq(Remembered), NEW lo \in 1..Len(messages),
         NEW from, IsRepaired(from, messages, lo + 1)
  PROVE  \E more : IsRepaired(more, messages, lo)
<1> PICK n \in Nat, c \in Nat : n = Len(messages) /\ c = Answering(messages, lo)
  <2>1. Needed(messages[lo]) \in Nat
    <3>1. messages[lo] \in Remembered
      OBVIOUS
    <3> QED BY <3>1, NeededType
  <2> QED BY <2>1, AnsweringCounts
<1>1. /\ from \in [(lo + 1)..(n + 1) -> Seq(Remembered)]
      /\ from[n + 1] = <<>>
      /\ \A i \in (lo + 1)..n : from[i] = Block(messages, i) \o from[i + 1 + Answering(messages, i)]
      /\ \A i \in (lo + 1)..(n + 1) : AnswersFollow(from[i])
  BY DEF IsRepaired
<1>2. lo + c <= n /\ lo + 1 + c \in (lo + 1)..(n + 1)
  BY AnsweringCounts
<1> DEFINE rest == from[lo + 1 + c]
           all  == Block(messages, lo) \o rest
           more == [i \in lo..(n + 1) |-> IF i = lo THEN all ELSE from[i]]
<1>3. rest \in Seq(Remembered) /\ AnswersFollow(rest)
  BY <1>1, <1>2
<1>4. all \in Seq(Remembered) /\ AnswersFollow(all)
  <2> HIDE DEF rest
  <2> QED BY <1>3, BlocksFollow
<1>5. \A i \in lo..(n + 1) : i = lo \/ i \in (lo + 1)..(n + 1)
  OBVIOUS
<1>6. more[lo] = all /\ \A i \in (lo + 1)..(n + 1) : more[i] = from[i]
  <2> HIDE DEF all
  <2>1. lo \in lo..(n + 1) /\ \A i \in (lo + 1)..(n + 1) : i \in lo..(n + 1) /\ i # lo
    BY <1>2
  <2> QED BY <2>1
<1>7. more \in [lo..(n + 1) -> Seq(Remembered)]
  <2> HIDE DEF all
  <2> QED BY <1>1, <1>4, <1>5
<1> HIDE DEF more, all
<1>8. more[n + 1] = <<>>
  BY <1>1, <1>2, <1>6
<1>9. ASSUME NEW i \in lo..n
      PROVE  more[i] = Block(messages, i) \o more[i + 1 + Answering(messages, i)]
  <2>1. PICK a \in Nat : a = Answering(messages, i)
    <3>1. i \in 1..Len(messages) /\ messages[i] \in Remembered
      OBVIOUS
    <3>2. Needed(messages[i]) \in Nat
      BY <3>1, NeededType
    <3> QED BY <3>1, <3>2, AnsweringCounts
  <2>2. i + a <= n
    <3>1. i \in 1..Len(messages)
      OBVIOUS
    <3> QED BY <2>1, <3>1, AnsweringCounts
  <2>3. i + 1 + a \in (lo + 1)..(n + 1)
    BY <2>2
  <2>4. more[i + 1 + a] = from[i + 1 + a]
    BY <1>6, <2>3
  <2>5. CASE i = lo
    <3>1. a = c
      BY <2>1, <2>5
    <3> QED BY <1>6, <2>1, <2>4, <2>5, <3>1 DEF all
  <2>6. CASE i # lo
    <3>1. i \in (lo + 1)..n /\ i \in (lo + 1)..(n + 1)
      BY <2>6
    <3>2. from[i] = Block(messages, i) \o from[i + 1 + a]
      BY <1>1, <2>1, <3>1
    <3> QED BY <1>6, <2>1, <2>4, <3>1, <3>2
  <2> QED BY <2>5, <2>6
<1>10. \A i \in lo..(n + 1) : AnswersFollow(more[i])
  BY <1>1, <1>4, <1>5, <1>6
<1>11. IsRepaired(more, messages, lo)
  BY <1>7, <1>8, <1>9, <1>10 DEF IsRepaired
<1> QED BY <1>11

\* From the last message down to the first.
LEMMA RepairedExists ==
  ASSUME NEW messages \in Seq(Remembered)
  PROVE  \E from : IsRepaired(from, messages, 1)
<1> PICK n \in Nat : n = Len(messages)
  OBVIOUS
<1> DEFINE S == {k \in Nat : k <= n => \E from : IsRepaired(from, messages, n + 1 - k)}
<1>1. 0 \in S
  <2> DEFINE from == [i \in (n + 1)..(n + 1) |-> <<>>]
  <2>1. <<>> \in Seq(Remembered) /\ AnswersFollow(<<>>)
    BY DEF AnswersFollow
  <2>2. from \in [(n + 1)..(n + 1) -> Seq(Remembered)] /\ from[n + 1] = <<>>
    BY <2>1
  <2>3. \A i \in (n + 1)..(n + 1) : AnswersFollow(from[i])
    <3>1. \A i \in (n + 1)..(n + 1) : from[i] = <<>>
      OBVIOUS
    <3> QED BY <2>1, <3>1
  <2>4. \A i \in (n + 1)..n : FALSE
    OBVIOUS
  <2> HIDE DEF from
  <2>5. IsRepaired(from, messages, n + 1)
    BY <2>2, <2>3, <2>4 DEF IsRepaired
  <2>6. n + 1 - 0 = n + 1
    OBVIOUS
  <2> QED BY <2>5, <2>6
<1>2. ASSUME NEW k \in Nat, k \in S
      PROVE  k + 1 \in S
  <2> SUFFICES ASSUME k + 1 <= n
               PROVE  \E from : IsRepaired(from, messages, n + 1 - (k + 1))
    OBVIOUS
  <2>1. PICK lo \in 1..n : lo = n - k
    <3>1. n - k \in 1..n
      OBVIOUS
    <3> QED BY <3>1
  <2>2. n + 1 - k = lo + 1 /\ n + 1 - (k + 1) = lo /\ k <= n
    BY <2>1
  <2>3. PICK from : IsRepaired(from, messages, lo + 1)
    BY <1>2, <2>2
  <2>4. \E more : IsRepaired(more, messages, lo)
    BY <2>3, RepairedGrows
  <2> QED BY <2>2, <2>4
<1> HIDE DEF S
<1>3. Nat \subseteq S
  BY <1>1, <1>2, NatSetInduction
<1>4. n \in S
  BY <1>3
<1>5. n + 1 - n = 1
  OBVIOUS
<1> QED BY <1>4, <1>5 DEF S

\* The function Repair defines is the only one, and it is this one.
LEMMA RepairIsAnswered ==
  ASSUME NEW messages \in Seq(Remembered)
  PROVE  Repair(messages) \in Seq(Remembered) /\ AnswersFollow(Repair(messages))
<1> PICK n \in Nat : n = Len(messages)
  OBVIOUS
<1> DEFINE Is(from) ==
      from = [i \in 1..(n + 1) |->
                IF i > n THEN <<>>
                ELSE SubSeq(messages, i, i + Answering(messages, i)) \o Missing(messages, i)
                       \o from[i + 1 + Answering(messages, i)]]
<1>1. PICK from : IsRepaired(from, messages, 1)
  BY RepairedExists
<1>2. Is(from)
  <2>1. from \in [1..(n + 1) -> Seq(Remembered)]
    BY <1>1 DEF IsRepaired
  <2>2. \A i \in 1..(n + 1) : i > n => i = n + 1
    OBVIOUS
  <2>3. \A i \in 1..(n + 1) : ~(i > n) => i \in 1..n
    OBVIOUS
  <2>4. \A i \in 1..n : from[i] = SubSeq(messages, i, i + Answering(messages, i))
          \o Missing(messages, i) \o from[i + 1 + Answering(messages, i)]
    BY <1>1 DEF IsRepaired, Block
  <2>5. from[n + 1] = <<>>
    BY <1>1 DEF IsRepaired
  <2> QED BY <2>1, <2>2, <2>3, <2>4, <2>5, Zenon
<1> DEFINE some == CHOOSE f : Is(f)
<1>3. Is(some)
  <2> HIDE DEF Is
  <2> QED BY <1>2
<1>4. Repair(messages) = some[1]
  BY DEF Repair
<1> HIDE DEF some
<1> DEFINE S == {k \in Nat : k <= n => \A i \in (n + 1 - k)..(n + 1) : some[i] = from[i]}
<1>5. \A i \in 1..n :
        /\ some[i] = Block(messages, i) \o some[i + 1 + Answering(messages, i)]
        /\ from[i] = Block(messages, i) \o from[i + 1 + Answering(messages, i)]
  <2>1. \A i \in 1..n : i \in 1..(n + 1) /\ ~(i > n)
    OBVIOUS
  <2> QED BY <1>2, <1>3, <2>1 DEF Block
<1>6. some[n + 1] = <<>> /\ from[n + 1] = <<>>
  <2>1. n + 1 \in 1..(n + 1) /\ n + 1 > n
    OBVIOUS
  <2> QED BY <1>2, <1>3, <2>1
<1> HIDE DEF Is
<1>7. 0 \in S
  <2>1. n + 1 - 0 = n + 1 /\ \A i \in (n + 1)..(n + 1) : i = n + 1
    OBVIOUS
  <2> QED BY <1>6, <2>1
<1>8. ASSUME NEW k \in Nat, k \in S
      PROVE  k + 1 \in S
  <2> SUFFICES ASSUME k + 1 <= n
               PROVE  \A i \in (n + 1 - (k + 1))..(n + 1) : some[i] = from[i]
    OBVIOUS
  <2>1. PICK lo \in 1..n : lo = n - k
    <3>1. n - k \in 1..n
      OBVIOUS
    <3> QED BY <3>1
  <2>2. n + 1 - k = lo + 1 /\ n + 1 - (k + 1) = lo /\ k <= n
    BY <2>1
  <2>3. \A i \in (lo + 1)..(n + 1) : some[i] = from[i]
    BY <1>8, <2>2
  <2>4. PICK c \in Nat : c = Answering(messages, lo) /\ lo + c <= n
    <3>1. lo \in 1..Len(messages) /\ messages[lo] \in Remembered
      OBVIOUS
    <3>2. Needed(messages[lo]) \in Nat
      BY <3>1, NeededType
    <3> QED BY <3>1, <3>2, AnsweringCounts
  <2>5. lo + 1 + c \in (lo + 1)..(n + 1)
    BY <2>4
  <2>6. some[lo] = from[lo]
    BY <1>5, <2>3, <2>4, <2>5
  <2>7. \A i \in lo..(n + 1) : i = lo \/ i \in (lo + 1)..(n + 1)
    OBVIOUS
  <2> QED BY <2>2, <2>3, <2>6, <2>7
<1> HIDE DEF S
<1>9. Nat \subseteq S
  BY <1>7, <1>8, NatSetInduction
<1>10. some[1] = from[1]
  <2>1. n \in S /\ n + 1 - n = 1 /\ 1 \in 1..(n + 1)
    BY <1>9
  <2> QED BY <2>1 DEF S
<1>11. from[1] \in Seq(Remembered) /\ AnswersFollow(from[1])
  <2>1. 1 \in 1..(Len(messages) + 1)
    OBVIOUS
  <2> QED BY <1>1, <2>1 DEF IsRepaired
<1> QED BY <1>4, <1>10, <1>11
=============================================================================
