-------------------------- MODULE PromptBudgetProofs --------------------------
(***************************************************************************)
(* What enforce_budget and pad_system_message guarantee of a prompt, for   *)
(* every limit, every session and every size of its messages.              *)
(*                                                                         *)
(* A prompt starts with the system prompt and ends with the question all   *)
(* along: dropping spares both.  So there is always a user message, the    *)
(* loop ends only within the budget, padding starts within it and stays.   *)
(* And it ends: if the blocks leave room for a question, every step brings *)
(* a natural number down.                                                  *)
(***************************************************************************)
EXTENDS PromptBudget, SequenceTheorems, WellFoundedInduction, TLAPS

(* The first and the last message of the prompt, and the question's state. *)
Framed ==
    /\ recent \in Seq(Message) /\ recent # <<>>
    /\ Len(messages) >= 2
    /\ messages[1].role = "system" /\ messages[1].width = 1
    /\ messages[Len(messages)].role = "user"
    /\ KeepsQuestion

(* Past the loop the prompt fits, and past the padding it is full, where   *)
(* padding is wanted and not limited.                                      *)
Fitted ==
    /\ phase # "fit" => Bytes(messages) <= MaxPrompt
    /\ phase \in {"refit", "sent"} /\ PadSystem /\ MaxPadding >= MaxPrompt
          => Bytes(messages) >= MaxPrompt - PadOverhead

IInv == TypeOK /\ Framed /\ Fitted

-----------------------------------------------------------------------------
(* Arithmetic and sums.                                                    *)

(* A nonempty set of natural numbers has a least one.                      *)
LEMMA Least ==
    ASSUME NEW T, T \subseteq Nat, T # {}
    PROVE  \E i \in T : \A j \in T : i <= j
<1> DEFINE less == OpToRel(<, Nat)
<1>1. IsWellFoundedOn(less, Nat) BY NatLessThanWellFounded, Zenon
<1>2. PICK i \in T : \A j \in T : <<j, i>> \notin less
  <2> HIDE DEF less
  <2> QED BY <1>1, WFMin
<1>3. ASSUME NEW j \in T PROVE i <= j
  <2>1. i \in Nat /\ j \in Nat OBVIOUS
  <2>2. ~(j < i) BY <1>2, <2>1 DEF OpToRel
  <2> QED BY <2>1, <2>2
<1> QED BY <1>3

(* The running sum of some weights: 0, and from place to place one more.   *)
SumsTo(f, w, n) ==
    /\ f \in [0..n -> Nat]
    /\ \A k \in 0..n : f[k] = IF k = 0 THEN 0 ELSE f[k - 1] + w[k]

(* It exists, up to any place. *)
LEMMA SumExists ==
    ASSUME NEW N \in Nat, NEW w \in [1..N -> Nat]
    PROVE  \E f : SumsTo(f, w, N)
<1> DEFINE Bad == {n \in 0..N : ~\E f : SumsTo(f, w, n)}
<1> SUFFICES ASSUME Bad # {} PROVE FALSE
  <2>1. N \in 0..N OBVIOUS
  <2>2. N \notin Bad => \E f : SumsTo(f, w, N) BY <2>1
  <2> QED BY <2>2
<1>1. PICK n \in Bad : \A j \in Bad : n <= j
  <2>1. Bad \subseteq Nat OBVIOUS
  <2> HIDE DEF Bad
  <2> QED BY <2>1, Least
<1>2. CASE n = 0
  <2>1. SumsTo([k \in 0..0 |-> 0], w, 0) BY DEF SumsTo
  <2> QED BY <1>1, <1>2, <2>1
<1>3. CASE n # 0
  <2>1. n \in Nat /\ n - 1 \in 0..N /\ n \in 1..N /\ ~(n <= n - 1)
    BY <1>1, <1>3
  <2>2. n - 1 \notin Bad BY <1>1, <2>1
  <2>3. PICK f : SumsTo(f, w, n - 1) BY <2>1, <2>2
  <2> DEFINE g == [k \in 0..n |-> IF k = n THEN f[n - 1] + w[n] ELSE f[k]]
  <2>4. f[n - 1] \in Nat /\ w[n] \in Nat BY <2>1, <2>3 DEF SumsTo
  <2>5. g \in [0..n -> Nat] BY <2>1, <2>3, <2>4 DEF SumsTo
  <2>6. ASSUME NEW k \in 0..n
        PROVE  g[k] = IF k = 0 THEN 0 ELSE g[k - 1] + w[k]
    <3>1. CASE k = n BY <1>3, <2>1, <3>1
    <3>2. CASE k # n
      <4>1. k \in 0..(n - 1) /\ g[k] = f[k] BY <2>1, <3>2
      <4>2. k # 0 => k - 1 \in 0..n /\ k - 1 # n /\ g[k - 1] = f[k - 1]
        BY <2>1, <3>2
      <4> QED BY <2>3, <4>1, <4>2 DEF SumsTo
    <3> QED BY <3>1, <3>2
  <2>7. SumsTo(g, w, n)
    <3> HIDE DEF g
    <3> QED BY <2>5, <2>6 DEF SumsTo
  <2> QED BY <1>1, <2>7
<1> QED BY <1>2, <1>3

Weighed(w, n) == w \in [1..n -> Nat]
SameRest(v, w, n) == \A k \in 2..n : w[k] = v[k]

(* Where only the first weight differs the sums differ by as much.         *)
LEMMA SumsDiffer ==
    ASSUME NEW N \in Nat \ {0}, NEW v, NEW w, NEW f, NEW g,
           Weighed(v, N), Weighed(w, N), SameRest(v, w, N),
           SumsTo(f, v, N), SumsTo(g, w, N)
    PROVE  g[N] - f[N] = w[1] - v[1]
<1> USE DEF Weighed, SameRest
<1> DEFINE Bad == {n \in 1..N : g[n] - f[n] # w[1] - v[1]}
<1> SUFFICES ASSUME Bad # {} PROVE FALSE
  <2>1. N \in 1..N OBVIOUS
  <2>2. N \notin Bad => g[N] - f[N] = w[1] - v[1] BY <2>1
  <2> QED BY <2>2
<1>1. PICK n \in Bad : \A j \in Bad : n <= j
  <2>1. Bad \subseteq Nat OBVIOUS
  <2> HIDE DEF Bad
  <2> QED BY <2>1, Least
<1>2. n \in 1..N /\ n \in 0..N /\ n - 1 \in 0..N /\ g[n] - f[n] # w[1] - v[1]
  BY <1>1
<1>3. /\ g[n] = g[n - 1] + w[n] /\ f[n] = f[n - 1] + v[n]
      /\ g[n - 1] \in Nat /\ f[n - 1] \in Nat /\ w[n] \in Nat /\ v[n] \in Nat
      /\ g[0] = 0 /\ f[0] = 0
  <2>1. n # 0 /\ 0 \in 0..N BY <1>2
  <2>2. w[n] \in Nat /\ v[n] \in Nat BY <1>2
  <2>3. f[n] = f[n - 1] + v[n] /\ f[n - 1] \in Nat /\ f[0] = 0
    BY <1>2, <2>1 DEF SumsTo
  <2>4. g[n] = g[n - 1] + w[n] /\ g[n - 1] \in Nat /\ g[0] = 0
    BY <1>2, <2>1 DEF SumsTo
  <2> QED BY <2>2, <2>3, <2>4
<1>4. CASE n = 1
  <2>1. n - 1 = 0 BY <1>4
  <2>2. g[n - 1] = 0 /\ f[n - 1] = 0 BY <1>3, <2>1
  <2> QED BY <1>2, <1>3, <1>4, <2>2
<1>5. CASE n # 1
  <2>1. n - 1 \in 1..N /\ n \in 2..N /\ ~(n <= n - 1) BY <1>2, <1>5
  <2>2. g[n - 1] - f[n - 1] = w[1] - v[1] BY <1>1, <2>1
  <2>3. w[n] = v[n] BY <2>1
  <2> QED BY <1>2, <1>3, <2>2, <2>3, SMTT(30)
<1> QED BY <1>4, <1>5

Weights(ms) == [k \in 1..Len(ms) |-> Weight(ms[k])]

(* A message has a weight.                                                 *)
LEMMA WeightType == ASSUME NEW m \in Message PROVE Weight(m) \in Nat
<1>1. m.chars \in Nat /\ m.width \in Nat /\ m.role \in Roles BY DEF Message
<1>2. m.chars * m.width \in Nat BY <1>1
<1>3. RoleLen(m.role) \in Nat BY <1>1 DEF RoleLen, Roles
<1>4. ContentBytes(m) \in Nat BY <1>2 DEF ContentBytes, Ellipsis
<1> QED BY <1>3, <1>4 DEF Weight

(* The size of a prompt is the sum of its messages' weights.               *)
LEMMA BytesIsSum ==
    ASSUME NEW ms \in Seq(Message)
    PROVE  /\ Weights(ms) \in [1..Len(ms) -> Nat]
           /\ \E f : SumsTo(f, Weights(ms), Len(ms)) /\ Bytes(ms) = f[Len(ms)]
<1> DEFINE N == Len(ms)
           w == Weights(ms)
<1>1. N \in Nat OBVIOUS
<1>2. /\ w \in [1..N -> Nat]
      /\ \A k \in 1..N : w[k] = Weight(ms[k])
  <2>1. \A k \in 1..N : ms[k] \in Message OBVIOUS
  <2> QED BY <2>1, WeightType DEF Weights
<1>3. PICK f : SumsTo(f, w, N)
  <2> HIDE DEF N, w
  <2> QED BY <1>1, <1>2, SumExists
<1> DEFINE Sums(h) == h = [n \in 0..N |->
                        IF n = 0 THEN 0 ELSE h[n - 1] + Weight(ms[n])]
           sum == CHOOSE h : Sums(h)
<1>4. Bytes(ms) = sum[N] BY DEF Bytes
<1> HIDE DEF N, w
<1>5. Sums(f)
  <2>1. \A n \in 0..N : n # 0 => n \in 1..N BY <1>1
  <2> QED BY <1>1, <1>2, <1>3, <2>1 DEF SumsTo
<1>6. Sums(sum)
  <2> HIDE DEF Sums
  <2> QED BY <1>5
<1> HIDE DEF sum
<1>7. sum[N] = f[N]
  <2> DEFINE Bad == {n \in 0..N : sum[n] # f[n]}
  <2> SUFFICES ASSUME Bad # {} PROVE FALSE
    <3>1. N \in 0..N BY <1>1
    <3>2. N \notin Bad => sum[N] = f[N] BY <3>1
    <3> QED BY <3>2
  <2>1. PICK n \in Bad : \A j \in Bad : n <= j
    <3>1. Bad \subseteq Nat BY <1>1
    <3> HIDE DEF Bad
    <3> QED BY <3>1, Least
  <2>2. n \in 0..N /\ sum[n] # f[n] BY <2>1
  <2>3. /\ sum[n] = IF n = 0 THEN 0 ELSE sum[n - 1] + Weight(ms[n])
        /\ f[n] = IF n = 0 THEN 0 ELSE f[n - 1] + Weight(ms[n])
    BY <1>5, <1>6, <2>2
  <2>4. n # 0 BY <2>2, <2>3
  <2>5. n - 1 \in 0..N /\ ~(n <= n - 1) BY <1>1, <2>2, <2>4
  <2>6. sum[n - 1] = f[n - 1] BY <2>1, <2>5
  <2> QED BY <2>2, <2>3, <2>4, <2>6
<1> QED BY <1>2, <1>3, <1>4, <1>7 DEF N, w

LEMMA BytesType == ASSUME NEW ms \in Seq(Message) PROVE Bytes(ms) \in Nat
<1>1. PICK f : SumsTo(f, Weights(ms), Len(ms)) /\ Bytes(ms) = f[Len(ms)]
  BY BytesIsSum
<1>2. Len(ms) \in 0..Len(ms) OBVIOUS
<1> QED BY <1>1, <1>2 DEF SumsTo

(* What is added to the first message of a prompt is added to its size.    *)
LEMMA FirstGrows ==
    ASSUME NEW ms \in Seq(Message), ms # <<>>, NEW d \in Nat, ms[1].width = 1
    PROVE  LET grown == [ms EXCEPT ![1].chars = @ + d]
           IN  grown \in Seq(Message) /\ Bytes(grown) = Bytes(ms) + d
<1> DEFINE first == [ms[1] EXCEPT !.chars = @ + d]
           grown == [ms EXCEPT ![1] = first]
<1>1. /\ Len(ms) \in Nat \ {0} /\ 1 \in 1..Len(ms) /\ DOMAIN ms = 1..Len(ms)
      /\ ms[1] \in Message
  OBVIOUS
<1>2. first \in Message /\ Weight(first) = Weight(ms[1]) + d
  <2>1. first.chars = ms[1].chars + d /\ first.width = 1 /\ ms[1].width = 1
        /\ first.role = ms[1].role /\ first.dots = ms[1].dots
        /\ ms[1].chars \in Nat /\ ms[1].role \in Roles
    BY <1>1 DEF Message
  <2>2. first \in Message
    <3> DEFINE m == ms[1]
               size == m.chars + d
    <3>1. m \in Message /\ size \in Nat BY <1>1, <2>1
    <3>2. first = [m EXCEPT !.chars = size] OBVIOUS
    <3> HIDE DEF m, size, first
    <3>3. [m EXCEPT !.chars = size] \in Message BY <3>1 DEF Message
    <3> QED BY <3>2, <3>3
  <2>3. RoleLen(ms[1].role) \in Nat BY <2>1 DEF RoleLen, Roles
  <2>4. ContentBytes(first) = ContentBytes(ms[1]) + d
        /\ ContentBytes(ms[1]) \in Nat
    BY <2>1 DEF ContentBytes, Ellipsis
  <2>5. Weight(first) = RoleLen(ms[1].role) + ContentBytes(first)
    BY <2>1 DEF Weight
  <2> QED BY <2>2, <2>3, <2>4, <2>5 DEF Weight
<1> HIDE DEF first
<1>3. /\ grown \in Seq(Message) /\ Len(grown) = Len(ms) /\ grown[1] = first
      /\ \A k \in 2..Len(ms) : grown[k] = ms[k]
  BY <1>1, <1>2, ExceptSeq
<1>4. grown = [ms EXCEPT ![1].chars = @ + d] BY DEF first
<1> HIDE DEF grown
<1>5. PICK f : SumsTo(f, Weights(ms), Len(ms)) /\ Bytes(ms) = f[Len(ms)]
  BY BytesIsSum
<1>6. PICK g : SumsTo(g, Weights(grown), Len(ms)) /\ Bytes(grown) = g[Len(ms)]
  BY <1>3, BytesIsSum
<1>7. /\ Weights(ms) \in [1..Len(ms) -> Nat]
      /\ Weights(grown) \in [1..Len(ms) -> Nat]
  BY <1>3, BytesIsSum
<1>8. /\ \A k \in 2..Len(ms) : Weights(grown)[k] = Weights(ms)[k]
      /\ Weights(grown)[1] = Weights(ms)[1] + d
      /\ Weights(ms)[1] \in Nat
  <2>1. \A k \in 2..Len(ms) : k \in 1..Len(ms) BY <1>1
  <2>2. /\ \A k \in 1..Len(ms) : Weights(ms)[k] = Weight(ms[k])
        /\ \A k \in 1..Len(ms) : Weights(grown)[k] = Weight(grown[k])
    BY <1>3 DEF Weights
  <2> QED BY <1>1, <1>2, <1>3, <1>7, <2>1, <2>2
<1>9. g[Len(ms)] - f[Len(ms)] = Weights(grown)[1] - Weights(ms)[1]
  <2> DEFINE N == Len(ms)
             v == Weights(ms)
             w == Weights(grown)
  <2>1. /\ N \in Nat \ {0} /\ Weighed(v, N) /\ Weighed(w, N)
        /\ SameRest(v, w, N) /\ SumsTo(f, v, N) /\ SumsTo(g, w, N)
    BY <1>1, <1>5, <1>6, <1>7, <1>8 DEF Weighed, SameRest
  <2> HIDE DEF N, v, w
  <2>2. g[N] - f[N] = w[1] - v[1] BY <2>1, SumsDiffer
  <2> QED BY <2>2 DEF N, v, w
<1>10. Bytes(ms) \in Nat /\ Bytes(grown) \in Nat BY <1>3, BytesType
<1>11. Bytes(grown) - Bytes(ms) = d
  BY <1>5, <1>6, <1>8, <1>9
<1> QED BY <1>3, <1>4, <1>10, <1>11

-----------------------------------------------------------------------------
(* Which message is which.                                                 *)

(* The last user message is the last message.                              *)
LEMMA LastIsUser ==
    ASSUME NEW ms \in Seq(Message), ms # <<>>, ms[Len(ms)].role = "user"
    PROVE  LastUser(ms) = Len(ms) /\ Users(ms) # {}
<1> DEFINE I == {i \in 1..Len(ms) : ms[i].role = "user"}
<1>1. Len(ms) \in Nat \ {0} /\ DOMAIN ms = 1..Len(ms) OBVIOUS
<1>2. Len(ms) \in I BY <1>1
<1>3. LastUser(ms) = IF I # {} THEN Max(I) ELSE Len(ms)
  <2>1. Users(ms) = I BY <1>1 DEF Users
  <2>2. SelectLastInSeq(ms, LAMBDA m : m.role = "user")
            = IF I # {} THEN Max(I) ELSE 0
    BY DEF SelectLastInSeq
  <2> HIDE DEF I
  <2> QED BY <2>1, <2>2 DEF LastUser
<1>4. \A i \in I : i \in Nat /\ i <= Len(ms) BY <1>1
<1>5. \E x \in I : \A y \in I : x >= y BY <1>1, <1>2, <1>4
<1>6. Max(I) \in I /\ \A y \in I : Max(I) >= y
  <2> HIDE DEF I
  <2> QED BY <1>5 DEF Max
<1>7. Max(I) = Len(ms) BY <1>1, <1>2, <1>4, <1>6
<1>8. Users(ms) = I BY <1>1 DEF Users
<1> QED BY <1>2, <1>3, <1>7, <1>8

(* Dropping a message moves those behind it up by one place: the first and *)
(* the last one stay first and last.                                       *)
LEMMA DropSpares ==
    ASSUME NEW ms \in Seq(Message), NEW i \in 2..(Len(ms) - 1)
    PROVE  LET left == RemoveAt(ms, i)
           IN  /\ left \in Seq(Message) /\ Len(left) = Len(ms) - 1
               /\ left[1] = ms[1] /\ left[Len(left)] = ms[Len(ms)]
               /\ \A k \in 1..(Len(ms) - 1) :
                     left[k] = IF k < i THEN ms[k] ELSE ms[k + 1]
<1> DEFINE N == Len(ms)
           a == SubSeq(ms, 1, i - 1)
           b == SubSeq(ms, i + 1, N)
<1>1. N \in Nat /\ i \in Nat /\ 2 <= i /\ i <= N - 1 OBVIOUS
<1>2. /\ a \in Seq(Message) /\ Len(a) = i - 1
      /\ \A j \in 1..(i - 1) : a[j] = ms[j]
  BY <1>1
<1>3. /\ b \in Seq(Message) /\ Len(b) = N - i
      /\ \A j \in 1..(N - i) : b[j] = ms[i + j]
  <2>1. b \in Seq(Message) BY <1>1
  <2>2. Len(b) = N - i BY <1>1
  <2>3. \A j \in 1..(N - i) : b[j] = ms[i + j] BY <1>1
  <2> QED BY <2>1, <2>2, <2>3
<1>4. RemoveAt(ms, i) = a \o b BY DEF RemoveAt
<1> HIDE DEF a, b
<1>5. /\ a \o b \in Seq(Message) /\ Len(a \o b) = Len(a) + Len(b)
      /\ \A j \in 1..(Len(a) + Len(b)) :
            (a \o b)[j] = IF j <= Len(a) THEN a[j] ELSE b[j - Len(a)]
  BY <1>2, <1>3, ConcatProperties
<1>6. Len(a) + Len(b) = N - 1 BY <1>1, <1>2, <1>3
<1>7. (a \o b)[1] = ms[1]
  <2>1. 1 \in 1..(N - 1) /\ 1 <= i - 1 /\ 1 \in 1..(i - 1) BY <1>1
  <2> QED BY <1>2, <1>5, <1>6, <2>1
<1>8. (a \o b)[N - 1] = ms[N]
  <2>1. /\ N - 1 \in 1..(N - 1) /\ ~(N - 1 <= i - 1)
        /\ (N - 1) - (i - 1) = N - i /\ N - i \in 1..(N - i)
        /\ i + (N - i) = N
    BY <1>1
  <2>2. (a \o b)[N - 1] = b[N - i] BY <1>2, <1>5, <1>6, <2>1
  <2>3. b[N - i] = ms[N] BY <1>3, <2>1
  <2> QED BY <2>2, <2>3
<1>9. ASSUME NEW k \in 1..(N - 1)
      PROVE  (a \o b)[k] = IF k < i THEN ms[k] ELSE ms[k + 1]
  <2>1. CASE k < i BY <1>1, <1>2, <1>5, <1>6, <2>1
  <2>2. CASE ~(k < i)
    <3>1. /\ ~(k <= i - 1) /\ k - (i - 1) \in 1..(N - i)
          /\ i + (k - (i - 1)) = k + 1
      BY <1>1, <2>2
    <3> QED BY <1>2, <1>3, <1>5, <1>6, <2>2, <3>1, ZenonT(40)
  <2> QED BY <2>1, <2>2
<1> QED BY <1>4, <1>5, <1>6, <1>7, <1>8, <1>9

(* What the loop drops is neither the first message nor the question.      *)
LEMMA DroppedInside ==
    ASSUME NEW ms \in Seq(Message), ms # <<>>, ms[Len(ms)].role = "user",
           Droppable(ms) # {}
    PROVE  (CHOOSE i \in Droppable(ms) : \A j \in Droppable(ms) : i <= j)
                \in 2..(Len(ms) - 1)
<1>1. Len(ms) \in Nat /\ DOMAIN ms = 1..Len(ms) /\ LastUser(ms) = Len(ms)
  BY LastIsUser
<1>2. Droppable(ms) \subseteq 2..(Len(ms) - 1) BY <1>1 DEF Droppable
<1>3. Droppable(ms) \subseteq Nat BY <1>1, <1>2
<1>4. \E i \in Droppable(ms) : \A j \in Droppable(ms) : i <= j BY <1>3, Least
<1> QED BY <1>2, <1>4

(* A truncated message is a message, no longer than it was, and marked.    *)
LEMMA TruncatedType ==
    ASSUME NEW m \in Message, NEW over \in Nat
    PROVE  LET cut == Truncated(m, over)
           IN  /\ cut \in Message /\ cut.role = m.role /\ cut.dots
               /\ cut.chars <= m.chars
<1> DEFINE n == Minimum(m.chars, Monus(CharCount(m), over + TruncateMargin))
<1>1. m.chars \in Nat /\ CharCount(m) \in Nat BY DEF Message, CharCount
<1>2. Monus(CharCount(m), over + TruncateMargin) \in Nat
  BY <1>1 DEF Monus, TruncateMargin
<1>3. n \in Nat /\ n <= m.chars BY <1>1, <1>2 DEF Minimum
<1>4. Truncated(m, over) = [m EXCEPT !.chars = n, !.dots = TRUE]
  BY DEF Truncated
<1> HIDE DEF n
<1> QED BY <1>3, <1>4 DEF Message

-----------------------------------------------------------------------------
(* The invariant.                                                          *)

(* The prompt a session starts with: some blocks, and the newest messages  *)
(* up to the question.                                                     *)
LEMMA InitHolds == Init => IInv
<1> USE SizeAssumption, RecentAssumption
<1> SUFFICES ASSUME Init PROVE IInv OBVIOUS
<1>1. PICK memory \in MemoryChars, history \in Histories :
          /\ recent = TakeLast(history, MaxRecent)
          /\ blocks = Blocks(memory) /\ messages = Blocks(memory) \o recent
  BY DEF Init
<1>2. phase = "fit" BY DEF Init
<1>3. ASSUME NEW role \in Roles, NEW c \in Nat, NEW w \in Nat \ {0}
      PROVE  Text(role, c, w) \in Message
  BY <1>3 DEF Text, Message
<1>4. /\ history \in Seq(Message) /\ Len(history) >= 1
      /\ history[Len(history)].role = "user"
  <2>1. PICK past \in Pasts, question \in Turns("user") :
            history = Append(past, question)
    BY DEF Histories
  <2>2. Turns("user") \subseteq Message /\ Turns("assistant") \subseteq Message
    BY <1>3 DEF Turns, Roles
  <2>3. question.role = "user" BY DEF Turns, Text
  <2> DEFINE turns == Turns("user") \cup Turns("assistant")
  <2>4. past \in Seq(turns)
    <3> HIDE DEF turns
    <3>1. PICK n \in 0..(MaxHistory - 1) : past \in [1..n -> turns]
      BY DEF Pasts, turns
    <3> QED BY <3>1
  <2>5. past \in Seq(Message) /\ question \in Message
    BY <2>1, <2>2, <2>4, SeqMonotonic
  <2>6. /\ Append(past, question) \in Seq(Message)
        /\ Len(Append(past, question)) = Len(past) + 1 /\ Len(past) \in Nat
        /\ Append(past, question)[Len(past) + 1] = question
    BY <2>5, AppendProperties
  <2> QED BY <2>1, <2>3, <2>6
<1>5. /\ recent \in Seq(Message) /\ Len(recent) >= 1
      /\ recent[Len(recent)].role = "user"
  <2> DEFINE N == Len(history)
             from == Monus(N, MaxRecent) + 1
  <2>1. N \in Nat /\ from \in 1..N /\ \A i \in 1..N : history[i] \in Message
    BY <1>4 DEF Monus
  <2>2. recent = SubSeq(history, from, N) BY <1>1 DEF TakeLast
  <2> HIDE DEF N, from
  <2>3. \A i \in from..N : history[i] \in Message BY <2>1
  <2>4. /\ recent \in Seq(Message) /\ Len(recent) = N - from + 1
        /\ \A i \in 1..(N - from + 1) : recent[i] = history[from + i - 1]
    BY <2>1, <2>2, <2>3, SubSeqProperties
  <2>5. /\ N - from + 1 \in 1..(N - from + 1) /\ from + (N - from + 1) - 1 = N
        /\ N - from + 1 >= 1
    BY <2>1
  <2>6. recent[Len(recent)] = history[N] BY <2>4, <2>5
  <2> QED BY <1>4, <2>4, <2>5, <2>6 DEF N
<1>6. /\ Blocks(memory) \in Seq(Message) /\ Len(Blocks(memory)) >= 1
      /\ Blocks(memory)[1].role = "system" /\ Blocks(memory)[1].width = 1
  <2>1. /\ Text("system", SystemChars, 1) \in Message
        /\ Text("system", memory, 1) \in Message
    BY <1>3 DEF Roles
  <2>2. CASE memory = 0
    <3>1. Blocks(memory) = <<Text("system", SystemChars, 1)>>
      BY <2>1, <2>2 DEF Blocks
    <3> QED BY <2>1, <3>1 DEF Text
  <2>3. CASE memory # 0
    <3> DEFINE a == Text("system", SystemChars, 1)
               b == Text("system", memory, 1)
    <3>1. Blocks(memory) = <<a>> \o <<b>> BY <2>3 DEF Blocks
    <3>2. a \in Message /\ b \in Message /\ a.role = "system" /\ a.width = 1
      BY <2>1 DEF Text
    <3> HIDE DEF a, b
    <3>3. /\ <<a>> \in Seq(Message) /\ Len(<<a>>) = 1 /\ <<a>>[1] = a
          /\ <<b>> \in Seq(Message) /\ Len(<<b>>) = 1
      BY <3>2
    <3>4. /\ <<a>> \o <<b>> \in Seq(Message) /\ Len(<<a>> \o <<b>>) = 2
          /\ (<<a>> \o <<b>>)[1] = a
      BY <3>3, ConcatProperties
    <3> QED BY <3>1, <3>2, <3>4
  <2> QED BY <2>2, <2>3
<1>7. /\ messages \in Seq(Message) /\ Len(messages) >= 2
      /\ messages[1] = Blocks(memory)[1]
      /\ messages[Len(messages)] = recent[Len(recent)]
  <2> DEFINE b == Blocks(memory)
  <2>1. b \in Seq(Message) /\ Len(b) \in Nat /\ Len(b) >= 1 BY <1>6
  <2>2. Len(recent) \in Nat BY <1>5
  <2> HIDE DEF b
  <2>3. /\ b \o recent \in Seq(Message)
        /\ Len(b \o recent) = Len(b) + Len(recent)
        /\ \A i \in 1..(Len(b) + Len(recent)) : (b \o recent)[i] =
              IF i <= Len(b) THEN b[i] ELSE recent[i - Len(b)]
    BY <1>5, <2>1, ConcatProperties
  <2>4. /\ 1 \in 1..(Len(b) + Len(recent)) /\ 1 <= Len(b)
        /\ Len(b) + Len(recent) \in 1..(Len(b) + Len(recent))
        /\ ~(Len(b) + Len(recent) <= Len(b))
        /\ (Len(b) + Len(recent)) - Len(b) = Len(recent)
        /\ Len(b) + Len(recent) >= 2
    BY <1>5, <2>1, <2>2
  <2>5. (b \o recent)[1] = b[1] BY <2>3, <2>4
  <2>6. (b \o recent)[Len(b) + Len(recent)] = recent[Len(recent)]
    BY <2>3, <2>4
  <2> QED BY <1>1, <2>3, <2>4, <2>5, <2>6 DEF b
<1>8. KeepsQuestion BY <1>5, <1>7 DEF KeepsQuestion, Last
<1>9. recent # <<>> BY <1>5
<1>10. TypeOK BY <1>1, <1>2, <1>5, <1>6, <1>7 DEF TypeOK
<1> QED BY <1>2, <1>5, <1>6, <1>7, <1>8, <1>9, <1>10 DEF IInv, Framed, Fitted

(* While the loop runs over budget something gives: an older message, or   *)
(* the end of the question.                                                *)
LEMMA DropHolds == IInv /\ Drop => IInv'
<1> USE SizeAssumption
<1> SUFFICES ASSUME IInv, Drop PROVE IInv' OBVIOUS
<1> DEFINE i == CHOOSE i \in Droppable(messages) :
                    \A j \in Droppable(messages) : i <= j
           left == RemoveAt(messages, i)
<1>1. /\ messages \in Seq(Message) /\ Len(messages) > 2 /\ messages # <<>>
      /\ messages[Len(messages)].role = "user" /\ Droppable(messages) # {}
      /\ messages' = left /\ UNCHANGED <<blocks, recent, phase>>
  BY DEF IInv, TypeOK, Framed, Drop, CanDrop
<1>2. i \in 2..(Len(messages) - 1) BY <1>1, DroppedInside
<1> HIDE DEF i
<1>3. /\ left \in Seq(Message) /\ Len(left) = Len(messages) - 1
      /\ left[1] = messages[1] /\ left[Len(left)] = messages[Len(messages)]
  BY <1>1, <1>2, DropSpares
<1>4. Len(left) >= 2 /\ Len(messages) \in Nat BY <1>1, <1>3
<1>5. messages[Len(messages)] = Last(recent)
  BY <1>1 DEF IInv, Framed, KeepsQuestion, Last
<1>6. phase = "fit"
  <2>1. Bytes(messages) > MaxPrompt /\ phase \in {"fit", "refit"}
    BY DEF Drop, OverBudget
  <2>2. Bytes(messages) \in Nat BY <1>1, BytesType
  <2> QED BY <2>1, <2>2 DEF IInv, Fitted
<1> HIDE DEF left
<1>7. KeepsQuestion' BY <1>1, <1>3, <1>5 DEF KeepsQuestion, Last
<1> QED BY <1>1, <1>3, <1>4, <1>6, <1>7 DEF IInv, TypeOK, Framed, Fitted

LEMMA TruncateHolds == IInv /\ Truncate => IInv'
<1> USE SizeAssumption
<1> SUFFICES ASSUME IInv, Truncate PROVE IInv' OBVIOUS
<1> DEFINE N == Len(messages)
           over == Bytes(messages) - MaxPrompt
           cut == Truncated(messages[N], over)
<1>1. /\ messages \in Seq(Message) /\ N >= 2 /\ messages # <<>> /\ N \in Nat
      /\ messages[N].role = "user" /\ messages[1].role = "system"
      /\ messages[1].width = 1
  BY DEF IInv, TypeOK, Framed
<1>2. LastUser(messages) = N BY <1>1, LastIsUser
<1>3. Bytes(messages) \in Nat BY <1>1, BytesType
<1>4. over \in Nat /\ phase = "fit"
  <2>1. Bytes(messages) > MaxPrompt /\ phase \in {"fit", "refit"}
    BY DEF Truncate, OverBudget
  <2> QED BY <1>3, <2>1 DEF IInv, Fitted
<1>5. messages' = [messages EXCEPT ![N] = cut] /\ UNCHANGED <<blocks, recent, phase>>
  BY <1>2 DEF Truncate
<1>6. /\ cut \in Message /\ cut.role = "user" /\ cut.dots
      /\ cut.chars <= messages[N].chars
      /\ messages[N].chars \in Nat /\ cut.chars \in Nat
  <2>1. messages[N] \in Message BY <1>1
  <2>2. /\ cut \in Message /\ cut.role = messages[N].role /\ cut.dots
        /\ cut.chars <= messages[N].chars
    BY <1>4, <2>1, TruncatedType
  <2>3. messages[N].chars \in Nat /\ cut.chars \in Nat
    BY <2>1, <2>2 DEF Message
  <2> QED BY <1>1, <2>2, <2>3
<1>7. Droppable(messages) = {}
  <2>1. N <= 2 \/ Droppable(messages) = {} BY <1>1 DEF Truncate, CanDrop
  <2>2. N <= 2 => \A i \in DOMAIN messages : i = 1 \/ i = N BY <1>1
  <2> QED BY <1>2, <2>1, <2>2 DEF Droppable
<1> HIDE DEF cut, over
<1>8. /\ messages' \in Seq(Message) /\ Len(messages') = N /\ messages'[N] = cut
      /\ DOMAIN messages' = 1..N /\ DOMAIN messages = 1..N
      /\ messages'[1] = messages[1]
      /\ \A i \in 1..N : i # N => messages'[i] = messages[i]
  <2> DEFINE ms == messages
             new == [ms EXCEPT ![N] = cut]
  <2>1. N \in 1..N /\ 1 \in 1..N /\ 1 # N /\ ms \in Seq(Message) /\ Len(ms) = N
    BY <1>1
  <2> HIDE DEF ms, N
  <2>2. /\ new \in Seq(Message) /\ Len(new) = N /\ new[N] = cut
        /\ DOMAIN new = 1..N /\ DOMAIN ms = 1..N
        /\ \A i \in 1..N : i # N => new[i] = ms[i]
    BY <1>6, <2>1, ExceptSeq
  <2>3. new[1] = ms[1] BY <2>1, <2>2
  <2>4. messages' = new BY <1>5 DEF ms
  <2> HIDE DEF new
  <2> QED BY <2>2, <2>3, <2>4 DEF ms
<1>9. messages' # <<>> /\ messages'[Len(messages')].role = "user"
  <2>1. messages' \in Seq(Message) /\ Len(messages') >= 2 BY <1>1, <1>8
  <2>2. messages' # <<>> BY <2>1
  <2>3. Len(messages') = N /\ messages'[N] = cut BY <1>8
  <2>4. messages'[Len(messages')] = cut BY <2>3
  <2> QED BY <1>6, <2>2, <2>4
<1>10. Droppable(messages') = {}
  <2>1. LastUser(messages') = N BY <1>8, <1>9, LastIsUser
  <2> QED BY <1>2, <1>7, <1>8, <2>1 DEF Droppable
<1>11. KeepsQuestion'
  <2>1. messages[N].chars <= Last(recent).chars /\ Last(recent).chars \in Nat
    <3>1. Last(recent) \in Message /\ Last(recent).chars \in Nat
      <4>1. recent \in Seq(Message) /\ recent # <<>> BY DEF IInv, Framed
      <4>2. Len(recent) \in 1..Len(recent) BY <4>1
      <4>3. Last(recent) \in Message BY <4>1, <4>2 DEF Last
      <4> QED BY <4>3 DEF Message
    <3>2. messages[N] = Last(recent) \/ messages[N].chars <= Last(recent).chars
      BY DEF IInv, Framed, KeepsQuestion, Last
    <3> QED BY <1>6, <3>1, <3>2
  <2>2. cut.chars <= Last(recent).chars BY <1>6, <2>1
  <2> QED BY <1>5, <1>6, <1>8, <1>10, <2>2 DEF KeepsQuestion, Last
<1> QED
  BY <1>1, <1>4, <1>5, <1>8, <1>9, <1>11 DEF IInv, TypeOK, Framed, Fitted

(* The loop ends within the budget, as there is a question all along.      *)
LEMMA FitsHolds == IInv /\ Fits => IInv'
<1> USE SizeAssumption
<1> SUFFICES ASSUME IInv, Fits PROVE IInv' OBVIOUS
<1>1. /\ messages \in Seq(Message) /\ messages # <<>>
      /\ messages[Len(messages)].role = "user"
  BY DEF IInv, TypeOK, Framed
<1>2. Users(messages) # {} BY <1>1, LastIsUser
<1>3. /\ Bytes(messages) <= MaxPrompt /\ phase \in {"fit", "refit"}
      /\ phase' = IF phase = "fit" THEN "pad" ELSE "sent"
      /\ UNCHANGED <<messages, blocks, recent>>
  BY <1>2 DEF Fits
<1>4. TypeOK' BY <1>3 DEF IInv, TypeOK
<1>5. Framed' BY <1>3 DEF IInv, Framed, KeepsQuestion
<1>6. Fitted' BY <1>3 DEF IInv, Fitted
<1> QED BY <1>4, <1>5, <1>6 DEF IInv

(* Padding fills the room it measured, and no more.                        *)
LEMMA PadHolds == IInv /\ Pad => IInv'
<1> USE SizeAssumption
<1> SUFFICES ASSUME IInv, Pad PROVE IInv' OBVIOUS
<1> DEFINE N == Len(messages)
           d == Filler + PadMarkers
           grown == [messages EXCEPT ![1].chars = @ + d]
<1>1. /\ messages \in Seq(Message) /\ messages # <<>> /\ N \in Nat /\ N >= 2
      /\ messages[1].role = "system" /\ messages[1].width = 1
      /\ messages[N].role = "user"
  BY DEF IInv, TypeOK, Framed
<1>2. /\ messages' = [messages EXCEPT ![1].chars = @ + Filler + PadMarkers]
      /\ phase' = "refit" /\ recent' = recent /\ blocks' = blocks
  BY DEF Pad
<1>3. Bytes(messages) \in Nat /\ MaxPrompt \in Nat /\ MaxPadding \in Nat
      /\ MaxPrompt - Bytes(messages) > PadOverhead
  BY <1>1, BytesType DEF Pad, HasRoom
<1>4. /\ Filler \in Nat /\ d \in Nat
      /\ Bytes(messages) + d <= MaxPrompt
      /\ MaxPadding >= MaxPrompt => Bytes(messages) + d >= MaxPrompt - PadOverhead
  BY <1>3 DEF Filler, Minimum, PadOverhead, PadMarkers
<1>5. messages' = grown
  <2>1. messages[1] \in Message /\ messages[1].chars \in Nat
    <3>1. messages[1] \in Message BY <1>1
    <3> QED BY <3>1 DEF Message
  <2>2. messages[1].chars + Filler + PadMarkers = messages[1].chars + d
    BY <1>4, <2>1 DEF PadMarkers
  <2> QED BY <1>2, <2>2
<1> HIDE DEF d
<1>6. grown \in Seq(Message) /\ Bytes(grown) = Bytes(messages) + d
  BY <1>1, <1>4, FirstGrows
<1>7. /\ Len(grown) = N /\ DOMAIN grown = 1..N /\ DOMAIN messages = 1..N
      /\ grown[N] = messages[N]
      /\ \A i \in 1..N : grown[i].role = messages[i].role
      /\ grown[1].width = 1
  <2>1. 1 \in 1..N /\ N \in 1..N /\ 1 # N BY <1>1
  <2>2. DOMAIN messages = 1..N BY <1>1
  <2>3. DOMAIN grown = 1..N BY <2>2
  <2>4. Len(grown) = N BY <1>1, <1>6, <2>3
  <2>5. messages[1] \in Message BY <1>1, <2>1
  <2>6. grown[1] = [messages[1] EXCEPT !.chars = @ + d] BY <2>1, <2>2
  <2>7. grown[1].role = messages[1].role /\ grown[1].width = messages[1].width
    BY <2>5, <2>6 DEF Message
  <2>8. \A i \in 1..N : i # 1 => grown[i] = messages[i] BY <2>2
  <2> QED BY <1>1, <2>1, <2>2, <2>3, <2>4, <2>7, <2>8
<1> HIDE DEF grown, N
<1>8. Droppable(grown) = Droppable(messages)
  <2>1. LastUser(messages) = N BY <1>1, LastIsUser DEF N
  <2>2. grown # <<>> /\ grown[Len(grown)].role = "user" BY <1>1, <1>7
  <2>3. LastUser(grown) = N BY <1>6, <1>7, <2>2, LastIsUser
  <2> QED BY <1>7, <2>1, <2>3 DEF Droppable
<1>9. KeepsQuestion' /\ Framed'
  <2>1. KeepsQuestion' BY <1>2, <1>5, <1>7, <1>8 DEF IInv, Framed, KeepsQuestion, Last, N
  <2>2. grown[1].role = "system" /\ grown[N].role = "user"
    BY <1>1, <1>7
  <2> QED BY <1>1, <1>2, <1>5, <1>7, <2>1, <2>2 DEF IInv, Framed
<1>10. TypeOK' BY <1>2, <1>5, <1>6 DEF IInv, TypeOK
<1>11. Fitted' BY <1>2, <1>4, <1>5, <1>6 DEF Fitted
<1> QED BY <1>9, <1>10, <1>11 DEF IInv

(* No room: the prompt is as full as it would be padded.                   *)
LEMMA NoPadHolds == IInv /\ NoPad => IInv'
<1> USE SizeAssumption
<1> SUFFICES ASSUME IInv, NoPad PROVE IInv' OBVIOUS
<1>1. Bytes(messages) \in Nat BY BytesType DEF IInv, TypeOK
<1>2. /\ phase = "pad" /\ phase' = "refit" /\ UNCHANGED <<messages, blocks, recent>>
      /\ ~PadSystem \/ ~HasRoom
  BY DEF NoPad
<1>3. ~HasRoom => Bytes(messages) >= MaxPrompt - PadOverhead
  BY <1>1 DEF HasRoom, PadOverhead
<1>4. TypeOK' BY <1>2 DEF IInv, TypeOK
<1>5. Framed' BY <1>2 DEF IInv, Framed, KeepsQuestion
<1>6. Fitted' BY <1>2, <1>3 DEF IInv, Fitted
<1> QED BY <1>4, <1>5, <1>6 DEF IInv

LEMMA Invariance == Spec => []IInv
<1>1. IInv /\ [Next]_vars => IInv'
  <2>1. IInv /\ UNCHANGED vars => IInv'
    BY DEF vars, IInv, TypeOK, Framed, KeepsQuestion, Fitted
  <2> QED
    BY <2>1, DropHolds, TruncateHolds, FitsHolds, PadHolds, NoPadHolds DEF Next
<1> QED BY <1>1, InitHolds, PTL DEF Spec

-----------------------------------------------------------------------------
(* The history.                                                            *)

NoSystem(ms) == \A k \in DOMAIN ms : ms[k].role # "system"

(* What a prompt is built with in front. *)
AreBlocks ==
    /\ blocks \in Seq(Message) /\ blocks # <<>>
    /\ \A k \in 1..Len(blocks) : blocks[k].role = "system"

NewestInv == NoSystem(recent) /\ AreBlocks /\ KeepsNewest

(* The roles of what a prompt starts with.                                 *)
LEMMA StartRoles ==
    ASSUME Init
    PROVE  NoSystem(recent) /\ AreBlocks /\ messages = blocks \o recent
<1> USE SizeAssumption, RecentAssumption
<1>1. PICK memory \in MemoryChars, history \in Histories :
          /\ recent = TakeLast(history, MaxRecent)
          /\ blocks = Blocks(memory) /\ messages = blocks \o recent
  BY DEF Init
<1>2. ASSUME NEW role \in Roles, NEW c \in Nat, NEW w \in Nat \ {0}
      PROVE  Text(role, c, w) \in Message /\ Text(role, c, w).role = role
  BY <1>2 DEF Text, Message
<1> DEFINE Turn == Turns("user") \cup Turns("assistant")
<1>3. \A m \in Turn : m \in Message /\ m.role # "system"
  BY <1>2 DEF Turns, Roles
<1>4. history \in Seq(Turn) /\ Len(history) >= 1
  <2>1. PICK past \in Pasts, question \in Turns("user") :
            history = Append(past, question)
    BY DEF Histories
  <2> QED
    <3> HIDE DEF Turn
    <3>1. PICK n \in 0..(MaxHistory - 1) : past \in [1..n -> Turn]
      BY DEF Pasts, Turn
    <3>2. past \in Seq(Turn) /\ question \in Turn BY <3>1 DEF Turn
    <3> QED BY <2>1, <3>2, AppendProperties
<1> HIDE DEF Turn
<1>5. recent \in Seq(Turn)
  <2> DEFINE N == Len(history)
             from == Monus(N, MaxRecent) + 1
  <2>1. N \in Nat /\ from \in 1..N /\ \A i \in 1..N : history[i] \in Turn
    BY <1>4 DEF Monus
  <2>2. recent = SubSeq(history, from, N) BY <1>1 DEF TakeLast
  <2> HIDE DEF N, from
  <2>3. \A i \in from..N : history[i] \in Turn BY <2>1
  <2> QED BY <2>1, <2>2, <2>3, SubSeqProperties
<1>6. NoSystem(recent)
  <2>1. \A k \in DOMAIN recent : recent[k] \in Turn BY <1>5
  <2> QED BY <1>3, <2>1 DEF NoSystem
<1> DEFINE a == Text("system", SystemChars, 1)
           b == Text("system", memory, 1)
<1>7. a \in Message /\ b \in Message /\ a.role = "system" /\ b.role = "system"
  BY <1>2 DEF Roles
<1>8. Blocks(memory) = IF memory = 0 THEN <<a>> \o <<>> ELSE <<a>> \o <<b>>
  BY DEF Blocks
<1> HIDE DEF a, b
<1>9. /\ Blocks(memory) \in Seq(Message) /\ Len(Blocks(memory)) >= 1
      /\ \A k \in 1..Len(Blocks(memory)) : Blocks(memory)[k].role = "system"
  <2>1. /\ <<a>> \in Seq(Message) /\ Len(<<a>>) = 1 /\ <<a>>[1] = a
        /\ <<b>> \in Seq(Message) /\ Len(<<b>>) = 1 /\ <<b>>[1] = b
    BY <1>7
  <2>2. CASE memory = 0
    <3>1. Blocks(memory) = <<a>> BY <1>8, <2>1, <2>2
    <3> QED BY <1>7, <2>1, <3>1
  <2>3. CASE memory # 0
    <3>1. /\ <<a>> \o <<b>> \in Seq(Message) /\ Len(<<a>> \o <<b>>) = 2
          /\ (<<a>> \o <<b>>)[1] = a /\ (<<a>> \o <<b>>)[2] = b
      BY <2>1, ConcatProperties
    <3>2. \A k \in 1..2 : k = 1 \/ k = 2 OBVIOUS
    <3> QED BY <1>7, <1>8, <2>3, <3>1, <3>2
  <2> QED BY <2>2, <2>3
<1>10. AreBlocks BY <1>1, <1>9 DEF AreBlocks
<1> QED BY <1>1, <1>6, <1>10

LEMMA NewestInit == Init => NewestInv
<1> SUFFICES ASSUME Init PROVE NewestInv OBVIOUS
<1>1. NoSystem(recent) /\ AreBlocks /\ messages = blocks \o recent
  BY StartRoles
<1>2. recent \in Seq(Message) /\ recent # <<>>
  BY InitHolds DEF IInv, Framed
<1> DEFINE B == Len(blocks)
           R == Len(recent)
<1>3. B \in Nat /\ R \in Nat /\ B >= 1 /\ R >= 1
  BY <1>1, <1>2 DEF AreBlocks
<1>4. /\ Len(messages) = B + R
      /\ \A k \in 1..(B + R) :
            messages[k] = IF k <= B THEN blocks[k] ELSE recent[k - B]
  BY <1>1, <1>2, ConcatProperties DEF AreBlocks
<1>5. /\ \A k \in 1..B : k \in 1..(B + R) /\ k <= B
      /\ \A k \in (B + 1)..(B + R - 1) :
            /\ k \in 1..(B + R) /\ ~(k <= B) /\ k - B = R - (B + R - k)
      /\ B < B + R /\ (B + R) - B <= R /\ 1 \in 1..B
      /\ \A k \in 2..B : k \in 1..B
  <2> HIDE DEF B, R
  <2> QED BY <1>3
<1> HIDE DEF B, R
<1>6. \A k \in 1..B : messages[k] = blocks[k] BY <1>4, <1>5
<1>7. BlocksKept
  <2>1. messages[1] = blocks[1] BY <1>5, <1>6
  <2>2. \A k \in 2..B : messages[k] = blocks[k] BY <1>5, <1>6
  <2>3. blocks[1] \in Message BY <1>1, <1>5 DEF AreBlocks, B
  <2>4. /\ messages[1].chars >= blocks[1].chars
        /\ messages[1] = [blocks[1] EXCEPT !.chars = messages[1].chars]
    BY <2>1, <2>3 DEF Message
  <2> QED BY <1>4, <1>5, <2>2, <2>4 DEF BlocksKept, B
<1>8. NewestFollow
  <2>1. \A k \in (B + 1)..(B + R - 1) : messages[k] = recent[R - (B + R - k)]
    <3> SUFFICES ASSUME NEW k \in (B + 1)..(B + R - 1)
                 PROVE  messages[k] = recent[R - (B + R - k)]
      OBVIOUS
    <3>1. messages[k] = recent[k - B] BY <1>4, <1>5
    <3> QED BY <1>5, <3>1
  <2> QED BY <1>4, <1>5, <2>1 DEF NewestFollow, B, R
<1> QED BY <1>1, <1>7, <1>8 DEF NewestInv, KeepsNewest

(* The blocks are in front, and nothing but the question and messages of   *)
(* the history is behind them.                                             *)
LEMMA InFront ==
    ASSUME IInv, NewestInv
    PROVE  LET n == Len(blocks) IN
           /\ n \in 1..(Len(messages) - 1)
           /\ \A k \in 1..n : messages[k].role = "system"
<1> DEFINE n == Len(blocks)
<1>1. n \in Nat \ {0} BY DEF NewestInv, AreBlocks
<1>2. Len(messages) \in Nat BY DEF IInv, TypeOK
<1>3. n < Len(messages) /\ \A k \in 2..n : messages[k] = blocks[k]
  BY DEF NewestInv, KeepsNewest, BlocksKept
<1>4. messages[1].role = "system" BY DEF IInv, Framed
<1>5. \A k \in 1..n : blocks[k].role = "system" BY DEF NewestInv, AreBlocks
<1> HIDE DEF n
<1>6. \A k \in 1..n : k = 1 \/ k \in 2..n BY <1>1
<1>7. n \in 1..(Len(messages) - 1) BY <1>1, <1>2, <1>3
<1>8. \A k \in 1..n : messages[k].role = "system"
  BY <1>3, <1>4, <1>5, <1>6
<1> QED BY <1>7, <1>8 DEF n

(* What is dropped is the oldest message there is.                         *)
LEMMA OldestDropped ==
    ASSUME IInv, NewestInv, Droppable(messages) # {}
    PROVE  /\ Len(blocks) + 1 < Len(messages)
           /\ (CHOOSE i \in Droppable(messages) :
                  \A j \in Droppable(messages) : i <= j) = Len(blocks) + 1
<1> DEFINE N == Len(messages)
           R == Len(recent)
           D == Droppable(messages)
           B == Len(blocks)
<1>1. /\ messages \in Seq(Message) /\ messages # <<>> /\ N \in Nat /\ R \in Nat
      /\ messages[N].role = "user" /\ DOMAIN messages = 1..N
      /\ DOMAIN recent = 1..R
  BY DEF IInv, TypeOK, Framed
<1>2. LastUser(messages) = N BY <1>1, LastIsUser
<1>3. /\ \A k \in 1..B : messages[k].role = "system"
      /\ N - B <= R
      /\ \A k \in (B + 1)..(N - 1) : messages[k] = recent[R - (N - k)]
  BY InFront DEF NewestInv, KeepsNewest, NewestFollow
<1>4. D = {k \in 1..N : k # 1 /\ messages[k].role # "system" /\ k # N}
  BY <1>1, <1>2 DEF Droppable
<1>5. B \in Nat /\ 1 <= B /\ B <= N - 1 BY <1>1, InFront
<1> HIDE DEF N, D, B
<1>6. \A k \in D : k \in (B + 1)..(N - 1)
  <2> SUFFICES ASSUME NEW k \in D, ~(k \in (B + 1)..(N - 1)) PROVE FALSE
    OBVIOUS
  <2>1. k \in 1..N /\ messages[k].role # "system" /\ k # N BY <1>4
  <2>2. k \in 1..B BY <1>1, <1>5, <2>1
  <2> QED BY <1>3, <2>1, <2>2
<1>7. B + 1 <= N - 1
  <2>1. PICK k \in D : TRUE BY DEF D
  <2> QED BY <1>1, <1>5, <1>6, <2>1
<1>8. B + 1 \in D
  <2>1. /\ B + 1 \in (B + 1)..(N - 1) /\ B + 1 \in 1..N
        /\ B + 1 # 1 /\ B + 1 # N
        /\ R - (N - (B + 1)) \in 1..R
    BY <1>1, <1>3, <1>5, <1>7
  <2>2. messages[B + 1].role # "system"
    BY <1>1, <1>3, <2>1 DEF NewestInv, NoSystem
  <2> QED BY <1>4, <2>1, <2>2
<1>9. \A j \in D : B + 1 <= j BY <1>1, <1>5, <1>6
<1>10. \A i \in D : (\A j \in D : i <= j) => i = B + 1
  BY <1>1, <1>5, <1>6, <1>8, <1>9
<1>11. (CHOOSE i \in D : \A j \in D : i <= j) = B + 1
  BY <1>8, <1>9, <1>10
<1> QED BY <1>1, <1>5, <1>7, <1>11 DEF D, N, B

LEMMA NewestDrop == IInv /\ NewestInv /\ Drop => NewestInv'
<1> SUFFICES ASSUME IInv, NewestInv, Drop PROVE NewestInv' OBVIOUS
<1> DEFINE N == Len(messages)
           R == Len(recent)
           B == Len(blocks)
           i == CHOOSE i \in Droppable(messages) :
                    \A j \in Droppable(messages) : i <= j
           left == RemoveAt(messages, i)
<1>1. /\ messages \in Seq(Message) /\ Droppable(messages) # {}
      /\ messages' = left /\ recent' = recent /\ blocks' = blocks
      /\ N \in Nat /\ R \in Nat /\ B \in Nat
  BY DEF IInv, TypeOK, Drop, CanDrop
<1>2. B + 1 < N /\ i = B + 1 BY <1>1, OldestDropped
<1> HIDE DEF i
<1>3. i \in 2..(N - 1) /\ 1 <= B BY <1>1, <1>2, InFront
<1>4. /\ Len(left) = N - 1
      /\ \A k \in 1..(N - 1) :
            left[k] = IF k < i THEN messages[k] ELSE messages[k + 1]
  BY <1>1, <1>3, DropSpares
<1>5. /\ BlocksKept /\ N - B <= R
      /\ \A k \in (B + 1)..(N - 1) : messages[k] = recent[R - (N - k)]
  BY DEF NewestInv, KeepsNewest, NewestFollow
<1> HIDE DEF left, N, R, B
<1>6. B < N - 1 /\ N - 1 - B <= R BY <1>1, <1>2, <1>3, <1>5
<1>7. \A k \in 1..B : left[k] = messages[k]
  <2>1. \A k \in 1..B : k \in 1..(N - 1) /\ k < i BY <1>1, <1>2, <1>3
  <2> QED BY <1>4, <2>1
<1>8. BlocksKept'
  <2>1. 1 \in 1..B /\ \A k \in 2..B : k \in 1..B BY <1>1, <1>3
  <2>2. left[1] = messages[1] /\ \A k \in 2..B : left[k] = messages[k]
    BY <1>7, <2>1
  <2> QED BY <1>1, <1>4, <1>5, <1>6, <2>2 DEF BlocksKept, B
<1>9. \A k \in (B + 1)..(N - 1 - 1) : left[k] = recent[R - (N - 1 - k)]
  <2>1. \A k \in (B + 1)..(N - 1 - 1) :
            /\ k \in 1..(N - 1) /\ ~(k < i) /\ k + 1 \in (B + 1)..(N - 1)
            /\ R - (N - (k + 1)) = R - (N - 1 - k)
    BY <1>1, <1>2, <1>3
  <2> QED BY <1>4, <1>5, <2>1
<1>10. NewestFollow'
  BY <1>1, <1>4, <1>6, <1>9 DEF NewestFollow, B, R
<1>11. NoSystem(recent)' /\ AreBlocks' BY <1>1 DEF NewestInv, AreBlocks
<1> QED BY <1>8, <1>10, <1>11 DEF NewestInv, KeepsNewest

(* A step that changes only the question, or pads the first block.         *)
LEMMA NewestStays ==
    ASSUME IInv, NewestInv, recent' = recent, blocks' = blocks,
           Len(messages') = Len(messages),
           \A k \in 2..(Len(messages) - 1) : messages'[k] = messages[k],
           messages[1] \in Message,
           NEW d \in Nat, messages'[1] = [messages[1] EXCEPT !.chars = @ + d]
    PROVE  NewestInv'
<1> DEFINE N == Len(messages)
           B == Len(blocks)
<1>1. B \in Nat /\ B >= 1 /\ B <= N - 1 /\ N \in Nat
  BY InFront DEF IInv, TypeOK
<1> HIDE DEF N, B
<1>2. /\ \A k \in 2..B : k \in 2..(N - 1)
      /\ \A k \in (B + 1)..(N - 1) : k \in 2..(N - 1)
  BY <1>1
<1>3. /\ \A k \in 2..B : messages'[k] = messages[k]
      /\ \A k \in (B + 1)..(N - 1) : messages'[k] = messages[k]
  BY <1>2 DEF N
<1>4. NewestFollow'
  BY <1>3 DEF NewestInv, KeepsNewest, NewestFollow, N, B
<1>5. BlocksKept'
  <2>1. blocks[1] \in Message
    <3>1. blocks \in Seq(Message) /\ 1 \in 1..Len(blocks)
      BY <1>1 DEF NewestInv, AreBlocks, B
    <3> QED BY <3>1
  <2>2. /\ messages[1].chars >= blocks[1].chars
        /\ messages[1] = [blocks[1] EXCEPT !.chars = messages[1].chars]
    BY DEF NewestInv, KeepsNewest, BlocksKept
  <2>3. /\ messages'[1].chars >= blocks[1].chars
        /\ messages'[1] = [blocks[1] EXCEPT !.chars = messages'[1].chars]
    BY <2>1, <2>2 DEF Message
  <2> QED BY <1>3, <2>3 DEF NewestInv, KeepsNewest, BlocksKept, B
<1>6. NoSystem(recent)' /\ AreBlocks' BY DEF NewestInv, AreBlocks
<1> QED BY <1>4, <1>5, <1>6 DEF NewestInv, KeepsNewest

LEMMA NewestTruncate == IInv /\ NewestInv /\ Truncate => NewestInv'
<1> SUFFICES ASSUME IInv, NewestInv, Truncate PROVE NewestInv' OBVIOUS
<1> DEFINE N == Len(messages)
           cut == Truncated(messages[N], Bytes(messages) - MaxPrompt)
<1>1. /\ messages \in Seq(Message) /\ messages # <<>> /\ N \in Nat
      /\ messages[N].role = "user"
  BY DEF IInv, TypeOK, Framed
<1>2. LastUser(messages) = N BY <1>1, LastIsUser
<1>3. /\ messages' = [messages EXCEPT ![N] = cut]
      /\ recent' = recent /\ blocks' = blocks
  BY <1>2 DEF Truncate
<1>4. IInv' BY TruncateHolds
<1> HIDE DEF cut
<1>5. DOMAIN messages = 1..N /\ DOMAIN messages' = DOMAIN messages
  BY <1>1, <1>3
<1>6. Len(messages') = N
  BY <1>1, <1>4, <1>5 DEF IInv, TypeOK
<1>7. \A k \in 1..(N - 1) : messages'[k] = messages[k]
  <2> HIDE DEF N
  <2>1. N \in Nat /\ DOMAIN messages = 1..N BY <1>1, <1>5
  <2>2. \A k \in 1..(N - 1) : k \in DOMAIN messages /\ k # N BY <2>1
  <2> QED BY <1>3, <2>2
<1>8. /\ \A k \in 2..(N - 1) : messages'[k] = messages[k]
      /\ messages'[1] = messages[1] /\ messages[1] \in Message
  <2>1. N >= 2 BY DEF IInv, Framed
  <2> HIDE DEF N
  <2>2. 1 \in 1..(N - 1) /\ \A k \in 2..(N - 1) : k \in 1..(N - 1)
    BY <1>1, <2>1
  <2>3. 1 \in 1..N BY <1>1, <2>1
  <2>4. messages[1] \in Message BY <1>1, <1>5, <2>3
  <2> QED BY <1>7, <2>2, <2>4
<1>9. messages'[1] = [messages[1] EXCEPT !.chars = @ + 0]
  BY <1>8 DEF Message
<1> QED BY <1>3, <1>6, <1>8, <1>9, NewestStays

LEMMA NewestPad == IInv /\ NewestInv /\ Pad => NewestInv'
<1> SUFFICES ASSUME IInv, NewestInv, Pad PROVE NewestInv' OBVIOUS
<1> DEFINE N == Len(messages)
<1>1. /\ messages \in Seq(Message) /\ N \in Nat /\ N >= 2
  BY DEF IInv, TypeOK, Framed
<1>2. /\ messages' = [messages EXCEPT ![1].chars = @ + Filler + PadMarkers]
      /\ recent' = recent /\ blocks' = blocks
  BY DEF Pad
<1>3. IInv' BY PadHolds
<1>4. DOMAIN messages = 1..N /\ DOMAIN messages' = DOMAIN messages
  BY <1>1, <1>2
<1>5. Len(messages') = N
  BY <1>1, <1>3, <1>4 DEF IInv, TypeOK
<1> DEFINE d == Filler + PadMarkers
<1>6. d \in Nat /\ Filler \in Nat
  <2>1. Bytes(messages) \in Nat BY <1>1, BytesType
  <2> QED BY SizeAssumption, <2>1
          DEF Pad, HasRoom, Filler, Minimum, PadOverhead, PadMarkers
<1>7. messages[1] \in Message /\ 1 \in DOMAIN messages
  <2>1. 1 \in 1..N BY <1>1
  <2> QED BY <1>1, <1>4, <2>1
<1>8. messages'[1] = [messages[1] EXCEPT !.chars = @ + d]
  <2>1. messages[1].chars \in Nat BY <1>7 DEF Message
  <2>2. messages[1].chars + Filler + PadMarkers = messages[1].chars + d
    BY <1>6, <2>1 DEF PadMarkers
  <2> QED BY <1>2, <1>7, <2>2
<1>9. \A k \in 2..(N - 1) : messages'[k] = messages[k]
  BY <1>1, <1>2, <1>4
<1> HIDE DEF d
<1> QED BY <1>2, <1>5, <1>6, <1>7, <1>8, <1>9, NewestStays

LEMMA NewestNext == IInv /\ NewestInv /\ [Next]_vars => NewestInv'
<1>1. ASSUME NewestInv, UNCHANGED <<messages, blocks, recent>> PROVE NewestInv'
  BY <1>1 DEF NewestInv, AreBlocks, KeepsNewest, BlocksKept, NewestFollow
<1> QED
  BY <1>1, NewestDrop, NewestTruncate, NewestPad
  DEF Next, vars, Fits, NoPad

-----------------------------------------------------------------------------
(* The theorems.                                                           *)

(* A prompt is a sequence of messages of natural sizes all along: neither  *)
(* the saturating subtractions nor the filler go below zero.               *)
THEOREM TypeCorrect == Spec => []TypeOK
<1>1. IInv => TypeOK BY DEF IInv
<1> QED BY <1>1, Invariance, PTL

(* What is sent fits its class by the client's measure, for every class    *)
(* limit, padding limit and history: padding never pushes it over.         *)
THEOREM FitsClass == Spec => []WithinBudget
<1>1. IInv => WithinBudget BY DEF IInv, Fitted, WithinBudget
<1> QED BY <1>1, Invariance, PTL

(* The question is the last message of every prompt, whole, or cut short   *)
(* when nothing older is left to drop.                                     *)
THEOREM QuestionKept == Spec => []KeepsQuestion
<1>1. IInv => KeepsQuestion BY DEF IInv, Framed
<1> QED BY <1>1, Invariance, PTL

(* With padding wanted and not limited every prompt of a class is within   *)
(* the markers' overhead of the class limit, whatever it says.             *)
THEOREM LengthsHide == Spec => []LengthHidden
<1>1. IInv => LengthHidden BY DEF IInv, Fitted, LengthHidden
<1> QED BY <1>1, Invariance, PTL

(* Whatever had to go, every block the prompt was built with is still in   *)
(* front and whole, but for the padding, and what is left of the history   *)
(* is its newest part without a gap, for every number of blocks, every     *)
(* history and limit.                                                      *)
THEOREM NewestKept == Spec => []KeepsNewest
<1>1. NewestInv => KeepsNewest BY DEF NewestInv
<1> QED BY <1>1, NewestInit, NewestNext, Invariance, PTL DEF Spec
-----------------------------------------------------------------------------
(* The loop ends.                                                          *)

(* The message at the end of a prompt adds its weight to those before it.  *)
LEMMA LastWeighs ==
    ASSUME NEW ms \in Seq(Message), Len(ms) >= 2
    PROVE  LET front == SubSeq(ms, 1, Len(ms) - 1)
           IN  /\ front \in Seq(Message)
               /\ Bytes(ms) = Bytes(front) + Weight(ms[Len(ms)])
<1> DEFINE M == Len(ms) - 1
           front == SubSeq(ms, 1, M)
<1>1. /\ Len(ms) \in Nat /\ M \in Nat \ {0} /\ Len(ms) = M + 1
      /\ M + 1 \in 1..Len(ms)
  <2> DEFINE N == Len(ms)
  <2>1. N \in Nat /\ N >= 2 /\ M = N - 1 OBVIOUS
  <2> HIDE DEF N, M
  <2>2. M \in Nat \ {0} /\ N = M + 1 /\ M + 1 \in 1..N BY <2>1
  <2> QED BY <2>1, <2>2 DEF N
<1>2. /\ front \in Seq(Message) /\ Len(front) = M
      /\ \A k \in 1..M : front[k] = ms[k] /\ k \in 1..Len(ms)
  BY <1>1
<1> HIDE DEF M, front
<1>3. PICK f : SumsTo(f, Weights(ms), M + 1) /\ Bytes(ms) = f[M + 1]
  BY <1>1, BytesIsSum
<1>4. PICK g : SumsTo(g, Weights(front), M) /\ Bytes(front) = g[M]
  BY <1>2, BytesIsSum
<1> DEFINE v == Weights(ms)
           w == Weights(front)
           h == [k \in 0..M |-> f[k]]
<1>5. /\ Weighed(v, M + 1) /\ Weighed(w, M)
      /\ \A k \in 1..M : w[k] = v[k]
      /\ v[M + 1] = Weight(ms[M + 1])
  <2>1. Weighed(v, M + 1) /\ Weighed(w, M)
    BY <1>1, <1>2, BytesIsSum DEF Weighed
  <2>2. \A k \in 1..M : w[k] = v[k] BY <1>2 DEF Weights
  <2>3. v[M + 1] = Weight(ms[M + 1]) BY <1>1 DEF Weights
  <2> QED BY <2>1, <2>2, <2>3
<1> HIDE DEF v, w
<1>6. /\ f \in [0..(M + 1) -> Nat]
      /\ \A k \in 0..(M + 1) : f[k] = IF k = 0 THEN 0 ELSE f[k - 1] + v[k]
  BY <1>3 DEF SumsTo, v
<1>7. SumsTo(h, w, M)
  <2>1. \A k \in 0..M : /\ k \in 0..(M + 1)
                        /\ k # 0 => k \in 1..M /\ k - 1 \in 0..M
    BY <1>1
  <2>2. h \in [0..M -> Nat] BY <1>6, <2>1
  <2>3. \A k \in 0..M : h[k] = IF k = 0 THEN 0 ELSE h[k - 1] + w[k]
    BY <1>5, <1>6, <2>1
  <2> QED BY <2>2, <2>3 DEF SumsTo
<1>8. h[M] = f[M] /\ M \in 0..M /\ f[M] \in Nat BY <1>1, <1>6
<1> HIDE DEF h
<1>9. g[M] = f[M]
  <2>1. SumsTo(g, w, M) BY <1>4 DEF w
  <2>2. SameRest(w, w, M) BY DEF SameRest
  <2>3. g[M] - h[M] = w[1] - w[1]
    BY <1>1, <1>5, <1>7, <2>1, <2>2, SumsDiffer
  <2>4. g[M] \in Nat /\ w[1] \in Nat BY <1>1, <1>5, <2>1 DEF SumsTo, Weighed
  <2> QED BY <1>8, <2>3, <2>4
<1>10. f[M + 1] = f[M] + v[M + 1]
  <2>1. M + 1 \in 0..(M + 1) /\ M + 1 # 0 /\ (M + 1) - 1 = M BY <1>1
  <2> QED BY <1>6, <2>1
<1>11. Bytes(ms) = Bytes(front) + Weight(ms[M + 1])
  BY <1>3, <1>4, <1>5, <1>9, <1>10
<1> QED BY <1>1, <1>2, <1>11 DEF front, M

(* A truncation takes off all that is over, the ellipsis it adds included, *)
(* or leaves nothing but the ellipsis: it may count characters where the   *)
(* budget counts bytes because no character is less than a byte.           *)
LEMMA TruncationSuffices ==
    ASSUME NEW m \in Message, NEW over \in Nat
    PROVE  LET cut == Truncated(m, over)
           IN  \/ ContentBytes(cut) = Ellipsis
               \/ ContentBytes(cut) + over <= ContentBytes(m)
<1> DEFINE count == CharCount(m)
           left == Monus(count, over + TruncateMargin)
           n == Minimum(m.chars, left)
           cut == Truncated(m, over)
<1>1. m.chars \in Nat /\ m.width \in Nat \ {0} /\ m.dots \in BOOLEAN
  BY DEF Message
<1>2. count \in Nat /\ count <= m.chars + 1 BY <1>1 DEF CharCount
<1>3. cut = [m EXCEPT !.chars = n, !.dots = TRUE] BY DEF Truncated
<1> HIDE DEF count
<1>4. left \in Nat /\ n \in Nat /\ n <= left
  BY <1>1, <1>2 DEF Monus, Minimum, TruncateMargin
<1> HIDE DEF n, left
<1>5. cut.chars = n /\ cut.width = m.width /\ cut.dots
  BY <1>3 DEF Message
<1> HIDE DEF cut
<1>6. n * m.width \in Nat /\ m.chars * m.width \in Nat BY <1>1, <1>4
<1>7. ContentBytes(cut) = n * m.width + Ellipsis BY <1>5 DEF ContentBytes
<1>8. CASE left = 0
  <2>1. n = 0 BY <1>4, <1>8
  <2>2. n * m.width = 0 BY <1>1, <2>1
  <2> QED BY <1>7, <2>2 DEF Ellipsis, cut
<1>9. CASE left # 0
  <2>1. left + over + TruncateMargin = count
    BY <1>2, <1>9 DEF left, Monus, TruncateMargin
  <2> DEFINE k == over + 31
  <2>2. k \in Nat /\ n + k <= m.chars
    BY <1>1, <1>2, <1>4, <2>1 DEF TruncateMargin
  <2> HIDE DEF k
  <2>3. (n + k) * m.width <= m.chars * m.width
    <3> DEFINE a == n + k
               b == m.chars
               c == m.width
    <3>1. a \in Nat /\ b \in Nat /\ c \in Nat /\ a <= b BY <1>1, <1>4, <2>2
    <3> HIDE DEF a, b, c
    <3>2. b - a \in Nat /\ b = a + (b - a) BY <3>1
    <3>3. b * c = a * c + (b - a) * c /\ (b - a) * c \in Nat /\ a * c \in Nat
      BY <3>1, <3>2
    <3> QED BY <3>3 DEF a, b, c
  <2>4. (n + k) * m.width = n * m.width + k * m.width BY <1>1, <1>4, <2>2
  <2>5. k <= k * m.width /\ k * m.width \in Nat
    <3>1. m.width - 1 \in Nat /\ m.width = 1 + (m.width - 1) BY <1>1
    <3>2. k * m.width = k + k * (m.width - 1) /\ k * (m.width - 1) \in Nat
      BY <2>2, <3>1
    <3> QED BY <2>2, <3>2
  <2>6. n * m.width + k <= m.chars * m.width
    BY <1>6, <2>2, <2>3, <2>4, <2>5
  <2>7. ContentBytes(m) >= m.chars * m.width /\ ContentBytes(m) \in Nat
    BY <1>1, <1>6 DEF ContentBytes, Ellipsis
  <2> QED BY <1>6, <1>7, <2>6, <2>7 DEF k, Ellipsis, cut
<1> QED BY <1>8, <1>9

(* How far the loop has got, what it may still drop, and whether it must.  *)
Rank == CASE phase = "fit" -> 3 [] phase = "pad" -> 2
          [] phase = "refit" -> 1 [] phase = "sent" -> 0
Over == IF Bytes(messages) > MaxPrompt THEN 1 ELSE 0
Work == Rank + Len(messages) + Over

(* The blocks leave room for a question, or the loop is over already.      *)
Ready == BlocksFit \/ phase # "fit"

(* The room that the blocks leave stays, and every step brings the prompt  *)
(* nearer to the end.                                                      *)
WorkShrinks == [][Ready => Ready' /\ Work' < Work]_vars

(* Of a prompt that is over its budget in the loop. *)
LEMMA StillFitting ==
    ASSUME IInv, OverBudget PROVE phase = "fit" /\ Rank = 3 /\ Over = 1
<1> USE SizeAssumption
<1>1. Bytes(messages) \in Nat BY BytesType DEF IInv, TypeOK
<1>2. Bytes(messages) > MaxPrompt /\ phase \in {"fit", "refit"}
  BY DEF OverBudget
<1>3. phase = "fit" BY <1>1, <1>2 DEF IInv, Fitted
<1> QED BY <1>2, <1>3 DEF Rank, Over

(* Work is a natural number. *)
LEMMA WorkType == IInv => Work \in Nat /\ Len(messages) \in Nat /\ Over \in {0, 1}
<1> SUFFICES ASSUME IInv PROVE Work \in Nat /\ Len(messages) \in Nat /\ Over \in {0, 1}
  OBVIOUS
<1>1. Rank \in Nat BY DEF IInv, TypeOK, Rank
<1>2. Len(messages) \in Nat BY DEF IInv, TypeOK
<1>3. Over \in {0, 1} BY DEF Over
<1> QED BY <1>1, <1>2, <1>3 DEF Work

(* A step that leaves the blocks and their number alone, and turns no      *)
(* other message into a block, leaves their room.                          *)
LEMMA BlocksStay ==
    ASSUME NEW ms \in Seq(Message), NEW new \in Seq(Message),
           NEW n \in DOMAIN ms,
           \A k \in DOMAIN ms : ms[k].role = "system" <=> k <= n,
           n <= Len(new), \A k \in 1..n : new[k] = ms[k],
           \A k \in (n + 1)..Len(new) : new[k].role # "system"
    PROVE  /\ n \in DOMAIN new
           /\ \A k \in DOMAIN new : new[k].role = "system" <=> k <= n
           /\ SubSeq(new, 1, n) = SubSeq(ms, 1, n)
<1>1. /\ n \in 1..Len(ms) /\ Len(ms) \in Nat /\ Len(new) \in Nat
      /\ DOMAIN ms = 1..Len(ms) /\ DOMAIN new = 1..Len(new)
  OBVIOUS
<1>2. n \in 1..Len(new) BY <1>1
<1>3. \A k \in 1..Len(new) : new[k].role = "system" <=> k <= n
  <2> SUFFICES ASSUME NEW k \in 1..Len(new)
               PROVE  new[k].role = "system" <=> k <= n
    OBVIOUS
  <2>1. CASE k <= n
    <3>1. k \in 1..n /\ k \in DOMAIN ms BY <1>1, <2>1
    <3> QED BY <2>1, <3>1
  <2>2. CASE ~(k <= n)
    <3>1. k \in (n + 1)..Len(new) BY <1>1, <2>2
    <3> QED BY <2>2, <3>1
  <2> QED BY <2>1, <2>2
<1>4. SubSeq(new, 1, n) = SubSeq(ms, 1, n)
  <2>1. /\ SubSeq(new, 1, n) = [k \in 1..n |-> new[k]]
        /\ SubSeq(ms, 1, n) = [k \in 1..n |-> ms[k]]
    BY <1>1, <1>2
  <2> QED BY <2>1
<1> QED BY <1>1, <1>2, <1>3, <1>4

(* Dropping takes no block, and the prompt gets shorter. *)
LEMMA DropWorks ==
    ASSUME IInv, Drop, Ready PROVE Ready' /\ Work' < Work
<1> DEFINE N == Len(messages)
           i == CHOOSE i \in Droppable(messages) :
                    \A j \in Droppable(messages) : i <= j
           left == RemoveAt(messages, i)
<1>1. /\ messages \in Seq(Message) /\ messages # <<>>
      /\ messages[N].role = "user" /\ Droppable(messages) # {}
      /\ messages' = left /\ phase' = phase
      /\ N \in Nat /\ N >= 2 /\ DOMAIN messages = 1..N
  BY DEF IInv, TypeOK, Framed, Drop, CanDrop
<1>2. phase = "fit" /\ Rank = 3 /\ Over = 1
  BY StillFitting DEF Drop
<1>3. i \in 2..(N - 1) /\ i \in Droppable(messages)
  <2>1. i \in 2..(N - 1) BY <1>1, DroppedInside
  <2>2. Droppable(messages) \subseteq Nat BY <1>1 DEF Droppable
  <2>3. \E k \in Droppable(messages) : \A j \in Droppable(messages) : k <= j
    BY <1>1, <2>2, Least
  <2> QED BY <2>1, <2>3
<1> HIDE DEF i
<1>4. /\ left \in Seq(Message) /\ Len(left) = N - 1
      /\ \A k \in 1..(N - 1) :
            left[k] = IF k < i THEN messages[k] ELSE messages[k + 1]
  BY <1>1, <1>3, DropSpares
<1> HIDE DEF left, N
<1>5. Ready'
  <2>1. PICK n \in DOMAIN messages :
            /\ \A k \in DOMAIN messages : messages[k].role = "system" <=> k <= n
            /\ Bytes(SubSeq(messages, 1, n)) + RoleLen("user") + Ellipsis
                    <= MaxPrompt
    BY <1>2 DEF Ready, BlocksFit
  <2>2. n \in Nat /\ n < i
    <3>1. messages[i].role # "system" BY <1>3 DEF Droppable
    <3>2. ~(i <= n) BY <1>1, <1>3, <2>1, <3>1
    <3> QED BY <1>1, <1>3, <2>1, <3>2
  <2>3. \A k \in 1..n : left[k] = messages[k]
    BY <1>1, <1>3, <1>4, <2>2
  <2>4. \A k \in (n + 1)..(N - 1) : left[k].role # "system"
    <3>1. \A k \in (n + 1)..(N - 1) :
            /\ k \in 1..(N - 1) /\ k \in 1..N /\ k + 1 \in 1..N
            /\ ~(k <= n) /\ ~(k + 1 <= n)
      BY <1>1, <2>2
    <3> QED BY <1>1, <1>4, <2>1, <3>1
  <2>5. n <= N - 1 BY <1>1, <1>3, <2>2
  <2>6. /\ n \in DOMAIN left
        /\ \A k \in DOMAIN left : left[k].role = "system" <=> k <= n
        /\ SubSeq(left, 1, n) = SubSeq(messages, 1, n)
    BY <1>1, <1>4, <2>1, <2>3, <2>4, <2>5, BlocksStay, SMTT(30)
  <2> QED BY <1>1, <2>1, <2>6 DEF Ready, BlocksFit
<1>6. Work' < Work
  <2>1. IInv' BY DropHolds
  <2>2. Rank' = 3 BY <1>1, <1>2 DEF Rank
  <2>3. Len(messages') = N - 1 BY <1>1, <1>4
  <2>4. Over' \in {0, 1} BY <2>1, WorkType DEF Over
  <2>5. Work' = 3 + (N - 1) + Over' BY <2>2, <2>3 DEF Work
  <2>6. Work = 3 + N + 1 BY <1>2 DEF Work, N
  <2>7. N \in Nat BY <1>1
  <2> DEFINE later == Over'
             w == Work'
  <2>8. later \in {0, 1} /\ w = 3 + (N - 1) + later BY <2>4, <2>5
  <2> HIDE DEF later, w
  <2>9. w < 3 + N + 1 BY <2>7, <2>8
  <2> QED BY <2>6, <2>9 DEF w
<1> QED BY <1>5, <1>6

(* One truncation is enough. *)
LEMMA TruncateWorks ==
    ASSUME IInv, Truncate, Ready PROVE Ready' /\ Work' < Work
<1> USE SizeAssumption
<1> DEFINE N == Len(messages)
           over == Bytes(messages) - MaxPrompt
           m == messages[N]
           cut == Truncated(m, over)
           front == SubSeq(messages, 1, N - 1)
<1>1. /\ messages \in Seq(Message) /\ N >= 2 /\ messages # <<>> /\ N \in Nat
      /\ m.role = "user" /\ DOMAIN messages = 1..N /\ m \in Message
  BY DEF IInv, TypeOK, Framed
<1>2. LastUser(messages) = N BY <1>1, LastIsUser
<1>3. phase = "fit" /\ Rank = 3 /\ Over = 1
  BY StillFitting DEF Truncate
<1>4. over \in Nat /\ Bytes(messages) = MaxPrompt + over
  <2>1. Bytes(messages) \in Nat BY <1>1, BytesType
  <2>2. Bytes(messages) > MaxPrompt BY DEF Truncate, OverBudget
  <2> QED BY <2>1, <2>2
<1>5. messages' = [messages EXCEPT ![N] = cut] /\ phase' = phase
  BY <1>2 DEF Truncate
<1>6. cut \in Message /\ cut.role = "user" BY <1>1, <1>4, TruncatedType
<1>7. \A k \in 2..(N - 1) : messages[k].role = "system"
  <2>1. N <= 2 \/ Droppable(messages) = {} BY DEF Truncate, CanDrop
  <2> HIDE DEF N
  <2>2. N \in Nat /\ DOMAIN messages = 1..N /\ LastUser(messages) = N
    BY <1>1, <1>2
  <2>3. ASSUME NEW k \in 2..(N - 1) PROVE messages[k].role = "system"
    <3>1. N > 2 /\ k \in DOMAIN messages /\ k # 1 /\ k # N BY <2>2
    <3>2. Droppable(messages) = {} BY <2>1, <2>2, <3>1
    <3> QED BY <2>2, <3>1, <3>2 DEF Droppable
  <2> QED BY <2>3
<1>8. PICK n \in DOMAIN messages :
            /\ \A k \in DOMAIN messages : messages[k].role = "system" <=> k <= n
            /\ Bytes(SubSeq(messages, 1, n)) + RoleLen("user") + Ellipsis
                    <= MaxPrompt
  BY <1>3 DEF Ready, BlocksFit
<1>9. n = N - 1
  <2>1. ~(N <= n) BY <1>1, <1>8
  <2>2. N - 1 <= n
    <3>1. CASE N = 2 BY <1>1, <1>8, <3>1
    <3>2. CASE N # 2
      <4>1. N - 1 \in 2..(N - 1) /\ N - 1 \in DOMAIN messages BY <1>1, <3>2
      <4> QED BY <1>7, <1>8, <4>1
    <3> QED BY <3>1, <3>2
  <2> QED BY <1>1, <1>8, <2>1, <2>2
<1>10. /\ messages' \in Seq(Message) /\ Len(messages') = N
       /\ messages'[N] = cut
       /\ \A k \in 1..(N - 1) : messages'[k] = messages[k]
  <2> DEFINE ms == messages
             new == [ms EXCEPT ![N] = cut]
  <2>1. N \in 1..N /\ ms \in Seq(Message) /\ Len(ms) = N BY <1>1
  <2> HIDE DEF ms, N, cut
  <2>2. \A k \in 1..(N - 1) : k \in 1..N /\ k # N BY <2>1
  <2>3. /\ new \in Seq(Message) /\ Len(new) = N /\ new[N] = cut
        /\ \A k \in 1..N : k # N => new[k] = ms[k]
    BY <1>6, <2>1, ExceptSeq
  <2>4. messages' = new BY <1>5 DEF ms
  <2> HIDE DEF new
  <2> QED BY <2>2, <2>3, <2>4 DEF ms
<1>11. /\ n \in DOMAIN messages'
       /\ \A k \in DOMAIN messages' : messages'[k].role = "system" <=> k <= n
       /\ SubSeq(messages', 1, n) = front
  <2>1. \A k \in (n + 1)..N : k = N
    <3>1. N \in Nat BY <1>1
    <3> HIDE DEF N
    <3> QED BY <1>9, <3>1
  <2>2. \A k \in (n + 1)..Len(messages') : messages'[k].role # "system"
    BY <1>6, <1>10, <2>1
  <2>3. n <= Len(messages') BY <1>1, <1>9, <1>10
  <2> HIDE DEF cut, N
  <2>4. \A k \in 1..n : messages'[k] = messages[k] BY <1>9, <1>10
  <2>5. /\ n \in DOMAIN messages'
        /\ \A k \in DOMAIN messages' : messages'[k].role = "system" <=> k <= n
        /\ SubSeq(messages', 1, n) = SubSeq(messages, 1, n)
    BY <1>1, <1>8, <1>10, <2>2, <2>3, <2>4, BlocksStay
  <2> QED BY <1>9, <2>5
<1>12. Ready' BY <1>8, <1>9, <1>11 DEF Ready, BlocksFit
<1>13. Bytes(messages') <= MaxPrompt
  <2>1. Bytes(messages) = Bytes(front) + Weight(m) /\ front \in Seq(Message)
    BY <1>1, LastWeighs
  <2>2. Bytes(messages') = Bytes(front) + Weight(cut)
    BY <1>1, <1>9, <1>10, <1>11, LastWeighs
  <2>3. /\ Weight(m) = 4 + ContentBytes(m)
        /\ Weight(cut) = 4 + ContentBytes(cut)
    BY <1>1, <1>6 DEF Weight, RoleLen
  <2>4. /\ Bytes(front) \in Nat /\ Weight(m) \in Nat /\ Weight(cut) \in Nat
    BY <1>1, <1>6, <2>1, BytesType, WeightType
  <2>5. ContentBytes(m) \in Int /\ ContentBytes(cut) \in Int
    <3>1. m \in Message /\ cut \in Message BY <1>1, <1>6
    <3> HIDE DEF m, cut
    <3>2. /\ m.chars \in Nat /\ m.width \in Nat
          /\ cut.chars \in Nat /\ cut.width \in Nat
      BY <3>1 DEF Message
    <3>3. m.chars * m.width \in Nat /\ cut.chars * cut.width \in Nat BY <3>2
    <3> QED BY <3>3 DEF ContentBytes, Ellipsis
  <2>6. Bytes(front) + 4 + 3 <= MaxPrompt
    BY <1>8, <1>9 DEF RoleLen, Ellipsis
  <2>7. ContentBytes(cut) = 3 \/ ContentBytes(cut) + over <= ContentBytes(m)
    BY <1>1, <1>4, TruncationSuffices DEF Ellipsis
  <2> DEFINE was == Bytes(messages)
             is == Bytes(messages')
             ahead == Bytes(front)
             whole == ContentBytes(m)
             short == ContentBytes(cut)
  <2>8. /\ was = MaxPrompt + over /\ was = ahead + (4 + whole)
        /\ is = ahead + (4 + short)
    BY <1>4, <2>1, <2>2, <2>3
  <2>9. /\ over \in Nat /\ MaxPrompt \in Nat /\ ahead \in Nat
        /\ whole \in Int /\ short \in Int
        /\ ahead + 4 + 3 <= MaxPrompt
        /\ short = 3 \/ short + over <= whole
    BY <1>4, <2>4, <2>5, <2>6, <2>7
  <2> HIDE DEF was, is, ahead, whole, short, over
  <2>10. is <= MaxPrompt BY <2>8, <2>9
  <2> QED BY <2>10 DEF is
<1>14. Work' < Work
  <2>1. IInv' BY TruncateHolds
  <2>2. Rank' = 3 BY <1>3, <1>5 DEF Rank
  <2>3. Over' = 0
    <3>1. Bytes(messages') \in Nat BY <1>10, BytesType
    <3>2. ~(Bytes(messages') > MaxPrompt) BY <1>13, <3>1
    <3> QED BY <3>2 DEF Over
  <2>4. Work' = 3 + N + 0 BY <1>10, <2>2, <2>3 DEF Work
  <2>5. Work = 3 + N + 1 BY <1>3 DEF Work
  <2> QED BY <1>1, <2>4, <2>5
<1> QED BY <1>12, <1>14

(* The end of the loop, and the padding, which stays within the limit.     *)
LEMMA PhaseWorks ==
    ASSUME IInv, Fits \/ Pad \/ NoPad PROVE Ready' /\ Work' < Work
<1> USE SizeAssumption
<1>1. IInv' BY FitsHolds, PadHolds, NoPadHolds
<1>2. /\ Rank' = Rank - 1 /\ Rank \in Nat /\ phase' # "fit"
  BY DEF IInv, TypeOK, Fits, Pad, NoPad, Rank
<1>3. Over' = 0
  <2>1. Bytes(messages') <= MaxPrompt BY <1>1, <1>2 DEF IInv, Fitted
  <2>2. Bytes(messages') \in Nat BY <1>1, BytesType DEF IInv, TypeOK
  <2>3. ~(Bytes(messages') > MaxPrompt) BY <2>1, <2>2
  <2> QED BY <2>3 DEF Over
<1>4. Len(messages') = Len(messages)
  <2>1. CASE Fits \/ NoPad BY <2>1 DEF Fits, NoPad
  <2>2. CASE Pad
    <3>1. messages' = [messages EXCEPT ![1].chars = @ + Filler + PadMarkers]
      BY <2>2 DEF Pad
    <3>2. messages \in Seq(Message) /\ messages' \in Seq(Message)
      BY <1>1 DEF IInv, TypeOK
    <3>3. DOMAIN messages' = DOMAIN messages BY <3>1
    <3> QED BY <3>2, <3>3
  <2> QED BY <2>1, <2>2
<1>5. Len(messages) \in Nat /\ Over \in {0, 1} BY WorkType
<1>6. Work' = (Rank - 1) + Len(messages) + 0 BY <1>2, <1>3, <1>4 DEF Work
<1> QED BY <1>2, <1>5, <1>6 DEF Ready, Work

(* As long as the blocks leave room for a question, every step of the loop *)
(* and of the padding brings a natural number down, and the room stays:    *)
(* each drop makes the prompt shorter and one truncation of the question   *)
(* is enough, for every class, every history and any bytes per character.  *)
(* It is what EndsIfBlocksFit rests on beside fairness.                    *)
THEOREM LoopShortens == Spec => WorkShrinks /\ [](Work \in Nat)
<1>1. IInv => Work \in Nat BY WorkType
<1>2. IInv /\ [Next]_vars => [Ready => Ready' /\ Work' < Work]_vars
  BY DropWorks, TruncateWorks, PhaseWorks DEF Next
<1> QED BY <1>1, <1>2, Invariance, PTL DEF Spec, WorkShrinks
=============================================================================
