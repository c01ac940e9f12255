-------------------------- MODULE AgentRuntimeProofs --------------------------
(***************************************************************************)
(* One session's agent, for any limits, any texts, any rules' order and    *)
(* any terms: what its index names, which edits outlive a crash, what its  *)
(* texts are made of, what its summary can resolve, what leaves in a       *)
(* prompt and what comes back of it.                                       *)
(***************************************************************************)
EXTENDS AgentRuntime, RedactionProofs

(* The parts of IndexAgrees, of any index and session.                     *)
Names(docs, memory, messages) ==
    \A d \in Range(docs) :
        \/ /\ d.kind = "memory" /\ d.at \in DOMAIN memory
           /\ d.text = memory[d.at]
        \/ /\ d.kind = "message" /\ d.at \in DOMAIN messages
           /\ d.text = messages[d.at].text

Once(docs) ==
    \A i, j \in DOMAIN docs :
        docs[i].kind = docs[j].kind /\ docs[i].at = docs[j].at => i = j

Gapless(docs, messages) ==
    \A d \in Range(docs) : d.kind = "message" =>
        \A k \in d.at..Len(messages) :
            MessageDoc(k, messages[k].text) \in Range(docs)

Agrees(docs, memory, messages) ==
    /\ Names(docs, memory, messages) /\ Once(docs) /\ Gapless(docs, messages)
    /\ Range(Rebuilt(memory, messages)) \subseteq Range(docs)

(* A session, of which only the lists matter.                              *)
Shaped(state) ==
    /\ {"messages", "memory"} \subseteq DOMAIN state
    /\ IsSeq(state.messages) /\ IsSeq(state.memory)

IInv ==
    /\ Shaped(session) /\ Shaped(file) /\ IsSeq(index)
    /\ IndexAgrees /\ RecallIsOld

-----------------------------------------------------------------------------
(* Sequences.                                                              *)

(* What Append does, place by place.                                       *)
LEMMA AppendPlaces ==
    ASSUME NEW s, IsSeq(s), NEW x
    PROVE  LET longer == Append(s, x)
           IN  /\ IsSeq(longer) /\ Len(longer) = Len(s) + 1
               /\ DOMAIN longer = 1..(Len(s) + 1)
               /\ \A i \in 1..Len(s) : longer[i] = s[i]
               /\ longer[Len(s) + 1] = x
               /\ Range(longer) = Range(s) \cup {x}
<1>1. PICK S : s \in Seq(S) BY DEF IsSeq
<1> DEFINE T == S \cup {x}
           longer == Append(s, x)
<1>2. s \in Seq(T) /\ x \in T BY <1>1, SeqMonotonic
<1> HIDE DEF T
<1>3. /\ longer \in Seq(T) /\ Len(longer) = Len(s) + 1
      /\ \A i \in 1..Len(s) : longer[i] = s[i]
      /\ longer[Len(s) + 1] = x /\ Len(s) \in Nat /\ DOMAIN s = 1..Len(s)
  BY <1>2, AppendProperties
<1> HIDE DEF longer
<1>4. DOMAIN longer = 1..(Len(s) + 1) BY <1>3
<1>5. Range(longer) = Range(s) \cup {x}
  <2>1. \A y \in Range(longer) : y \in Range(s) \cup {x}
    <3> SUFFICES ASSUME NEW i \in 1..(Len(s) + 1)
                 PROVE  longer[i] \in Range(s) \cup {x}
      BY <1>4 DEF Range
    <3>1. i \in 1..Len(s) \/ i = Len(s) + 1 BY <1>3
    <3> QED BY <1>3, <3>1 DEF Range
  <2>2. \A y \in Range(s) : y \in Range(longer)
    <3> SUFFICES ASSUME NEW i \in 1..Len(s) PROVE s[i] \in Range(longer)
      BY <1>3 DEF Range
    <3>1. i \in 1..(Len(s) + 1) /\ longer[i] = s[i] BY <1>3
    <3> QED BY <1>4, <3>1 DEF Range
  <2>3. x \in Range(longer)
    <3>1. Len(s) + 1 \in 1..(Len(s) + 1) BY <1>3
    <3> QED BY <1>3, <1>4, <3>1 DEF Range
  <2> QED BY <2>1, <2>2, <2>3
<1>6. IsSeq(longer) BY <1>3 DEF IsSeq
<1> QED BY <1>3, <1>4, <1>5, <1>6 DEF longer

LEMMA SeqPlaces ==
    ASSUME NEW s, IsSeq(s)
    PROVE  Len(s) \in Nat /\ DOMAIN s = 1..Len(s)
BY DEF IsSeq

LEMMA RangeFinite ==
    ASSUME NEW S, NEW t \in Seq(S)
    PROVE  IsFiniteSet(Range(t))
<1> DEFINE R == Range(t)
           n == Len(t)
<1>1. n \in Nat /\ DOMAIN t = 1..n OBVIOUS
<1>2. t \in Surjection(1..n, R)
  <2>1. t \in [1..n -> R] BY <1>1 DEF Range
  <2>2. \A x \in R : \E k \in 1..n : t[k] = x BY <1>1 DEF Range
  <2> HIDE DEF R
  <2> QED BY <2>1, <2>2 DEF Surjection
<1> HIDE DEF R, n
<1>3. 1 \in Int /\ n \in Int BY <1>1
<1>4. IsFiniteSet(1..n) BY <1>3, FS_Interval
<1>5. IsFiniteSet(R) BY <1>2, <1>4, FS_Surjection
<1> QED BY <1>5 DEF R

(* What a rebuilt index holds, place by place: every item, and the recent  *)
(* messages under their own numbers.                                       *)
LEMMA RebuiltPlaces ==
    ASSUME NEW memory, NEW messages, IsSeq(memory), IsSeq(messages)
    PROVE  LET docs == Rebuilt(memory, messages)
               m == Len(memory)
               start == Less(Len(messages), MaxIndexed)
               n == IF IndexMessages THEN Len(messages) - start ELSE 0
           IN  /\ IsSeq(docs) /\ DOMAIN docs = 1..(m + n)
               /\ m \in Nat /\ n \in Nat /\ start \in Nat
               /\ Len(messages) \in Nat /\ start <= Len(messages)
               /\ \A i \in 1..m : docs[i] = MemoryDoc(i, memory[i])
               /\ \A i \in 1..n : docs[m + i] =
                     MessageDoc(start + i, messages[start + i].text)
<1> USE IndexAssumption
<1> DEFINE m == Len(memory)
           start == Less(Len(messages), MaxIndexed)
           n == IF IndexMessages THEN Len(messages) - start ELSE 0
           a == MemoryDocs(memory)
           b == IF IndexMessages THEN RecentDocs(messages) ELSE <<>>
           S == Range(a) \cup Range(b)
<1>1. /\ m \in Nat /\ start \in Nat /\ n \in Nat
      /\ Len(messages) \in Nat /\ start <= Len(messages)
  <2>1. Len(memory) \in Nat /\ Len(messages) \in Nat BY SeqPlaces
  <2> QED BY <2>1 DEF Less
<1>2. /\ a = [i \in 1..m |-> MemoryDoc(i, memory[i])]
      /\ b = [i \in 1..n |-> MessageDoc(start + i, messages[start + i].text)]
  <2>1. a = [i \in 1..m |-> MemoryDoc(i, memory[i])] BY DEF MemoryDocs
  <2>2. CASE IndexMessages
    <3>1. b = RecentDocs(messages) /\ n = Len(messages) - start BY <2>2
    <3>2. RecentDocs(messages) = [i \in 1..(Len(messages) - start) |->
                    MessageDoc(start + i, messages[start + i].text)]
      BY DEF RecentDocs
    <3> HIDE DEF b, n, start
    <3> QED BY <2>1, <3>1, <3>2
  <2>3. CASE ~IndexMessages
    <3>1. b = <<>> /\ n = 0 BY <2>3
    <3>2. <<>> = [i \in 1..0 |->
                    MessageDoc(start + i, messages[start + i].text)]
      OBVIOUS
    <3> QED BY <2>1, <3>1, <3>2
  <2> QED BY <2>1, <2>2, <2>3
<1>3. Rebuilt(memory, messages) = a \o b BY DEF Rebuilt
<1> HIDE DEF m, n, start, a, b
<1>4. DOMAIN a = 1..m /\ DOMAIN b = 1..n BY <1>2
<1>5. a \in Seq(S) /\ b \in Seq(S) /\ Len(a) = m /\ Len(b) = n
  <2>1. a \in [1..m -> S] /\ b \in [1..n -> S] BY <1>2, <1>4 DEF Range
  <2> HIDE DEF S
  <2> QED BY <1>1, <2>1
<1> HIDE DEF S
<1>6. /\ a \o b \in Seq(S) /\ Len(a \o b) = m + n
      /\ \A i \in 1..(m + n) : (a \o b)[i] = IF i <= m THEN a[i] ELSE b[i - m]
  BY <1>5, ConcatProperties
<1>7. \A i \in 1..m : (a \o b)[i] = MemoryDoc(i, memory[i])
  BY <1>1, <1>2, <1>6
<1>8. \A i \in 1..n : (a \o b)[m + i] =
          MessageDoc(start + i, messages[start + i].text)
  <2> SUFFICES ASSUME NEW i \in 1..n
               PROVE  (a \o b)[m + i] =
                        MessageDoc(start + i, messages[start + i].text)
    OBVIOUS
  <2>1. m + i \in 1..(m + n) /\ ~(m + i <= m) /\ (m + i) - m = i BY <1>1
  <2>2. (a \o b)[m + i] = b[i] BY <1>6, <2>1
  <2> QED BY <1>2, <2>2
<1>9. IsSeq(a \o b) /\ DOMAIN (a \o b) = 1..(m + n) BY <1>1, <1>6 DEF IsSeq
<1> QED BY <1>1, <1>3, <1>7, <1>8, <1>9 DEF m, n, start

-----------------------------------------------------------------------------
(* The index.                                                              *)

(* An index that was just built agrees.                                    *)
LEMMA RebuiltAgrees ==
    ASSUME NEW memory, NEW messages, IsSeq(memory), IsSeq(messages)
    PROVE  /\ IsSeq(Rebuilt(memory, messages))
           /\ Agrees(Rebuilt(memory, messages), memory, messages)
<1> DEFINE docs == Rebuilt(memory, messages)
           m == Len(memory)
           start == Less(Len(messages), MaxIndexed)
           n == IF IndexMessages THEN Len(messages) - start ELSE 0
<1>1. /\ IsSeq(docs) /\ DOMAIN docs = 1..(m + n)
      /\ m \in Nat /\ n \in Nat /\ start \in Nat
      /\ Len(messages) \in Nat /\ start <= Len(messages)
      /\ \A i \in 1..m : docs[i] = MemoryDoc(i, memory[i])
      /\ \A i \in 1..n : docs[m + i] =
            MessageDoc(start + i, messages[start + i].text)
      /\ n = 0 \/ n = Len(messages) - start
      /\ DOMAIN memory = 1..m /\ DOMAIN messages = 1..Len(messages)
  BY RebuiltPlaces, SeqPlaces
<1> HIDE DEF docs, m, start, n
<1>0. /\ m \in Nat /\ n \in Nat /\ start \in Nat /\ Len(messages) \in Nat
      /\ start <= Len(messages) /\ (n = 0 \/ n = Len(messages) - start)
  BY <1>1
<1>2. ASSUME NEW i \in 1..(m + n)
      PROVE  \/ /\ i \in 1..m /\ docs[i].kind = "memory" /\ docs[i].at = i
                /\ docs[i].text = memory[i]
             \/ /\ i - m \in 1..n /\ docs[i].kind = "message"
                /\ docs[i].at = start + (i - m)
                /\ start + (i - m) \in 1..Len(messages)
                /\ docs[i].text = messages[start + (i - m)].text
  <2>1. CASE i <= m
    <3>1. i \in 1..m BY <1>0, <2>1
    <3>2. docs[i] = MemoryDoc(i, memory[i]) BY <1>1, <3>1
    <3> QED BY <3>1, <3>2 DEF MemoryDoc
  <2>2. CASE ~(i <= m)
    <3>1. i - m \in 1..n /\ m + (i - m) = i BY <1>0, <2>2
    <3>2. docs[i] = MessageDoc(start + (i - m), messages[start + (i - m)].text)
      <4>1. docs[m + (i - m)] =
                MessageDoc(start + (i - m), messages[start + (i - m)].text)
        BY <1>1, <3>1
      <4> QED BY <3>1, <4>1
    <3>3. start + (i - m) \in 1..Len(messages) BY <1>0, <3>1
    <3> QED BY <3>1, <3>2, <3>3 DEF MessageDoc
  <2> QED BY <2>1, <2>2
<1>3. Names(docs, memory, messages)
  <2> SUFFICES ASSUME NEW i \in 1..(m + n)
               PROVE  \/ /\ docs[i].kind = "memory" /\ docs[i].at \in DOMAIN memory
                         /\ docs[i].text = memory[docs[i].at]
                      \/ /\ docs[i].kind = "message"
                         /\ docs[i].at \in DOMAIN messages
                         /\ docs[i].text = messages[docs[i].at].text
    BY <1>1 DEF Names, Range
  <2> QED BY <1>1, <1>2
<1>4. Once(docs)
  <2> SUFFICES ASSUME NEW i \in 1..(m + n), NEW j \in 1..(m + n),
                      docs[i].kind = docs[j].kind, docs[i].at = docs[j].at
               PROVE  i = j
    BY <1>1 DEF Once
  <2>1. CASE docs[i].kind = "memory" BY <1>2, <2>1
  <2>2. CASE docs[i].kind = "message"
    <3>1. start + (i - m) = start + (j - m) BY <1>2, <2>2
    <3>2. i \in Nat /\ j \in Nat BY <1>0
    <3> QED BY <1>0, <3>1, <3>2
  <2> QED BY <1>2, <2>1, <2>2
<1>5. Gapless(docs, messages)
  <2> SUFFICES ASSUME NEW i \in 1..(m + n), docs[i].kind = "message",
                      NEW k \in docs[i].at..Len(messages)
               PROVE  MessageDoc(k, messages[k].text) \in Range(docs)
    BY <1>1 DEF Gapless, Range
  <2>1. /\ i - m \in 1..n /\ docs[i].at = start + (i - m)
    BY <1>2
  <2>2. n = Len(messages) - start /\ k - start \in 1..n
        /\ start + (k - start) = k /\ m + (k - start) \in 1..(m + n)
    BY <1>0, <2>1
  <2>3. docs[m + (k - start)] = MessageDoc(k, messages[k].text)
    <3>1. docs[m + (k - start)] =
              MessageDoc(start + (k - start), messages[start + (k - start)].text)
      BY <1>1, <2>2
    <3> QED BY <2>2, <3>1
  <2> QED BY <1>1, <2>2, <2>3 DEF Range
<1> QED BY <1>1, <1>3, <1>4, <1>5 DEF Agrees, docs

(* Remembering an item keeps it so.                                        *)
LEMMA ItemAgrees ==
    ASSUME NEW docs, NEW memory, NEW messages, NEW text,
           IsSeq(docs), IsSeq(memory), IsSeq(messages),
           Agrees(docs, memory, messages)
    PROVE  Agrees(Append(docs, MemoryDoc(Len(memory) + 1, text)),
                  Append(memory, text), messages)
<1> DEFINE m == Len(memory)
           doc == MemoryDoc(m + 1, text)
           more == Append(docs, doc)
           items == Append(memory, text)
<1>1. /\ Len(docs) \in Nat /\ DOMAIN docs = 1..Len(docs)
      /\ m \in Nat /\ DOMAIN memory = 1..m
      /\ Len(messages) \in Nat /\ DOMAIN messages = 1..Len(messages)
  BY SeqPlaces
<1>2. /\ DOMAIN more = 1..(Len(docs) + 1)
      /\ \A i \in 1..Len(docs) : more[i] = docs[i]
      /\ more[Len(docs) + 1] = doc /\ Range(more) = Range(docs) \cup {doc}
  BY AppendPlaces
<1>3. /\ IsSeq(items) /\ Len(items) = m + 1 /\ DOMAIN items = 1..(m + 1)
      /\ \A i \in 1..m : items[i] = memory[i]
      /\ items[m + 1] = text
  BY AppendPlaces
<1>4. doc.kind = "memory" /\ doc.at = m + 1 /\ doc.text = text
  BY DEF MemoryDoc
<1> HIDE DEF m, doc, more, items
<1>5. m + 1 \in 1..(m + 1) /\ 1..m \subseteq 1..(m + 1) BY <1>1
<1>6. Names(more, items, messages)
  <2> SUFFICES ASSUME NEW d \in Range(more)
               PROVE  \/ /\ d.kind = "memory" /\ d.at \in DOMAIN items
                         /\ d.text = items[d.at]
                      \/ /\ d.kind = "message" /\ d.at \in DOMAIN messages
                         /\ d.text = messages[d.at].text
    BY DEF Names
  <2>1. CASE d = doc BY <1>3, <1>4, <1>5, <2>1
  <2>2. CASE d \in Range(docs)
    <3>1. \/ /\ d.kind = "memory" /\ d.at \in 1..m /\ d.text = memory[d.at]
          \/ /\ d.kind = "message" /\ d.at \in DOMAIN messages
             /\ d.text = messages[d.at].text
      BY <1>1, <2>2 DEF Agrees, Names
    <3> QED BY <1>3, <1>5, <3>1
  <2> QED BY <1>2, <2>1, <2>2
<1>7. Once(more)
  <2>1. ASSUME NEW i \in 1..Len(docs)
        PROVE  docs[i].kind = "memory" => docs[i].at # m + 1
    <3>1. docs[i] \in Range(docs) BY <1>1 DEF Range
    <3>2. docs[i].kind = "memory" => docs[i].at \in 1..m
      BY <1>1, <3>1 DEF Agrees, Names
    <3> QED BY <1>1, <3>2
  <2> SUFFICES ASSUME NEW i \in 1..(Len(docs) + 1), NEW j \in 1..(Len(docs) + 1),
                      more[i].kind = more[j].kind, more[i].at = more[j].at
               PROVE  i = j
    BY <1>2 DEF Once
  <2>2. i \in 1..Len(docs) \/ i = Len(docs) + 1 BY <1>1
  <2>3. j \in 1..Len(docs) \/ j = Len(docs) + 1 BY <1>1
  <2>4. CASE i \in 1..Len(docs) /\ j \in 1..Len(docs)
    BY <1>1, <1>2, <2>4 DEF Agrees, Once
  <2>5. CASE i \in 1..Len(docs) /\ j = Len(docs) + 1
    BY <1>2, <1>4, <2>1, <2>5
  <2>6. CASE i = Len(docs) + 1 /\ j \in 1..Len(docs)
    BY <1>2, <1>4, <2>1, <2>6
  <2> QED BY <2>2, <2>3, <2>4, <2>5, <2>6
<1>8. Gapless(more, messages)
  <2> SUFFICES ASSUME NEW d \in Range(more), d.kind = "message",
                      NEW k \in d.at..Len(messages)
               PROVE  MessageDoc(k, messages[k].text) \in Range(more)
    BY DEF Gapless
  <2>1. d \in Range(docs) BY <1>2, <1>4
  <2> QED BY <1>2, <2>1 DEF Agrees, Gapless
<1>9. Range(Rebuilt(items, messages)) \subseteq Range(more)
  <2> DEFINE start == Less(Len(messages), MaxIndexed)
             n == IF IndexMessages THEN Len(messages) - start ELSE 0
             old == Rebuilt(memory, messages)
             new == Rebuilt(items, messages)
  <2>1. /\ DOMAIN old = 1..(m + n) /\ n \in Nat
        /\ \A i \in 1..m : old[i] = MemoryDoc(i, memory[i])
        /\ \A i \in 1..n : old[m + i] =
              MessageDoc(start + i, messages[start + i].text)
    BY RebuiltPlaces DEF m
  <2>2. /\ DOMAIN new = 1..((m + 1) + n)
        /\ \A i \in 1..(m + 1) : new[i] = MemoryDoc(i, items[i])
        /\ \A i \in 1..n : new[(m + 1) + i] =
              MessageDoc(start + i, messages[start + i].text)
    <3>1. /\ DOMAIN new = 1..(Len(items) + n)
          /\ \A i \in 1..Len(items) : new[i] = MemoryDoc(i, items[i])
          /\ \A i \in 1..n : new[Len(items) + i] =
                MessageDoc(start + i, messages[start + i].text)
      BY <1>3, RebuiltPlaces
    <3> HIDE DEF start, n, new
    <3> QED BY <1>3, <3>1
  <2> HIDE DEF start, n, old, new
  <2>3. \A i \in 1..(m + n) : old[i] \in Range(docs)
    BY <2>1 DEF Agrees, Range, old
  <2>4. ASSUME NEW i \in 1..((m + 1) + n) PROVE new[i] \in Range(more)
    <3>1. CASE i \in 1..m
      <4>1. new[i] = old[i] BY <1>3, <1>5, <2>1, <2>2, <3>1
      <4>2. i \in 1..(m + n) BY <1>1, <2>1, <3>1
      <4> QED BY <1>2, <2>3, <4>1, <4>2
    <3>2. CASE i = m + 1
      <4>1. new[i] = doc BY <1>3, <1>5, <2>2, <3>2 DEF doc
      <4> QED BY <1>2, <4>1
    <3>3. CASE i > m + 1
      <4>1. i - (m + 1) \in 1..n /\ (m + 1) + (i - (m + 1)) = i
            /\ m + (i - (m + 1)) \in 1..(m + n)
        BY <1>1, <2>1, <3>3
      <4>2. new[i] = old[m + (i - (m + 1))] BY <2>1, <2>2, <4>1
      <4> QED BY <1>2, <2>3, <4>1, <4>2
    <3>4. i \in 1..m \/ i = m + 1 \/ i > m + 1 BY <1>1, <2>1
    <3> QED BY <3>1, <3>2, <3>3, <3>4
  <2> QED BY <2>2, <2>4 DEF Range, new
<1> QED BY <1>6, <1>7, <1>8, <1>9 DEF Agrees, m, doc, more, items

(* And so does storing a message.                                          *)
LEMMA MessageAgrees ==
    ASSUME NEW docs, NEW memory, NEW messages, NEW message,
           IsSeq(docs), IsSeq(memory), IsSeq(messages),
           Agrees(docs, memory, messages)
    PROVE  Agrees(Append(docs, MessageDoc(Len(messages) + 1, message.text)),
                  memory, Append(messages, message))
<1> DEFINE n == Len(messages)
           doc == MessageDoc(n + 1, message.text)
           more == Append(docs, doc)
           longer == Append(messages, message)
<1>1. /\ Len(docs) \in Nat /\ DOMAIN docs = 1..Len(docs)
      /\ n \in Nat /\ DOMAIN messages = 1..n
      /\ Len(memory) \in Nat /\ DOMAIN memory = 1..Len(memory)
  BY SeqPlaces
<1>2. /\ DOMAIN more = 1..(Len(docs) + 1)
      /\ \A i \in 1..Len(docs) : more[i] = docs[i]
      /\ more[Len(docs) + 1] = doc /\ Range(more) = Range(docs) \cup {doc}
  BY AppendPlaces
<1>3. /\ IsSeq(longer) /\ Len(longer) = n + 1 /\ DOMAIN longer = 1..(n + 1)
      /\ \A i \in 1..n : longer[i] = messages[i]
      /\ longer[n + 1] = message
  BY AppendPlaces
<1>4. doc.kind = "message" /\ doc.at = n + 1 /\ doc.text = message.text
  BY DEF MessageDoc
<1> HIDE DEF n, doc, more, longer
<1>5. n + 1 \in 1..(n + 1) /\ 1..n \subseteq 1..(n + 1) BY <1>1
<1>6. Names(more, memory, longer)
  <2> SUFFICES ASSUME NEW d \in Range(more)
               PROVE  \/ /\ d.kind = "memory" /\ d.at \in DOMAIN memory
                         /\ d.text = memory[d.at]
                      \/ /\ d.kind = "message" /\ d.at \in DOMAIN longer
                         /\ d.text = longer[d.at].text
    BY DEF Names
  <2>1. CASE d = doc BY <1>3, <1>4, <1>5, <2>1
  <2>2. CASE d \in Range(docs)
    <3>1. \/ /\ d.kind = "memory" /\ d.at \in DOMAIN memory
             /\ d.text = memory[d.at]
          \/ /\ d.kind = "message" /\ d.at \in 1..n
             /\ d.text = messages[d.at].text
      BY <1>1, <2>2 DEF Agrees, Names
    <3> QED BY <1>3, <1>5, <3>1
  <2> QED BY <1>2, <2>1, <2>2
<1>7. Once(more)
  <2>1. ASSUME NEW i \in 1..Len(docs)
        PROVE  docs[i].kind = "message" => docs[i].at # n + 1
    <3>1. docs[i] \in Range(docs) BY <1>1 DEF Range
    <3>2. docs[i].kind = "message" => docs[i].at \in 1..n
      BY <1>1, <3>1 DEF Agrees, Names
    <3> QED BY <1>1, <3>2
  <2> SUFFICES ASSUME NEW i \in 1..(Len(docs) + 1), NEW j \in 1..(Len(docs) + 1),
                      more[i].kind = more[j].kind, more[i].at = more[j].at
               PROVE  i = j
    BY <1>2 DEF Once
  <2>2. i \in 1..Len(docs) \/ i = Len(docs) + 1 BY <1>1
  <2>3. j \in 1..Len(docs) \/ j = Len(docs) + 1 BY <1>1
  <2>4. CASE i \in 1..Len(docs) /\ j \in 1..Len(docs)
    BY <1>1, <1>2, <2>4 DEF Agrees, Once
  <2>5. CASE i \in 1..Len(docs) /\ j = Len(docs) + 1
    BY <1>2, <1>4, <2>1, <2>5
  <2>6. CASE i = Len(docs) + 1 /\ j \in 1..Len(docs)
    BY <1>2, <1>4, <2>1, <2>6
  <2> QED BY <2>2, <2>3, <2>4, <2>5, <2>6
<1>8. Gapless(more, longer)
  <2> SUFFICES ASSUME NEW d \in Range(more), d.kind = "message",
                      NEW k \in d.at..(n + 1)
               PROVE  MessageDoc(k, longer[k].text) \in Range(more)
    BY <1>3 DEF Gapless
  <2>1. CASE k = n + 1
    <3>1. MessageDoc(k, longer[k].text) = doc BY <1>3, <2>1 DEF doc
    <3> QED BY <1>2, <3>1
  <2>2. CASE k # n + 1
    <3>1. d.at \in 1..(n + 1)
      BY <1>3, <1>6 DEF Names
    <3>2. k \in 1..n /\ k \in d.at..n /\ d.at # n + 1 BY <1>1, <2>2, <3>1
    <3>3. d \in Range(docs) BY <1>2, <1>4, <3>2
    <3>4. MessageDoc(k, messages[k].text) \in Range(docs)
      BY <3>2, <3>3 DEF Agrees, Gapless, n
    <3> QED BY <1>2, <1>3, <3>2, <3>4
  <2> QED BY <2>1, <2>2
<1>9. Range(Rebuilt(memory, longer)) \subseteq Range(more)
  <2> DEFINE m == Len(memory)
             was == Less(n, MaxIndexed)
             is == Less(n + 1, MaxIndexed)
             p == IF IndexMessages THEN n - was ELSE 0
             q == IF IndexMessages THEN (n + 1) - is ELSE 0
             old == Rebuilt(memory, messages)
             new == Rebuilt(memory, longer)
  <2>1. /\ DOMAIN old = 1..(m + p) /\ p \in Nat /\ was \in Nat
        /\ \A i \in 1..m : old[i] = MemoryDoc(i, memory[i])
        /\ \A i \in 1..p : old[m + i] =
              MessageDoc(was + i, messages[was + i].text)
    BY RebuiltPlaces DEF n
  <2>2. /\ DOMAIN new = 1..(m + q) /\ q \in Nat /\ is \in Nat
        /\ \A i \in 1..m : new[i] = MemoryDoc(i, memory[i])
        /\ \A i \in 1..q : new[m + i] = MessageDoc(is + i, longer[is + i].text)
    <3> DEFINE start == Less(Len(longer), MaxIndexed)
               r == IF IndexMessages THEN Len(longer) - start ELSE 0
    <3>1. /\ DOMAIN new = 1..(m + r) /\ r \in Nat /\ start \in Nat
          /\ \A i \in 1..m : new[i] = MemoryDoc(i, memory[i])
          /\ \A i \in 1..r : new[m + i] =
                MessageDoc(start + i, longer[start + i].text)
      BY <1>3, RebuiltPlaces
    <3>2. start = is /\ r = q BY <1>3
    <3> HIDE DEF m, is, q, new, start, r
    <3> QED BY <3>1, <3>2
  <2>3. /\ was <= is /\ is <= n + 1
        /\ q = 0 \/ (q = (n + 1) - is /\ p = n - was)
    BY <1>1, IndexAssumption DEF Less
  <2> HIDE DEF m, was, is, p, q, old, new
  <2>4. \A i \in 1..(m + p) : old[i] \in Range(docs)
    BY <2>1 DEF Agrees, Range, old
  <2>5. m \in Nat BY <1>1 DEF m
  <2>6. ASSUME NEW i \in 1..(m + q) PROVE new[i] \in Range(more)
    <3>1. CASE i <= m
      <4>1. i \in 1..m /\ i \in 1..(m + p) BY <2>1, <2>5, <3>1
      <4>2. new[i] = old[i] BY <2>1, <2>2, <4>1
      <4> QED BY <1>2, <2>4, <4>1, <4>2
    <3>2. CASE ~(i <= m)
      <4> DEFINE k == is + (i - m)
      <4>1. i - m \in 1..q /\ m + (i - m) = i BY <2>2, <2>5, <3>2
      <4>2. new[i] = MessageDoc(k, longer[k].text) BY <2>2, <4>1
      <4>3. q = (n + 1) - is /\ p = n - was BY <2>3, <4>1
      <4>4. k \in 1..(n + 1) BY <1>1, <2>2, <4>1, <4>3
      <4>5. CASE k = n + 1
        <5>1. new[i] = doc BY <1>3, <4>2, <4>5 DEF doc
        <5> QED BY <1>2, <5>1
      <4>6. CASE k # n + 1
        <5>1. /\ k \in 1..n /\ k - was \in 1..p /\ was + (k - was) = k
              /\ m + (k - was) \in 1..(m + p)
          BY <1>1, <2>1, <2>2, <2>3, <2>5, <4>1, <4>3, <4>4, <4>6
        <5> HIDE DEF k
        <5>2. old[m + (k - was)] = MessageDoc(k, messages[k].text)
          BY <2>1, <5>1
        <5>3. longer[k] = messages[k] BY <1>3, <5>1
        <5> QED BY <1>2, <2>4, <4>2, <5>1, <5>2, <5>3
      <4> QED BY <4>5, <4>6
    <3> QED BY <3>1, <3>2
  <2> QED BY <2>2, <2>6 DEF Range, new
<1> QED BY <1>6, <1>7, <1>8, <1>9 DEF Agrees, n, doc, more, longer

-----------------------------------------------------------------------------
(* Sessions.                                                               *)

(* What a step may change of a session besides its lists, all at once.     *)
LEMMA Relabelled ==
    ASSUME NEW s, Shaped(s), NEW x, NEW u
    PROVE  LET a == [s EXCEPT !.system = x]
               b == [s EXCEPT !.terms = u]
           IN  /\ Shaped(a) /\ a.messages = s.messages /\ a.memory = s.memory
               /\ Shaped(b) /\ b.messages = s.messages /\ b.memory = s.memory
BY DEF Shaped

(* What a step may change of its lists.                                    *)
LEMMA Extended ==
    ASSUME NEW s, Shaped(s), NEW x, IsSeq(x)
    PROVE  LET a == [s EXCEPT !.memory = x]
               b == [s EXCEPT !.messages = x]
           IN  /\ Shaped(a) /\ a.messages = s.messages /\ a.memory = x
               /\ Shaped(b) /\ b.messages = x /\ b.memory = s.memory
BY DEF Shaped

LEMMA AgreesIsAgrees ==
    /\ IndexAgrees <=> Agrees(index, session.memory, session.messages)
    /\ IndexAgrees' <=> Agrees(index', session'.memory, session'.messages)
BY DEF IndexAgrees, Agrees, Names, Once, Gapless

-----------------------------------------------------------------------------
(* The invariant.                                                          *)

(* What was recalled stays old while the messages stay or grow.            *)
LEMMA StillOld ==
    ASSUME RecallIsOld, IsSeq(session.messages), sent' = sent,
           \/ session'.messages = session.messages
           \/ \E m : session'.messages = Append(session.messages, m)
    PROVE  RecallIsOld'
<1> DEFINE old == session.messages
           new == session'.messages
<1>1. CASE new = old BY <1>1 DEF RecallIsOld
<1>2. ASSUME NEW m, new = Append(old, m) PROVE RecallIsOld'
  <2>1. /\ Len(old) \in Nat /\ Len(new) = Len(old) + 1
        /\ \A i \in 1..Len(old) : new[i] = old[i]
    BY <1>2, AppendPlaces, SeqPlaces
  <2> HIDE DEF new, old
  <2>2. /\ Less(Len(old), MaxRecent) <= Less(Len(new), MaxRecent)
        /\ Less(Len(old), MaxRecent) \in Nat /\ Less(Len(new), MaxRecent) \in Nat
        /\ Less(Len(old), MaxRecent) <= Len(old)
    BY <2>1, LimitsAssumption DEF Less
  <2> SUFFICES ASSUME NEW piece \in sent, piece.part = "recall"
               PROVE  \E k \in 1..Less(Len(new), MaxRecent) :
                          piece.raw = new[k].text
    BY DEF RecallIsOld, new
  <2>3. PICK k \in 1..Less(Len(old), MaxRecent) : piece.raw = old[k].text
    BY DEF RecallIsOld, old
  <2>4. k \in 1..Less(Len(new), MaxRecent) /\ k \in 1..Len(old)
    BY <2>1, <2>2
  <2> QED BY <2>1, <2>3, <2>4
<1> QED BY <1>1, <1>2

(* A step that leaves the lists and the index, and sends nothing new.      *)
LEMMA ListsStay ==
    ASSUME IInv, Shaped(session'), Shaped(file'), index' = index,
           session'.messages = session.messages,
           session'.memory = session.memory, sent' \in {sent, {}}
    PROVE  IInv'
<1>1. IndexAgrees' BY AgreesIsAgrees DEF IInv
<1>2. RecallIsOld'
  <2>1. CASE sent' = sent BY <2>1, StillOld DEF IInv, Shaped
  <2>2. CASE sent' = {} BY <2>2 DEF RecallIsOld
  <2> QED BY <2>1, <2>2
<1> QED BY <1>1, <1>2 DEF IInv

(* A new session has nothing in its lists, ...                             *)
LEMMA NewShaped ==
    /\ Shaped(NewSession)
    /\ NewSession.messages = <<>> /\ NewSession.memory = <<>>
<1>1. <<>> \in Seq({}) OBVIOUS
<1>2. IsSeq(<<>>) BY <1>1 DEF IsSeq, Range
<1> QED BY <1>2 DEF Shaped, NewSession

(* ... and it is what a save may leave, the old file or the new one.       *)
LEMMA PersistLeaves ==
    ASSUME NEW state, Persist(state)
    PROVE  \/ file' = state /\ durable' = edits'
           \/ file' = file /\ durable' = durable
           \/ file' = NewSession /\ durable' = NoEdits
BY DEF Persist

LEMMA PersistShaped ==
    ASSUME NEW state, Persist(state), Shaped(state), Shaped(file)
    PROVE  Shaped(file')
<1>1. CASE file' = state BY <1>1
<1>2. CASE file' = file BY <1>2
<1>3. CASE file' = NewSession BY <1>3, NewShaped
<1> QED BY <1>1, <1>2, <1>3, PersistLeaves

LEMMA InitHolds == Init => IInv
<1> SUFFICES ASSUME Init PROVE IInv OBVIOUS
<1> DEFINE terms == Merged(<<>>, ExtraTerms)
<1>1. /\ session = [NewSession EXCEPT !.terms = terms]
      /\ file \in {session, NewSession} /\ index = <<>> /\ sent = {}
  BY DEF Init
<1> HIDE DEF terms
<1>2. IsSeq(<<>>) /\ Len(<<>>) = 0 /\ Range(<<>>) = {} /\ DOMAIN <<>> = {}
  <2>1. <<>> \in Seq({}) OBVIOUS
  <2> QED BY <2>1 DEF IsSeq, Range
<1>3. /\ Shaped(session) /\ session.messages = <<>> /\ session.memory = <<>>
  BY <1>1, <1>2 DEF Shaped, NewSession
<1>4. Range(Rebuilt(<<>>, <<>>)) = {}
  <2>1. Less(0, MaxIndexed) = 0 BY IndexAssumption DEF Less
  <2>2. DOMAIN Rebuilt(<<>>, <<>>) = {}
    <3> DEFINE start == Less(Len(<<>>), MaxIndexed)
               n == IF IndexMessages THEN Len(<<>>) - start ELSE 0
    <3>1. DOMAIN Rebuilt(<<>>, <<>>) = 1..(Len(<<>>) + n)
      BY <1>2, RebuiltPlaces
    <3>2. Len(<<>>) + n = 0 BY <1>2, <2>1
    <3> QED BY <3>1, <3>2
  <2> QED BY <2>2 DEF Range
<1>5. Agrees(<<>>, <<>>, <<>>)
  BY <1>2, <1>4 DEF Agrees, Names, Once, Gapless
<1>6. IndexAgrees BY <1>1, <1>3, <1>5, AgreesIsAgrees
<1>7. RecallIsOld BY <1>1 DEF RecallIsOld
<1>8. Shaped(file) BY <1>1, <1>3, NewShaped
<1> QED BY <1>1, <1>2, <1>3, <1>6, <1>7, <1>8 DEF IInv

LEMMA RememberHolds ==
    ASSUME IInv, NEW text, Remember(text)
    PROVE  IInv'
<1>1. /\ session' = [session EXCEPT !.memory = Append(@, text)]
      /\ index' = Append(index, MemoryDoc(Len(session.memory) + 1, text))
      /\ Persist(session') /\ sent' = sent
  BY DEF Remember
<1>2. /\ IsSeq(session.memory) /\ IsSeq(session.messages) /\ IsSeq(index)
      /\ Shaped(session)
  BY DEF IInv, Shaped
<1>3. IsSeq(Append(session.memory, text)) /\ IsSeq(index')
  BY <1>1, <1>2, AppendPlaces
<1>4. /\ Shaped(session') /\ session'.messages = session.messages
      /\ session'.memory = Append(session.memory, text)
  BY <1>1, <1>2, <1>3, Extended
<1>5. IndexAgrees'
  <2>1. Agrees(index', session'.memory, session.messages)
    BY <1>1, <1>2, <1>4, ItemAgrees, AgreesIsAgrees DEF IInv
  <2> QED BY <1>4, <2>1, AgreesIsAgrees
<1>6. RecallIsOld' BY <1>1, <1>2, <1>4, StillOld DEF IInv
<1>7. Shaped(file') BY <1>1, <1>4, PersistShaped DEF IInv
<1> QED BY <1>3, <1>4, <1>5, <1>6, <1>7 DEF IInv

(* Send and Answer both store a message and index it.                      *)
LEMMA MessageStored ==
    ASSUME IInv, NEW message,
           session' = [session EXCEPT
                        !.messages = Append(session.messages, message)],
           index' = Append(index, MessageDoc(Len(session.messages) + 1,
                                             message.text))
    PROVE  /\ Shaped(session') /\ IsSeq(index') /\ IndexAgrees'
           /\ session'.messages = Append(session.messages, message)
           /\ Len(session'.messages) = Len(session.messages) + 1
           /\ session'.memory = session.memory
<1>2. /\ IsSeq(session.memory) /\ IsSeq(session.messages) /\ IsSeq(index)
      /\ Shaped(session)
  BY DEF IInv, Shaped
<1>3. /\ IsSeq(Append(session.messages, message)) /\ IsSeq(index')
      /\ Len(Append(session.messages, message)) = Len(session.messages) + 1
  BY <1>2, AppendPlaces
<1>4. /\ Shaped(session') /\ session'.memory = session.memory
      /\ session'.messages = Append(session.messages, message)
  BY <1>2, <1>3, Extended
<1>5. IndexAgrees'
  <2>1. Agrees(index', session.memory, session'.messages)
    BY <1>2, <1>4, MessageAgrees, AgreesIsAgrees DEF IInv
  <2> QED BY <1>4, <2>1, AgreesIsAgrees
<1> QED BY <1>3, <1>4, <1>5

(* A search up to a place finds messages up to that place.                 *)
LEMMA HitsAreOld ==
    ASSUME NEW docs, NEW memory, NEW messages, Names(docs, memory, messages),
           IsSeq(docs), IsSeq(messages), NEW query, NEW upTo \in Nat,
           NEW recall \in Results(docs, query, "message", upTo, MaxRecall),
           NEW d \in recall
    PROVE  \E k \in 1..upTo : d.text = messages[k].text
<1>1. recall \subseteq Hit(docs, query, "message", upTo)
  BY DEF Results, kSubset
<1>2. PICK i \in DOMAIN docs : d = docs[i] /\ d.kind = "message" /\ d.at <= upTo
  BY <1>1 DEF Hit
<1>3. d.at \in DOMAIN messages /\ d.text = messages[d.at].text
  BY <1>2 DEF Names, Range
<1>4. d.at \in 1..Len(messages) /\ Len(messages) \in Nat BY <1>3, SeqPlaces
<1>5. d.at \in 1..upTo BY <1>2, <1>4
<1> QED BY <1>3, <1>5

LEMMA SendHolds ==
    ASSUME IInv, NEW text, Send(text)
    PROVE  IInv'
<1> DEFINE messages == Append(session.messages, Message("user", text))
           docs == Append(index, MessageDoc(Len(messages), text))
           older == Less(Len(messages), MaxRecent)
<1>1. /\ session' = [session EXCEPT !.messages = messages] /\ index' = docs
      /\ file' = file
      /\ \E memories \in Results(docs, text, "memory", Len(session.memory),
                                 MaxMemories),
            recall \in Results(docs, text, "message", older, MaxRecall) :
            \/ sent' = {Piece(s) : s \in Sources(memories, recall, messages)}
            \/ sent' = sent
  BY DEF Send
<1>2. IsSeq(session.messages) BY DEF IInv, Shaped
<1>3. Len(messages) = Len(session.messages) + 1 BY <1>2, AppendPlaces
<1>4. Message("user", text).text = text BY DEF Message
<1>5. /\ Shaped(session') /\ IsSeq(index') /\ IndexAgrees'
      /\ session'.messages = messages
      /\ session'.memory = session.memory
  BY <1>1, <1>3, <1>4, MessageStored
<1>6. RecallIsOld'
  <2>1. CASE sent' = sent BY <1>2, <1>5, <2>1, StillOld DEF IInv
  <2>2. ASSUME NEW memories,
               NEW recall \in Results(docs, text, "message", older, MaxRecall),
               sent' = {Piece(s) : s \in Sources(memories, recall, messages)}
        PROVE  RecallIsOld'
    <3>1. Names(index', session'.memory, session'.messages)
      BY <1>5, AgreesIsAgrees DEF Agrees
    <3>2. IsSeq(session'.messages) /\ older \in Nat
      <4>1. IsSeq(session'.messages) BY <1>5 DEF Shaped
      <4>2. Len(messages) \in Nat BY <1>5, <4>1, SeqPlaces
      <4> QED BY <4>1, <4>2, LimitsAssumption DEF Less
    <3>3. recall \in Results(index', text, "message", older, MaxRecall)
      BY <1>1
    <3> HIDE DEF messages, docs
    <3>4. ASSUME NEW s \in Sources(memories, recall, messages),
                 Piece(s).part = "recall"
          PROVE  \E k \in 1..older : Piece(s).raw = session'.messages[k].text
      <4>1. Piece(s).part = s.part /\ Piece(s).raw = s.raw BY DEF Piece
      <4>2. PICK d \in recall : s = Source("recall", d.text, RecallChars)
        BY <3>4, <4>1 DEF Sources, Source
      <4>3. s.raw = d.text BY <4>2 DEF Source
      <4>4. \E k \in 1..older : d.text = session'.messages[k].text
        <5> HIDE DEF older
        <5> QED BY <1>5, <3>1, <3>2, <3>3, HitsAreOld
      <4> QED BY <4>1, <4>3, <4>4
    <3>5. older = Less(Len(session'.messages), MaxRecent) BY <1>5
    <3> HIDE DEF older
    <3> QED BY <2>2, <3>4, <3>5 DEF RecallIsOld
  <2> QED BY <1>1, <2>1, <2>2
<1> QED BY <1>1, <1>5, <1>6 DEF IInv

LEMMA AnswerHolds ==
    ASSUME IInv, NEW piece, Answer(piece)
    PROVE  IInv'
<1>1. PICK out : LET messages == Append(session.messages,
                                        Message("assistant", out))
                 IN  /\ session' = [session EXCEPT !.messages = messages]
                     /\ index' = Append(index, MessageDoc(Len(messages), out))
  BY DEF Answer
<1>2. sent' = {} /\ file' = file BY DEF Answer
<1> DEFINE message == Message("assistant", out)
<1>3. IsSeq(session.messages) BY DEF IInv, Shaped
<1>4. Len(Append(session.messages, message)) = Len(session.messages) + 1
  BY <1>3, AppendPlaces
<1>5. message.text = out BY DEF Message
<1>6. Shaped(session') /\ IsSeq(index') /\ IndexAgrees'
  <2>1. /\ session' = [session EXCEPT !.messages =
                            Append(session.messages, message)]
        /\ index' = Append(index, MessageDoc(Len(session.messages) + 1,
                                             message.text))
    BY <1>1, <1>4, <1>5
  <2> QED BY <2>1, MessageStored
<1>7. RecallIsOld' BY <1>2 DEF RecallIsOld
<1> QED BY <1>2, <1>6, <1>7 DEF IInv

LEMMA RestartHolds == IInv /\ Restart => IInv'
<1> SUFFICES ASSUME IInv, Restart PROVE IInv' OBVIOUS
<1>1. PICK system : Started([file EXCEPT !.system = system]) BY DEF Restart
<1>2. sent' = {} BY DEF Restart, Quiet
<1> DEFINE saved == [file EXCEPT !.system = system]
           terms == Merged(saved.terms, ExtraTerms)
<1>3. /\ session' = [saved EXCEPT !.terms = terms]
      /\ Persist(session')
      /\ index' = Rebuilt(saved.memory, saved.messages)
  BY <1>1 DEF Started
<1> HIDE DEF terms
<1>4. Shaped(saved)
  BY Relabelled DEF IInv
<1> HIDE DEF saved
<1>5. /\ Shaped(session')
      /\ session'.messages = saved.messages /\ session'.memory = saved.memory
  BY <1>3, <1>4, Relabelled
<1>8. Shaped(file') BY <1>3, <1>5, PersistShaped DEF IInv
<1>6. IsSeq(index') /\ Agrees(index', session'.memory, session'.messages)
  BY <1>3, <1>4, <1>5, RebuiltAgrees DEF Shaped
<1>7. RecallIsOld' BY <1>2 DEF RecallIsOld
<1> QED BY <1>5, <1>6, <1>7, <1>8, AgreesIsAgrees DEF IInv

LEMMA NextHolds == IInv /\ [Next]_vars => IInv'
<1> SUFFICES ASSUME IInv, [Next]_vars PROVE IInv' OBVIOUS
<1>0. Shaped(session) /\ Shaped(file) BY DEF IInv
<1>1. ASSUME NEW term, AddTerm(term) PROVE IInv'
  <2>1. session' = [session EXCEPT !.terms = (redactor').terms,
                                   !.entries = redactor.entries]
    BY <1>1 DEF AddTerm
  <2>2. /\ Shaped(session')
        /\ session'.messages = session.messages
        /\ session'.memory = session.memory
    BY <1>0, <2>1 DEF Shaped
  <2>3. Persist(session') /\ sent' = sent /\ index' = index
    BY <1>1 DEF AddTerm
  <2>4. Shaped(file') BY <1>0, <2>2, <2>3, PersistShaped
  <2> QED BY <2>2, <2>3, <2>4, ListsStay
<1>2. ASSUME NEW text, SetSystem(text) PROVE IInv'
  <2>1. /\ session' = [session EXCEPT !.system = text] /\ Persist(session')
        /\ sent' = sent /\ index' = index
    BY <1>2 DEF SetSystem
  <2>2. /\ Shaped(session')
        /\ session'.messages = session.messages
        /\ session'.memory = session.memory
    BY <1>0, <2>1, Relabelled
  <2>3. Shaped(file') BY <1>0, <2>1, <2>2, PersistShaped
  <2> QED BY <2>1, <2>2, <2>3, ListsStay
<1>3. CASE Save
  <2>1. /\ session' = session /\ Persist(session)
        /\ sent' = sent /\ index' = index
    BY <1>3 DEF Save
  <2>2. Shaped(file') BY <1>0, <2>1, PersistShaped
  <2> QED BY <1>0, <2>1, <2>2, ListsStay
<1>4. CASE Fail BY <1>0, <1>4, ListsStay DEF Fail, Quiet
<1>5. ASSUME NEW summary, Finish(summary) PROVE IInv'
  <2>1. session' = [session EXCEPT !.summary = summary,
                                   !.terms = redactor.terms,
                                   !.entries = redactor.entries]
    BY <1>5 DEF Finish
  <2>2. /\ Shaped(session')
        /\ session'.messages = session.messages
        /\ session'.memory = session.memory
    BY <1>0, <2>1 DEF Shaped
  <2>3. Persist(session') /\ sent' = {} /\ index' = index
    BY <1>5 DEF Finish, Quiet
  <2>4. Shaped(file') BY <1>0, <2>2, <2>3, PersistShaped
  <2> QED BY <2>2, <2>3, <2>4, ListsStay
<1>6. CASE LocalSummary BY <1>5, <1>6 DEF LocalSummary
<1>7. CASE NaiveSummary BY <1>5, <1>7 DEF NaiveSummary
<1>8. CASE Abandon BY <1>0, <1>8, ListsStay DEF Abandon, Quiet
<1>9. CASE UNCHANGED vars BY <1>0, <1>9, ListsStay DEF vars
<1> QED
  BY <1>1, <1>2, <1>3, <1>4, <1>6, <1>7, <1>8, <1>9, RememberHolds, SendHolds,
     AnswerHolds, RestartHolds DEF Next

LEMMA Invariance == Spec => []IInv
BY InitHolds, NextHolds, PTL DEF Spec

-----------------------------------------------------------------------------
(* What the user asked for besides the chat.                               *)

(* The terms as they are merged one by one, up to a place.                 *)
MergesTo(f, terms, more, n) ==
    f = [k \in 0..n |->
            IF k = 0 THEN terms ELSE AddCustomTerm(f[k - 1], more[k])]

LEMMA MergeExists ==
    ASSUME NEW terms, NEW more, NEW N \in Nat
    PROVE  \E f : MergesTo(f, terms, more, N)
<1> DEFINE Bad == {n \in 0..N : ~\E f : MergesTo(f, terms, more, n)}
<1> SUFFICES ASSUME Bad # {} PROVE FALSE
  <2>1. N \in 0..N OBVIOUS
  <2>2. N \notin Bad => \E f : MergesTo(f, terms, more, N) BY <2>1
  <2> QED BY <2>2
<1>1. PICK n \in Bad : \A j \in Bad : n <= j
  <2>1. Bad \subseteq Nat OBVIOUS
  <2> HIDE DEF Bad
  <2> QED BY <2>1, Least
<1>2. CASE n = 0
  <2>1. MergesTo([k \in 0..0 |-> terms], terms, more, 0) BY DEF MergesTo
  <2> QED BY <1>1, <1>2, <2>1
<1>3. CASE n # 0
  <2>1. n \in Nat /\ n - 1 \in 0..N /\ ~(n <= n - 1) BY <1>1, <1>3
  <2>2. PICK f : MergesTo(f, terms, more, n - 1) BY <1>1, <2>1
  <2> DEFINE g == [k \in 0..n |->
                    IF k = n THEN AddCustomTerm(f[n - 1], more[n]) ELSE f[k]]
             Value(k) == IF k = 0 THEN terms ELSE AddCustomTerm(g[k - 1], more[k])
  <2>3. ASSUME NEW k \in 0..n PROVE g[k] = Value(k)
    <3>1. CASE k = n BY <1>3, <2>1, <3>1
    <3>2. CASE k # n
      <4>1. k \in 0..(n - 1) /\ g[k] = f[k] BY <2>1, <3>2
      <4>2. k # 0 => g[k - 1] = f[k - 1] BY <2>1, <3>2
      <4>3. f[k] = IF k = 0 THEN terms ELSE AddCustomTerm(f[k - 1], more[k])
        BY <2>2, <4>1 DEF MergesTo
      <4> QED BY <4>1, <4>2, <4>3
    <3> QED BY <3>1, <3>2
  <2>4. g = [k \in 0..n |-> Value(k)] BY <2>3
  <2>5. MergesTo(g, terms, more, n) BY <2>4 DEF MergesTo
  <2> QED BY <1>1, <2>5
<1> QED BY <1>2, <1>3

Covers(terms, wanted) ==
    \A term \in wanted : Blank(term) \/ term \in Range(terms)

(* A term more hides that term and whatever was hidden before.             *)
LEMMA TermAdded ==
    ASSUME NEW terms, IsSeq(terms), NEW term
    PROVE  LET more == AddCustomTerm(terms, term)
           IN  /\ IsSeq(more) /\ Range(terms) \subseteq Range(more)
               /\ Range(more) \subseteq Range(terms) \cup {term}
               /\ Covers(more, {term})
BY AppendPlaces DEF AddCustomTerm, Covers

(* Merging forgets no term, adds them all and no other.                    *)
LEMMA MergedCovers ==
    ASSUME NEW terms, IsSeq(terms), NEW more, IsSeq(more)
    PROVE  LET all == Merged(terms, more)
           IN  /\ IsSeq(all) /\ Range(terms) \subseteq Range(all)
               /\ Range(all) \subseteq Range(terms) \cup Range(more)
               /\ Covers(all, Range(more))
<1> DEFINE N == Len(more)
           h == CHOOSE f : MergesTo(f, terms, more, N)
<1>1. N \in Nat /\ DOMAIN more = 1..N BY SeqPlaces
<1>2. Merged(terms, more) = h[N] BY DEF Merged, MergesTo
<1>3. MergesTo(h, terms, more, N)
  <2> HIDE DEF N
  <2> QED BY <1>1, MergeExists
<1> HIDE DEF h, N
<1>4. \A n \in 0..N : h[n] = IF n = 0 THEN terms
                              ELSE AddCustomTerm(h[n - 1], more[n])
  BY <1>3 DEF MergesTo
<1> DEFINE Good(n) == /\ IsSeq(h[n]) /\ Range(terms) \subseteq Range(h[n])
                      /\ Range(h[n]) \subseteq Range(terms) \cup Range(more)
                      /\ Covers(h[n], {more[k] : k \in 1..n})
           Bad == {n \in 0..N : ~Good(n)}
<1>5. Bad = {}
  <2> SUFFICES ASSUME Bad # {} PROVE FALSE OBVIOUS
  <2>1. PICK n \in Bad : \A j \in Bad : n <= j
    <3>1. Bad \subseteq Nat BY <1>1
    <3> HIDE DEF Bad
    <3> QED BY <3>1, Least
  <2>2. n \in 0..N /\ n \in Nat /\ ~Good(n) BY <1>1, <2>1
  <2>3. n # 0
    <3> SUFFICES ASSUME n = 0 PROVE Good(n) BY <2>2
    <3>1. h[0] = terms BY <1>4, <2>2
    <3> QED BY <3>1 DEF Covers
  <2>4. n - 1 \in 0..N /\ ~(n <= n - 1) BY <1>1, <2>2, <2>3
  <2>5. Good(n - 1) BY <2>1, <2>4
  <2>6. h[n] = AddCustomTerm(h[n - 1], more[n]) BY <1>4, <2>2, <2>3
  <2>7. /\ IsSeq(h[n]) /\ Range(h[n - 1]) \subseteq Range(h[n])
        /\ Range(h[n]) \subseteq Range(h[n - 1]) \cup {more[n]}
        /\ Covers(h[n], {more[n]})
    <3>1. IsSeq(h[n - 1]) BY <2>5
    <3> DEFINE a == h[n - 1]
               b == more[n]
               c == AddCustomTerm(a, b)
    <3>2. /\ IsSeq(c) /\ Range(a) \subseteq Range(c)
          /\ Range(c) \subseteq Range(a) \cup {b} /\ Covers(c, {b})
      <4> HIDE DEF a, b
      <4> QED BY <3>1, TermAdded DEF a
    <3>3. h[n] = c BY <2>6
    <3> QED BY <3>2, <3>3
  <2>8. \A k \in 1..n : k = n \/ k \in 1..(n - 1) BY <2>2
  <2>9. Covers(h[n], {more[k] : k \in 1..n})
    BY <2>5, <2>7, <2>8 DEF Covers
  <2>10. more[n] \in Range(more) BY <1>1, <2>2, <2>3 DEF Range
  <2> QED BY <2>2, <2>5, <2>7, <2>9, <2>10
<1>6. Good(N)
  <2>1. N \in 0..N BY <1>1
  <2> QED BY <1>5, <2>1
<1>7. Range(more) = {more[k] : k \in 1..N} BY <1>1 DEF Range
<1> QED BY <1>2, <1>6, <1>7

Begins(q, p) ==
    /\ Len(q) <= Len(p)
    /\ \A i \in 1..Len(q) : q[i] = p[i]

(* What IsPrefix asks for, place by place.                                 *)
LEMMA BeginsIsPrefix ==
    ASSUME NEW q, NEW p, IsSeq(q), IsSeq(p), Begins(q, p)
    PROVE  IsPrefix(q, p)
<1>1. PICK S : q \in Seq(S) BY DEF IsSeq
<1>2. PICK T : p \in Seq(T) BY DEF IsSeq
<1> DEFINE U == S \cup T
<1>3. q \in Seq(U) /\ p \in Seq(U) BY <1>1, <1>2, SeqMonotonic
<1> HIDE DEF U
<1>4. /\ Len(q) \in Nat /\ Len(p) \in Nat /\ Len(q) <= Len(p)
      /\ \A i \in 1..Len(q) : q[i] = p[i] /\ q[i] \in U /\ p[i] \in U
  BY <1>3 DEF Begins
<1>5. /\ SubSeq(q, 1, Len(q)) \in Seq(U)
      /\ Len(SubSeq(q, 1, Len(q))) = Len(q)
      /\ \A i \in 1..Len(q) : SubSeq(q, 1, Len(q))[i] = q[i]
  BY <1>3, <1>4
<1>6. /\ SubSeq(p, 1, Len(q)) \in Seq(U)
      /\ Len(SubSeq(p, 1, Len(q))) = Len(q)
      /\ \A i \in 1..Len(q) : SubSeq(p, 1, Len(q))[i] = p[i]
  BY <1>3, <1>4
<1>7. SubSeq(q, 1, Len(q)) = SubSeq(p, 1, Len(q))
  BY <1>4, <1>5, <1>6, SeqEqual
<1> QED BY <1>4, <1>7 DEF IsPrefix

(* A session, running or saved, that has what the user told the client.    *)
Fields == {"messages", "memory", "system", "terms"}

Reflects(state, told) ==
    /\ Fields \subseteq DOMAIN state
    /\ {"memory", "system", "terms"} \subseteq DOMAIN told
    /\ state.memory = told.memory /\ state.system = told.system
    /\ IsSeq(state.terms) /\ Covers(state.terms, told.terms)

(* The running session has all of it, the file what was saved; session and *)
(* redactor have one list of terms; the file is no longer than the chat.   *)
EditsInv ==
    /\ Reflects(session, edits) /\ Reflects(file, durable)
    /\ "terms" \in DOMAIN redactor /\ redactor.terms = session.terms
    /\ Begins(file.messages, session.messages)
    /\ Covers(session.terms, Range(ExtraTerms))

(* The redactor hides what it was told to.                                 *)
LEMMA TermsKnown ==
    ASSUME EditsInv
    PROVE  /\ IsSeq(redactor.terms) /\ redactor.terms = session.terms
           /\ Covers(redactor.terms, edits.terms \cup Range(ExtraTerms))
<1>1. /\ IsSeq(session.terms) /\ redactor.terms = session.terms
      /\ Covers(session.terms, edits.terms)
      /\ Covers(session.terms, Range(ExtraTerms))
  BY DEF EditsInv, Reflects
<1> QED BY <1>1 DEF Covers

LEMMA ExtraTermsSeq == IsSeq(ExtraTerms)
BY TermsAssumption DEF IsSeq

LEMMA NewReflects == Reflects(NewSession, NoEdits)
<1>1. IsSeq(<<>>) BY NewShaped DEF Shaped
<1> QED BY <1>1 DEF Reflects, NewSession, NoEdits, Fields, Covers

(* A step that saves, or tries to.                                         *)
LEMMA Saves ==
    ASSUME EditsInv, Persist(session'), Reflects(session', edits'),
           "terms" \in DOMAIN redactor', redactor'.terms = session'.terms,
           Begins(file.messages, session'.messages), IsSeq(session'.messages),
           Covers(session'.terms, Range(ExtraTerms))
    PROVE  EditsInv'
<1>1. CASE file' = session' /\ durable' = edits'
  <2>1. Len(session'.messages) \in Nat BY SeqPlaces
  <2>2. Begins(file'.messages, session'.messages)
    BY <1>1, <2>1 DEF Begins
  <2> QED BY <1>1, <2>2 DEF EditsInv
<1>2. CASE file' = file /\ durable' = durable BY <1>2 DEF EditsInv
<1>3. CASE file' = NewSession /\ durable' = NoEdits
  <2>1. file'.messages = <<>> BY <1>3, NewShaped
  <2>2. Len(<<>>) = 0 /\ Len(session'.messages) \in Nat /\ Len(session'.messages) >= 0
    BY SeqPlaces
  <2>3. Begins(file'.messages, session'.messages) BY <2>1, <2>2 DEF Begins
  <2>4. Reflects(file', durable') BY <1>3, NewReflects
  <2> QED BY <2>3, <2>4 DEF EditsInv
<1> QED BY <1>1, <1>2, <1>3, PersistLeaves

(* What is told once more, and stands in the lists, is reflected.          *)
LEMMA Same ==
    ASSUME EditsInv, Fields \subseteq DOMAIN session', edits' = edits,
           session'.memory = session.memory, session'.system = session.system,
           session'.terms = session.terms
    PROVE  Reflects(session', edits')
BY DEF EditsInv, Reflects

(* A step that stores a message and saves nothing.                         *)
LEMMA Stores ==
    ASSUME IInv, EditsInv, NEW message, NEW entries,
           session' = [session EXCEPT
                        !.messages = Append(session.messages, message)],
           redactor' = [redactor EXCEPT !.entries = entries],
           file' = file, edits' = edits, durable' = durable
    PROVE  EditsInv'
<1>1. IsSeq(session.messages) /\ IsSeq(file.messages) BY DEF IInv, Shaped
<1>2. /\ Fields \subseteq DOMAIN session'
      /\ session'.messages = Append(session.messages, message)
      /\ session'.memory = session.memory /\ session'.system = session.system
      /\ session'.terms = session.terms
  BY DEF EditsInv, Reflects, Fields
<1>3. "terms" \in DOMAIN redactor' /\ redactor'.terms = redactor.terms
  BY DEF EditsInv
<1>4. Begins(file'.messages, session'.messages)
  <2>1. /\ Len(session.messages) \in Nat /\ Len(file.messages) \in Nat
        /\ Len(session'.messages) = Len(session.messages) + 1
        /\ \A i \in 1..Len(session.messages) :
              session'.messages[i] = session.messages[i]
    BY <1>1, <1>2, AppendPlaces, SeqPlaces
  <2>2. Begins(file.messages, session.messages) BY DEF EditsInv
  <2> QED BY <2>1, <2>2 DEF Begins
<1>5. Reflects(session', edits') BY <1>2, Same
<1>6. Reflects(file', durable') BY DEF EditsInv
<1> QED BY <1>2, <1>3, <1>4, <1>5, <1>6 DEF EditsInv

LEMMA EditsInit == Init => EditsInv
<1> SUFFICES ASSUME Init PROVE EditsInv OBVIOUS
<1> DEFINE terms == Merged(<<>>, ExtraTerms)
<1>1. /\ redactor = [terms |-> terms, entries |-> {}]
      /\ session = [NewSession EXCEPT !.terms = terms]
      /\ file \in {session, NewSession}
      /\ edits = NoEdits /\ durable = NoEdits
  BY DEF Init
<1>2. IsSeq(<<>>) BY NewShaped DEF Shaped
<1>3. IsSeq(terms) /\ Covers(terms, Range(ExtraTerms))
  BY <1>2, ExtraTermsSeq, MergedCovers
<1> HIDE DEF terms
<1>4. /\ Fields \subseteq DOMAIN session /\ session.terms = terms
      /\ session.messages = <<>>
      /\ session.memory = <<>> /\ session.system = <<>>
  BY <1>1 DEF Fields, NewSession
<1>5. Begins(<<>>, <<>>) BY DEF Begins
<1>6. Reflects(session, edits)
  BY <1>1, <1>3, <1>4 DEF Reflects, NoEdits, Covers
<1>7. Reflects(file, durable) BY <1>1, <1>6, NewReflects
<1>8. file.messages = <<>> BY <1>1, <1>4, NewShaped
<1> QED BY <1>1, <1>3, <1>4, <1>5, <1>6, <1>7, <1>8 DEF EditsInv

LEMMA EditsNext == IInv /\ EditsInv /\ [Next]_vars => EditsInv'
<1> SUFFICES ASSUME IInv, EditsInv, [Next]_vars PROVE EditsInv' OBVIOUS
<1>0. /\ IsSeq(session.messages) /\ IsSeq(file.messages)
      /\ Fields \subseteq DOMAIN session /\ Fields \subseteq DOMAIN file
      /\ {"memory", "system", "terms"} \subseteq DOMAIN edits
      /\ {"memory", "system", "terms"} \subseteq DOMAIN durable
      /\ IsSeq(session.terms) /\ IsSeq(file.terms)
      /\ Covers(session.terms, edits.terms)
      /\ Covers(file.terms, durable.terms)
      /\ "terms" \in DOMAIN redactor /\ redactor.terms = session.terms
      /\ session.memory = edits.memory /\ session.system = edits.system
      /\ file.memory = durable.memory /\ file.system = durable.system
      /\ Begins(file.messages, session.messages)
      /\ Covers(session.terms, Range(ExtraTerms))
  BY DEF IInv, Shaped, EditsInv, Reflects
<1>1. ASSUME NEW text, Remember(text) PROVE EditsInv'
  <2>1. /\ session' = [session EXCEPT !.memory = Append(@, text)]
        /\ edits' = [edits EXCEPT !.memory = Append(@, text)]
        /\ Persist(session') /\ redactor' = redactor
    BY <1>1 DEF Remember
  <2>2. /\ Fields \subseteq DOMAIN session'
        /\ session'.messages = session.messages
        /\ session'.terms = session.terms /\ session'.system = session.system
        /\ session'.memory = Append(session.memory, text)
    BY <1>0, <2>1 DEF Fields
  <2>3. /\ {"memory", "system", "terms"} \subseteq DOMAIN edits'
        /\ edits'.memory = Append(edits.memory, text)
        /\ edits'.system = edits.system /\ edits'.terms = edits.terms
    BY <1>0, <2>1
  <2>4. Reflects(session', edits') BY <1>0, <2>2, <2>3 DEF Reflects
  <2> QED BY <1>0, <2>1, <2>2, <2>4, Saves
<1>2. ASSUME NEW term, AddTerm(term) PROVE EditsInv'
  <2>1. /\ redactor' = [redactor EXCEPT !.terms = AddCustomTerm(@, term)]
        /\ session' = [session EXCEPT !.terms = (redactor').terms,
                                      !.entries = redactor.entries]
        /\ edits' = [edits EXCEPT !.terms = @ \cup {term}]
        /\ Persist(session')
    BY <1>2 DEF AddTerm
  <2>2. /\ "terms" \in DOMAIN redactor'
        /\ redactor'.terms = AddCustomTerm(session.terms, term)
    BY <1>0, <2>1
  <2>3. /\ Fields \subseteq DOMAIN session'
        /\ session'.messages = session.messages
        /\ session'.memory = session.memory /\ session'.system = session.system
        /\ session'.terms = redactor'.terms
    BY <1>0, <2>1 DEF Fields
  <2>4. /\ IsSeq(session'.terms)
        /\ Range(session.terms) \subseteq Range(session'.terms)
        /\ Covers(session'.terms, {term})
    BY <1>0, <2>2, <2>3, TermAdded
  <2>5. /\ {"memory", "system", "terms"} \subseteq DOMAIN edits'
        /\ edits'.memory = edits.memory /\ edits'.system = edits.system
        /\ edits'.terms = edits.terms \cup {term}
    BY <1>0, <2>1
  <2>6. /\ Covers(session'.terms, edits'.terms)
        /\ Covers(session'.terms, Range(ExtraTerms))
    BY <1>0, <2>4, <2>5 DEF Covers
  <2>7. Reflects(session', edits')
    BY <1>0, <2>3, <2>4, <2>5, <2>6 DEF Reflects
  <2> QED BY <1>0, <2>1, <2>2, <2>3, <2>6, <2>7, Saves
<1>3. ASSUME NEW text, SetSystem(text) PROVE EditsInv'
  <2>1. /\ session' = [session EXCEPT !.system = text]
        /\ edits' = [edits EXCEPT !.system = text]
        /\ Persist(session') /\ redactor' = redactor
    BY <1>3 DEF SetSystem
  <2>2. /\ Fields \subseteq DOMAIN session'
        /\ session'.messages = session.messages
        /\ session'.memory = session.memory /\ session'.system = text
        /\ session'.terms = session.terms
    BY <1>0, <2>1 DEF Fields
  <2>3. /\ {"memory", "system", "terms"} \subseteq DOMAIN edits'
        /\ edits'.memory = edits.memory /\ edits'.system = text
        /\ edits'.terms = edits.terms
    BY <1>0, <2>1
  <2>4. Reflects(session', edits') BY <1>0, <2>2, <2>3 DEF Reflects
  <2> QED BY <1>0, <2>1, <2>2, <2>4, Saves
<1>4. CASE Save
  <2>1. Persist(session') /\ UNCHANGED <<session, redactor, edits>>
    BY <1>4 DEF Save, Persist
  <2>2. Reflects(session', edits') BY <1>0, <2>1, Same
  <2> QED BY <1>0, <2>1, <2>2, Saves
<1>5. ASSUME NEW text, Send(text) PROVE EditsInv'
  <2>1. \E message, entries :
            /\ session' = [session EXCEPT
                            !.messages = Append(session.messages, message)]
            /\ redactor' = [redactor EXCEPT !.entries = entries]
    BY <1>5 DEF Send
  <2>2. file' = file /\ edits' = edits /\ durable' = durable
    BY <1>5 DEF Send
  <2> QED BY <2>1, <2>2, Stores
<1>6. ASSUME NEW piece, Answer(piece) PROVE EditsInv'
  <2>1. \E message, entries :
            /\ session' = [session EXCEPT
                            !.messages = Append(session.messages, message)]
            /\ redactor' = [redactor EXCEPT !.entries = entries]
    BY <1>6 DEF Answer
  <2>2. file' = file /\ edits' = edits /\ durable' = durable
    BY <1>6 DEF Answer
  <2> QED BY <2>1, <2>2, Stores
<1>7. ASSUME NEW summary, Finish(summary) PROVE EditsInv'
  <2>1. /\ session' = [session EXCEPT !.summary = summary,
                                      !.terms = redactor.terms,
                                      !.entries = redactor.entries]
        /\ Persist(session') /\ redactor' = redactor /\ edits' = edits
    BY <1>7 DEF Finish
  <2>2. /\ Fields \subseteq DOMAIN session'
        /\ session'.messages = session.messages
        /\ session'.memory = session.memory /\ session'.system = session.system
        /\ session'.terms = session.terms
    BY <1>0, <2>1 DEF Fields
  <2>3. Reflects(session', edits') BY <2>1, <2>2, Same
  <2> QED BY <1>0, <2>1, <2>2, <2>3, Saves
<1>8. CASE LocalSummary BY <1>7, <1>8 DEF LocalSummary
<1>9. CASE NaiveSummary BY <1>7, <1>9 DEF NaiveSummary
<1>10. CASE Restart
  <2>1. PICK system : /\ edits' = [durable EXCEPT !.system = system]
                      /\ Started([file EXCEPT !.system = system])
    BY <1>10 DEF Restart
  <2> DEFINE saved == [file EXCEPT !.system = system]
             terms == Merged(saved.terms, ExtraTerms)
  <2>2. /\ redactor' = [terms |-> terms, entries |-> saved.entries]
        /\ session' = [saved EXCEPT !.terms = terms]
        /\ Persist(session')
    BY <2>1 DEF Started
  <2>4. /\ Fields \subseteq DOMAIN saved /\ saved.terms = file.terms
        /\ saved.messages = file.messages /\ saved.memory = file.memory
        /\ saved.system = system
    BY <1>0 DEF Fields
  <2>5. /\ IsSeq(terms) /\ Range(file.terms) \subseteq Range(terms)
        /\ Covers(terms, Range(ExtraTerms))
    BY <1>0, <2>4, ExtraTermsSeq, MergedCovers
  <2> HIDE DEF saved, terms
  <2>6. /\ Fields \subseteq DOMAIN session' /\ session'.terms = terms
        /\ session'.messages = file.messages
        /\ session'.memory = file.memory /\ session'.system = system
    BY <2>2, <2>4 DEF Fields
  <2>7. /\ {"memory", "system", "terms"} \subseteq DOMAIN edits'
        /\ edits'.memory = durable.memory /\ edits'.system = system
        /\ edits'.terms = durable.terms
    BY <1>0, <2>1
  <2>8. "terms" \in DOMAIN redactor' /\ redactor'.terms = terms BY <2>2
  <2>9. Covers(terms, durable.terms) BY <1>0, <2>5 DEF Covers
  <2>10. Reflects(session', edits')
    BY <1>0, <2>5, <2>6, <2>7, <2>9 DEF Reflects
  <2>11. Begins(file.messages, session'.messages)
    <3>1. Len(file.messages) \in Nat BY <1>0, SeqPlaces
    <3> QED BY <2>6, <3>1 DEF Begins
  <2> QED BY <1>0, <2>2, <2>5, <2>6, <2>8, <2>10, <2>11, Saves
<1>11. CASE Fail BY <1>11 DEF Fail, EditsInv
<1>12. CASE Abandon BY <1>12 DEF Abandon, EditsInv
<1>13. CASE UNCHANGED vars BY <1>13 DEF vars, EditsInv
<1> QED
  BY <1>1, <1>2, <1>3, <1>4, <1>5, <1>6, <1>8, <1>9, <1>10, <1>11, <1>12,
     <1>13 DEF Next

-----------------------------------------------------------------------------
(* Texts.                                                                  *)

Letters(S) == \A x \in S : IsPiece(x)

IsText(t) == \E S : Letters(S) /\ t \in Seq(S)

(* The entries a map may have. *)
EntriesOK(E) ==
    /\ IsFiniteSet(E)
    /\ \A e \in E : /\ e.c \in DOMAIN Length /\ e.of # <<>> /\ IsText(e.of)
                   /\ e = Entry(e.c, e.of)

LEMMA TextIsSeq == ASSUME NEW t, IsText(t) PROVE IsSeq(t)
BY DEF IsText, IsSeq

LEMMA TextLetters ==
    ASSUME NEW t, IsText(t)
    PROVE  Letters(Range(t)) /\ t \in Seq(Range(t))
<1>1. PICK S : Letters(S) /\ t \in Seq(S) BY DEF IsText
<1>2. Range(t) \in SUBSET S /\ t \in Seq(Range(t))
  BY <1>1, RangeOfSeq, SeqOfRange
<1> QED BY <1>1, <1>2 DEF Letters

LEMMA SeqOfItsOwn == ASSUME NEW t, IsSeq(t) PROVE t \in Seq(Range(t))
BY SeqOfRange DEF IsSeq

LEMMA EmptyText == IsText(<<>>)
<1>1. Letters({}) /\ <<>> \in Seq({}) BY DEF Letters
<1> QED BY <1>1 DEF IsText

LEMMA JoinedText ==
    ASSUME NEW s, NEW t, IsText(s), IsText(t)
    PROVE  IsText(s \o t)
<1>1. PICK S : Letters(S) /\ s \in Seq(S) BY DEF IsText
<1>2. PICK T : Letters(T) /\ t \in Seq(T) BY DEF IsText
<1> DEFINE U == S \cup T
<1>3. Letters(U) BY <1>1, <1>2 DEF Letters
<1>4. s \in Seq(U) /\ t \in Seq(U) BY <1>1, <1>2, SeqMonotonic
<1> HIDE DEF U
<1>5. s \o t \in Seq(U) BY <1>4, ConcatProperties
<1> QED BY <1>3, <1>5 DEF IsText

(* A part of a sequence, possibly none of it.                              *)
LEMMA Cut ==
    ASSUME NEW S, NEW t \in Seq(S), NEW m \in Nat, m >= 1, NEW n \in Nat,
           n <= Len(t)
    PROVE  /\ SubSeq(t, m, n) \in Seq(S)
           /\ Len(SubSeq(t, m, n)) = IF m <= n THEN n - m + 1 ELSE 0
           /\ \A i \in 1..(n - m + 1) : SubSeq(t, m, n)[i] = t[m + i - 1]
           /\ Range(SubSeq(t, m, n)) \subseteq Range(t)
<1>1. \A i \in m..n : t[i] \in S BY ElementOfSeq
<1>2. /\ SubSeq(t, m, n) \in Seq(S)
      /\ Len(SubSeq(t, m, n)) = IF m <= n THEN n - m + 1 ELSE 0
      /\ \A i \in 1..(n - m + 1) : SubSeq(t, m, n)[i] = t[m + i - 1]
  BY <1>1, SubSeqProperties
<1>3. \A i \in m..n : t[i] \in Range(t) BY DEF Range
<1>4. SubSeq(t, m, n) \in Seq(Range(t)) BY <1>3, SubSeqProperties
<1> QED BY <1>2, <1>4, RangeOfSeq

LEMMA TakeCut ==
    ASSUME NEW S, NEW t \in Seq(S), NEW n \in Nat
    PROVE  Take(t, n) \in Seq(S) /\ Range(Take(t, n)) \subseteq Range(t)
<1>1. Lesser(n, Len(t)) \in Nat /\ Lesser(n, Len(t)) <= Len(t)
  BY DEF Lesser
<1> QED BY <1>1, Cut DEF Take

LEMMA TakenText ==
    ASSUME NEW t, IsText(t), NEW n \in Nat
    PROVE  IsText(Take(t, n))
<1>1. PICK S : Letters(S) /\ t \in Seq(S) BY DEF IsText
<1> QED BY <1>1, TakeCut DEF IsText

LEMMA MadeLetters ==
    ASSUME NEW P, Letters(P),
           NEW E, \A e \in E : e.c \in DOMAIN Length /\ e.of # <<>>
    PROVE  Letters(Made(P, E))
<1>1. \A e \in E : IsPiece(e) BY DEF IsPiece, IsPlaceholderPiece
<1>2. \A e : IsPiece(Hash(e))
  <2> SUFFICES ASSUME NEW e PROVE IsPiece(Hash(e)) OBVIOUS
  <2>1. Hash(e).c \in HashClasses /\ IsPlaceholderPiece(Hash(e))
    BY PlaceholderPieces DEF HashClasses
  <2> QED BY <2>1 DEF IsPiece
<1> QED BY <1>1, <1>2 DEF Made, Letters

(* A redacted text is one, and its entries may be in the map.              *)
LEMMA RedactedText ==
    ASSUME NEW t, IsText(t), NEW terms, IsSeq(terms)
    PROVE  IsText(Redact(t, terms)) /\ EntriesOK(Entries(t, terms))
<1>1. PICK P : Letters(P) /\ t \in Seq(P) BY DEF IsText
<1> DEFINE state == Redacted(t, terms)
           M == Made(P, state.entries)
<1>2. Passing(state, P) BY <1>1, SeqPlaces, RedactedMade
<1> HIDE DEF state
<1>3. /\ state.text \in Seq(M) /\ IsFiniteSet(state.entries)
      /\ \A e \in state.entries :
            /\ e.c \in DOMAIN Length /\ e.of # <<>> /\ e.of \in Seq(M)
            /\ e = Entry(e.c, e.of)
  BY <1>2 DEF Passing
<1>4. Letters(M) BY <1>1, <1>3, MadeLetters
<1> HIDE DEF M
<1>5. IsText(state.text) /\ \A e \in state.entries : IsText(e.of)
  BY <1>3, <1>4 DEF IsText
<1> QED BY <1>3, <1>5 DEF Redact, Entries, EntriesOK, state

(* So is a rehydrated one. *)
LEMMA RehydratedText ==
    ASSUME NEW t, IsText(t), NEW map, EntriesOK(map),
           NEW out \in Rehydrations(t, map)
    PROVE  IsText(out)
<1> DEFINE M == Range(t) \cup UNION {Range(e.of) : e \in map}
<1>1. Letters(M)
  <2>1. Letters(Range(t)) BY TextLetters
  <2>2. \A e \in map : Letters(Range(e.of)) BY TextLetters DEF EntriesOK
  <2> QED BY <2>1, <2>2 DEF Letters
<1>2. t \in Seq(M)
  <2>1. Range(t) \subseteq M OBVIOUS
  <2> HIDE DEF M
  <2> QED BY <2>1, TextLetters, SeqMonotonic
<1>3. \A e \in map : e.of \in Seq(M)
  <2> SUFFICES ASSUME NEW e \in map PROVE e.of \in Seq(M) OBVIOUS
  <2>1. Range(e.of) \subseteq M OBVIOUS
  <2> HIDE DEF M
  <2>2. e.of \in Seq(Range(e.of)) BY TextLetters DEF EntriesOK
  <2> QED BY <2>1, <2>2, SeqMonotonic
<1> HIDE DEF M
<1>4. out \in Seq(M) BY <1>2, <1>3, RehydrationsMade DEF EntriesOK
<1> QED BY <1>1, <1>4 DEF IsText

-----------------------------------------------------------------------------
(* Bytes, and the window they are counted for.                             *)

Width(piece) == IF piece.c = "wide" THEN 3 ELSE 1

SumsTo(f, text, n) ==
    f = [k \in 0..n |->
            IF k = 0 THEN 0
            ELSE f[k - 1] + (IF text[k].c = "wide" THEN 3 ELSE 1)]

LEMMA SumsExist ==
    ASSUME NEW text, NEW N \in Nat
    PROVE  \E f : SumsTo(f, text, N)
<1> DEFINE T == {n \in 0..N : \E f : SumsTo(f, text, n)}
<1>1. 0 \in T
  <2> DEFINE f == [k \in 0..0 |-> 0]
  <2>1. SumsTo(f, text, 0) BY DEF SumsTo
  <2> QED BY <2>1
<1>2. ASSUME NEW n \in 1..N, n - 1 \in T PROVE n \in T
  <2>1. PICK f : SumsTo(f, text, n - 1) BY <1>2
  <2> DEFINE Next1(h, k) == h[k - 1] + (IF text[k].c = "wide" THEN 3 ELSE 1)
             g == [k \in 0..n |-> IF k = n THEN Next1(f, n) ELSE f[k]]
  <2>2. \A k \in 0..(n - 1) : f[k] = IF k = 0 THEN 0 ELSE Next1(f, k)
    BY <2>1 DEF SumsTo
  <2>3. ASSUME NEW k \in 0..n
        PROVE  g[k] = IF k = 0 THEN 0 ELSE Next1(g, k)
    <3>1. CASE k = n
      <4>1. k # 0 /\ k - 1 \in 0..n /\ k - 1 # n BY <3>1
      <4>2. g[k] = Next1(f, k) /\ g[k - 1] = f[k - 1] BY <3>1, <4>1
      <4> QED BY <4>1, <4>2
    <3>2. CASE k # n
      <4>1. k \in 0..(n - 1) /\ g[k] = f[k] BY <3>2
      <4>2. k # 0 => k - 1 \in 0..n /\ k - 1 # n BY <3>2
      <4>3. k # 0 => g[k - 1] = f[k - 1] BY <4>2
      <4> QED BY <2>2, <4>1, <4>3
    <3> QED BY <3>1, <3>2
  <2>4. g = [k \in 0..n |-> IF k = 0 THEN 0 ELSE Next1(g, k)] BY <2>3
  <2> HIDE DEF g
  <2>5. SumsTo(g, text, n) BY <2>4 DEF SumsTo
  <2> QED BY <2>5
<1> HIDE DEF T
<1>3. \A n \in 0..N : n \in T BY <1>1, <1>2, Up
<1>4. N \in T BY <1>3
<1> QED BY <1>4 DEF T

(* The bytes of what is before each place.                                 *)
Counts(f, text) ==
    /\ Bytes(text) = f[Len(text)] /\ f[0] = 0
    /\ \A k \in 1..Len(text) : f[k] = f[k - 1] + Width(text[k])
    /\ \A k \in 0..Len(text) : f[k] \in Nat /\ k <= f[k]

LEMMA BytesCount ==
    ASSUME NEW text, IsSeq(text)
    PROVE  \E f : Counts(f, text)
<1> DEFINE N == Len(text)
           f == CHOOSE f : SumsTo(f, text, N)
<1>1. N \in Nat BY SeqPlaces
<1>2. Bytes(text) = f[N] BY DEF Bytes, SumsTo
<1>3. SumsTo(f, text, N)
  <2> HIDE DEF N
  <2> QED BY <1>1, SumsExist
<1> HIDE DEF f, N
<1>4. /\ f[0] = 0
      /\ \A k \in 1..N : f[k] = f[k - 1] + Width(text[k])
  <2>1. \A k \in 0..N : f[k] = IF k = 0 THEN 0 ELSE f[k - 1] + Width(text[k])
    BY <1>3 DEF SumsTo, Width
  <2>2. 0 \in 0..N /\ \A k \in 1..N : k \in 0..N /\ k # 0 BY <1>1
  <2> QED BY <2>1, <2>2
<1> DEFINE T == {k \in 0..N : f[k] \in Nat /\ k <= f[k]}
<1>5. \A k \in 0..N : k \in T
  <2>1. 0 \in T BY <1>1, <1>4
  <2>2. ASSUME NEW n \in 1..N, n - 1 \in T PROVE n \in T
    <3>1. f[n] = f[n - 1] + Width(text[n]) BY <1>4
    <3>2. Width(text[n]) \in {1, 3} BY DEF Width
    <3> QED BY <1>1, <2>2, <3>1, <3>2
  <2> HIDE DEF T
  <2> QED BY <1>1, <2>1, <2>2, Up
<1>6. Counts(f, text) BY <1>1, <1>2, <1>4, <1>5 DEF Counts, N
<1> QED BY <1>6

LEMMA BytesNat == ASSUME NEW text, IsSeq(text) PROVE Bytes(text) \in Nat
<1>1. PICK f : Counts(f, text) BY BytesCount
<1>2. Len(text) \in 0..Len(text) BY SeqPlaces
<1> QED BY <1>1, <1>2 DEF Counts

(* What is left when pieces are skipped, place by place.                   *)
LEMMA Skipped ==
    ASSUME NEW S, NEW t \in Seq(S), NEW d \in Nat
    PROVE  LET s == Skip(t, d)
           IN  /\ s \in Seq(S) /\ Range(s) \subseteq Range(t)
               /\ Len(s) = Less(Len(t), d)
               /\ \A i \in 1..Len(s) : s[i] = t[d + i]
<1> DEFINE s == Skip(t, d)
           n == Len(t)
<1>1. n \in Nat /\ d + 1 \in Nat /\ d + 1 >= 1 OBVIOUS
<1>2. /\ s \in Seq(S) /\ Range(s) \subseteq Range(t)
      /\ Len(s) = IF d + 1 <= n THEN n - (d + 1) + 1 ELSE 0
      /\ \A i \in 1..(n - (d + 1) + 1) : s[i] = t[d + 1 + i - 1]
  BY <1>1, Cut DEF Skip
<1> HIDE DEF s, n
<1>3. Len(s) = Less(n, d) BY <1>1, <1>2 DEF Less
<1>4. ASSUME NEW i \in 1..Len(s) PROVE s[i] = t[d + i]
  <2>1. i \in 1..(n - (d + 1) + 1) /\ d + 1 + i - 1 = d + i
    BY <1>1, <1>3 DEF Less
  <2> QED BY <1>2, <2>1
<1> QED BY <1>2, <1>3, <1>4 DEF s, n

LEMMA ReversedPlaces ==
    ASSUME NEW S, NEW t \in Seq(S)
    PROVE  /\ Reverse(t) \in Seq(S) /\ Len(Reverse(t)) = Len(t)
           /\ \A i \in 1..Len(t) : Reverse(t)[i] = t[(Len(t) - i) + 1]
<1> DEFINE n == Len(t)
           r == Reverse(t)
<1>1. n \in Nat OBVIOUS
<1>2. r = [i \in 1..n |-> t[(n - i) + 1]] BY DEF Reverse
<1>3. \A i \in 1..n : (n - i) + 1 \in 1..n BY <1>1
<1>4. \A i \in 1..n : t[i] \in S OBVIOUS
<1> HIDE DEF n, r
<1>5. r \in [1..n -> S] BY <1>2, <1>3, <1>4
<1>6. r \in Seq(S) /\ Len(r) = n BY <1>1, <1>5
<1> QED BY <1>2, <1>6 DEF n, r

LEMMA SkipIsSuffix ==
    ASSUME NEW S, NEW t \in Seq(S), NEW d \in Nat
    PROVE  IsSuffix(Skip(t, d), t)
<1> DEFINE s == Skip(t, d)
           n == Len(t)
           m == Len(s)
<1>1. /\ s \in Seq(S) /\ m = Less(n, d) /\ m \in Nat /\ n \in Nat
      /\ \A i \in 1..m : s[i] = t[d + i]
  BY Skipped
<1>2. /\ Reverse(s) \in Seq(S) /\ Len(Reverse(s)) = m
      /\ \A i \in 1..m : Reverse(s)[i] = s[(m - i) + 1]
      /\ Reverse(t) \in Seq(S) /\ Len(Reverse(t)) = n
      /\ \A i \in 1..n : Reverse(t)[i] = t[(n - i) + 1]
  BY <1>1, ReversedPlaces
<1> HIDE DEF s, n, m
<1>3. m <= n /\ (m > 0 => n = d + m)
  <2>1. m = (IF n > d THEN n - d ELSE 0) /\ m \in Nat /\ n \in Nat
    BY <1>1 DEF Less
  <2> QED BY <2>1
<1>4. ASSUME NEW i \in 1..m PROVE Reverse(s)[i] = Reverse(t)[i]
  <2>1. /\ (m - i) + 1 \in 1..m /\ i \in 1..n
        /\ d + ((m - i) + 1) = (n - i) + 1
    BY <1>1, <1>3
  <2>2. s[(m - i) + 1] = t[d + ((m - i) + 1)] BY <1>1, <2>1
  <2> QED BY <1>2, <2>1, <2>2
<1>5. Begins(Reverse(s), Reverse(t)) BY <1>2, <1>3, <1>4 DEF Begins
<1>6. IsSeq(Reverse(s)) /\ IsSeq(Reverse(t)) BY <1>2 DEF IsSeq
<1> QED BY <1>5, <1>6, BeginsIsPrefix DEF IsSuffix, s

(* A skipped piece has a byte at least. *)
LEMMA SkippedBytes ==
    ASSUME NEW S, NEW t \in Seq(S), NEW d \in Nat
    PROVE  Bytes(Skip(t, d)) <= Less(Bytes(t), d)
<1> DEFINE s == Skip(t, d)
           n == Len(t)
           m == Len(s)
<1>1. /\ s \in Seq(S) /\ m = Less(n, d) /\ m \in Nat /\ n \in Nat
      /\ \A i \in 1..m : s[i] = t[d + i]
  BY Skipped
<1>2. PICK f : Counts(f, t) BY BytesCount DEF IsSeq
<1>3. PICK g : Counts(g, s) BY <1>1, BytesCount DEF IsSeq
<1>4. /\ Bytes(t) = f[n] /\ \A k \in 1..n : f[k] = f[k - 1] + Width(t[k])
      /\ \A k \in 0..n : f[k] \in Nat /\ k <= f[k]
      /\ Bytes(s) = g[m] /\ g[0] = 0
      /\ \A k \in 1..m : g[k] = g[k - 1] + Width(s[k])
      /\ \A k \in 0..m : g[k] \in Nat
  BY <1>2, <1>3 DEF Counts
<1> HIDE DEF s, n, m
<1>5. CASE m = 0
  <2>1. g[m] = 0 /\ n \in 0..n BY <1>1, <1>4, <1>5
  <2>2. Less(Bytes(t), d) >= 0 BY <1>4, <2>1 DEF Less
  <2> QED BY <1>4, <2>1, <2>2 DEF s
<1>6. CASE m # 0
  <2>1. n = d + m BY <1>1, <1>6 DEF Less
  <2> DEFINE T == {k \in 0..m : f[d + k] = f[d] + g[k]}
  <2>2. 0 \in T
    <3>1. d \in 0..n /\ d + 0 = d BY <1>1, <2>1
    <3>2. f[d] \in Nat BY <1>4, <3>1
    <3>3. f[d + 0] = f[d] + g[0] BY <1>4, <3>1, <3>2
    <3> QED BY <1>1, <3>3
  <2>3. ASSUME NEW k \in 1..m, k - 1 \in T PROVE k \in T
    <3>1. d + k \in 1..n /\ (d + k) - 1 = d + (k - 1) BY <1>1, <2>1
    <3>2. f[d + k] = f[d + (k - 1)] + Width(t[d + k]) BY <1>4, <3>1
    <3>3. g[k] = g[k - 1] + Width(t[d + k]) BY <1>1, <1>4
    <3>4. f[d + (k - 1)] = f[d] + g[k - 1] BY <2>3
    <3>5. Width(t[d + k]) \in Nat BY DEF Width
    <3>6. f[d] \in Nat /\ g[k - 1] \in Nat
      <4>1. d \in 0..n /\ k - 1 \in 0..m BY <1>1, <2>1
      <4> QED BY <1>4, <4>1
    <3>7. f[d + k] = f[d] + g[k] BY <3>2, <3>3, <3>4, <3>5, <3>6
    <3> QED BY <1>1, <3>7
  <2> HIDE DEF T
  <2>4. \A k \in 0..m : k \in T BY <1>1, <2>2, <2>3, Up
  <2> USE DEF T
  <2>5. f[n] = f[d] + g[m]
    <3>1. m \in T BY <1>1, <2>4
    <3> QED BY <2>1, <3>1
  <2>6. f[d] \in Nat /\ d <= f[d] /\ g[m] \in Nat /\ f[n] \in Nat
    <3>1. d \in 0..n /\ m \in 0..m /\ n \in 0..n BY <1>1, <2>1
    <3> QED BY <1>4, <3>1
  <2>7. g[m] <= Less(f[n], d) BY <2>5, <2>6 DEF Less
  <2> QED BY <1>4, <2>7 DEF s
<1> QED BY <1>5, <1>6

(* The parts of SummaryWindow, of any text.                                *)
LEMMA WindowFits ==
    ASSUME NEW S, NEW t \in Seq(S)
    PROVE  /\ Window(t) \in Seq(S) /\ Range(Window(t)) \subseteq Range(t)
           /\ IsSuffix(Window(t), t) /\ Bytes(Window(t)) <= SummaryBytes
           /\ Bytes(t) = Len(t) => Len(Window(t)) = Lesser(Len(t), SummaryBytes)
<1> DEFINE d == Less(Bytes(t), SummaryBytes)
<1>1. Bytes(t) \in Nat /\ SummaryBytes \in Nat /\ Len(t) \in Nat
  BY BytesNat, LimitsAssumption DEF IsSeq
<1>2. d \in Nat BY <1>1 DEF Less
<1>3. Window(t) = Skip(t, d) BY DEF Window
<1>4. Bytes(t) \in Nat /\ Less(Bytes(t), d) <= SummaryBytes BY <1>1 DEF Less
<1>5. Bytes(t) = Len(t) => Less(Len(t), d) = Lesser(Len(t), SummaryBytes)
  BY <1>1 DEF Less, Lesser
<1> HIDE DEF d
<1>6. /\ Skip(t, d) \in Seq(S) /\ Range(Skip(t, d)) \subseteq Range(t)
      /\ Len(Skip(t, d)) = Less(Len(t), d)
      /\ IsSuffix(Skip(t, d), t) /\ Bytes(Skip(t, d)) <= Less(Bytes(t), d)
  BY <1>2, Skipped, SkipIsSuffix, SkippedBytes
<1>7. Bytes(Skip(t, d)) \in Nat /\ Less(Bytes(t), d) \in Nat
  BY <1>1, <1>2, <1>6, BytesNat DEF IsSeq, Less
<1>8. Bytes(Skip(t, d)) <= SummaryBytes BY <1>1, <1>4, <1>6, <1>7
<1> QED BY <1>3, <1>5, <1>6, <1>8

-----------------------------------------------------------------------------
(* The turn as the summarizers see it.                                     *)

FlatTo(f, seqs, n) ==
    f = [i \in 1..n |-> IF i = 1 THEN seqs[i] ELSE f[i - 1] \o seqs[i]]

LEMMA FlatExists ==
    ASSUME NEW seqs, NEW N \in Nat
    PROVE  \E f : FlatTo(f, seqs, N)
<1> DEFINE T == {n \in 0..N : \E f : FlatTo(f, seqs, n)}
<1>1. 0 \in T
  <2> DEFINE f == [i \in 1..0 |-> <<>>]
  <2>1. FlatTo(f, seqs, 0) BY DEF FlatTo
  <2> QED BY <2>1
<1>2. ASSUME NEW n \in 1..N, n - 1 \in T PROVE n \in T
  <2>1. PICK f : FlatTo(f, seqs, n - 1) BY <1>2
  <2> DEFINE Value(h, i) == IF i = 1 THEN seqs[i] ELSE h[i - 1] \o seqs[i]
             g == [i \in 1..n |-> IF i = n THEN Value(f, n) ELSE f[i]]
  <2>2. \A i \in 1..(n - 1) : f[i] = Value(f, i) BY <2>1 DEF FlatTo
  <2>3. ASSUME NEW i \in 1..n PROVE g[i] = Value(g, i)
    <3>1. i # 1 => i - 1 \in 1..n /\ i - 1 # n /\ g[i - 1] = f[i - 1]
      OBVIOUS
    <3>2. CASE i = n
      <4>1. g[i] = Value(f, i) BY <3>2
      <4> HIDE DEF g
      <4> QED BY <3>1, <4>1
    <3>3. CASE i # n
      <4>1. i \in 1..(n - 1) /\ g[i] = f[i] BY <3>3
      <4> HIDE DEF g
      <4> QED BY <2>2, <3>1, <4>1
    <3> QED BY <3>2, <3>3
  <2>4. g = [i \in 1..n |-> Value(g, i)] BY <2>3
  <2> HIDE DEF g
  <2>5. FlatTo(g, seqs, n) BY <2>4 DEF FlatTo
  <2> QED BY <2>5
<1> HIDE DEF T
<1>3. \A n \in 0..N : n \in T BY <1>1, <1>2, Up
<1>4. N \in T BY <1>3
<1> QED BY <1>4 DEF T

LEMMA FlattenMade ==
    ASSUME NEW S, NEW N \in Nat, NEW seqs \in [1..N -> Seq(S)]
    PROVE  FlattenSeq(seqs) \in Seq(S)
<1>1. Len(seqs) = N /\ DOMAIN seqs = 1..N
  <2>1. seqs \in Seq(Seq(S)) OBVIOUS
  <2> QED BY <2>1
<1>2. CASE N = 0
  <2>1. FlattenSeq(seqs) = seqs BY <1>1, <1>2 DEF FlattenSeq
  <2>2. DOMAIN seqs = {} BY <1>1, <1>2
  <2>3. seqs = <<>> BY <1>1, <1>2
  <2> QED BY <2>1, <2>3
<1>3. CASE N # 0
  <2> DEFINE f == CHOOSE f : FlatTo(f, seqs, N)
  <2>1. FlattenSeq(seqs) = f[N] BY <1>1, <1>3 DEF FlattenSeq, FlatTo
  <2>2. FlatTo(f, seqs, N) BY FlatExists
  <2> HIDE DEF f
  <2>3. \A i \in 1..N :
            f[i] = IF i = 1 THEN seqs[i] ELSE f[i - 1] \o seqs[i]
    BY <2>2 DEF FlatTo
  <2> DEFINE T == {n \in 0..N : n # 0 => f[n] \in Seq(S)}
  <2>4. 0 \in T OBVIOUS
  <2>5. ASSUME NEW n \in 1..N, n - 1 \in T PROVE n \in T
    <3> SUFFICES f[n] \in Seq(S) OBVIOUS
    <3>1. seqs[n] \in Seq(S) OBVIOUS
    <3>2. CASE n = 1 BY <2>3, <3>1, <3>2
    <3>3. CASE n # 1
      <4>1. f[n - 1] \in Seq(S) BY <2>5, <3>3
      <4>2. f[n] = f[n - 1] \o seqs[n] BY <2>3, <3>3
      <4>3. f[n - 1] \o seqs[n] \in Seq(S)
        BY <3>1, <4>1, ConcatProperties
      <4> QED BY <4>2, <4>3
    <3> QED BY <3>2, <3>3
  <2> HIDE DEF T
  <2>6. \A n \in 0..N : n \in T BY <2>4, <2>5, Up
  <2> QED BY <1>3, <2>1, <2>6 DEF T
<1> QED BY <1>2, <1>3

LEMMA LastTurnPart ==
    ASSUME NEW messages, IsSeq(messages)
    PROVE  LET turn == LastTurn(messages)
           IN  /\ IsSeq(turn) /\ Range(turn) \subseteq Range(messages)
               /\ IsFiniteSet(Range(turn))
<1> DEFINE turn == LastTurn(messages)
           d == Less(Len(messages), 2)
<1>1. PICK S : messages \in Seq(S) BY DEF IsSeq
<1>2. d \in Nat BY <1>1 DEF Less
<1>3. turn = Skip(messages, d) BY DEF LastTurn, Skip
<1> HIDE DEF turn, d
<1>4. turn \in Seq(S) /\ Range(turn) \subseteq Range(messages)
  BY <1>1, <1>2, <1>3, Skipped
<1>5. IsFiniteSet(Range(turn)) BY <1>4, RangeFinite
<1> QED BY <1>4, <1>5 DEF IsSeq, turn

LineBreakPiece == [c |-> "sp", of |-> <<>>]

LEMMA LineBreaks ==
    /\ LineBreak \in Seq({LineBreakPiece}) /\ Range(LineBreak) = {LineBreakPiece}
    /\ ~IsPlaceholderPiece(LineBreakPiece)
<1> DEFINE p == LineBreakPiece
<1>1. DOMAIN <<"sp">> = 1..1 /\ <<"sp">>[1] = "sp" OBVIOUS
<1>2. LineBreak = [k \in 1..1 |-> p]
  BY <1>1 DEF LineBreak, Typed, LineBreakPiece
<1>3. p.of = <<>> BY DEF LineBreakPiece
<1> HIDE DEF p
<1>4. LineBreak \in [1..1 -> {p}] BY <1>2
<1>5. LineBreak \in Seq({p}) BY <1>4
<1>6. Range(LineBreak) = {p} BY <1>2 DEF Range
<1> QED BY <1>3, <1>5, <1>6 DEF p, IsPlaceholderPiece

(* Lines are made of the turn's redacted texts and line breaks.            *)
LEMMA LinesMade ==
    ASSUME NEW messages, IsSeq(messages), NEW S, LineBreakPiece \in S,
           \A m \in Range(LastTurn(messages)) :
                Redact(m.text, redactor.terms) \in Seq(S)
    PROVE  Lines(messages) \in Seq(S)
<1> DEFINE turn == LastTurn(messages)
           N == Len(turn)
           line(k) == Take(Redact(turn[k].text, redactor.terms), LineChars)
           seqs == [k \in DOMAIN turn |-> LineBreak \o line(k)]
<1>1. IsSeq(turn) BY LastTurnPart
<1> HIDE DEF turn
<1>2. N \in Nat /\ DOMAIN turn = 1..N BY <1>1, SeqPlaces
<1>3. ASSUME NEW k \in 1..N PROVE LineBreak \o line(k) \in Seq(S)
  <2> DEFINE text == Redact(turn[k].text, redactor.terms)
  <2>1. turn[k] \in Range(turn) BY <1>2 DEF Range
  <2>2. text \in Seq(S) BY <2>1 DEF turn
  <2> HIDE DEF text
  <2>3. Take(text, LineChars) \in Seq(S) BY <2>2, TakeCut, LimitsAssumption
  <2>4. {LineBreakPiece} \subseteq S OBVIOUS
  <2>5. LineBreak \in Seq(S) BY <2>4, LineBreaks, SeqMonotonic
  <2>6. line(k) \in Seq(S) BY <2>3 DEF text
  <2> HIDE DEF line
  <2> QED BY <2>5, <2>6, ConcatProperties
<1>4. Lines(messages) = FlattenSeq(seqs) BY DEF Lines, turn
<1>5. seqs \in [1..N -> Seq(S)]
  <2> HIDE DEF line
  <2> QED BY <1>2, <1>3
<1> HIDE DEF seqs, N
<1> QED BY <1>2, <1>4, <1>5, FlattenMade

(* So they are a text. *)
LEMMA LinesText ==
    ASSUME NEW messages, IsSeq(messages), IsSeq(redactor.terms),
           \A m \in Range(messages) : IsText(m.text)
    PROVE  IsText(Lines(messages))
<1> DEFINE turn == Range(LastTurn(messages))
           text(m) == Redact(m.text, redactor.terms)
           S == {LineBreakPiece} \cup UNION {Range(text(m)) : m \in turn}
<1>1. \A m \in turn : IsText(text(m))
  BY LastTurnPart, RedactedText
<1> HIDE DEF turn, text
<1>2. Letters(S)
  <2>1. IsPiece(LineBreakPiece) BY LineBreaks DEF IsPiece
  <2>2. \A m \in turn : Letters(Range(text(m))) BY <1>1, TextLetters
  <2> QED BY <2>1, <2>2 DEF Letters
<1>3. ASSUME NEW m \in turn PROVE text(m) \in Seq(S)
  <2>1. Range(text(m)) \subseteq S OBVIOUS
  <2>2. text(m) \in Seq(Range(text(m))) BY <1>1, TextLetters
  <2> HIDE DEF S
  <2> QED BY <2>1, <2>2, SeqMonotonic
<1>4. LineBreakPiece \in S OBVIOUS
<1> HIDE DEF S
<1>5. Lines(messages) \in Seq(S) BY <1>3, <1>4, LinesMade DEF turn, text
<1> QED BY <1>2, <1>5 DEF IsText

-----------------------------------------------------------------------------
(* The types.                                                              *)

MessagesOK(messages) ==
    /\ IsSeq(messages) /\ Len(messages) <= MaxMessages
    /\ \A m \in Range(messages) :
          IsText(m.text) /\ m.role \in {"user", "assistant"}

NotesOK(memory) ==
    /\ IsSeq(memory) /\ Len(memory) <= MaxNotes
    /\ \A text \in Range(memory) : IsText(text)

TermsOK(terms) ==
    IsSeq(terms) /\ \A term \in Range(terms) : IsText(term) /\ IsTyped(term)

SessionOK(s) ==
    /\ {"messages", "memory", "summary", "system", "terms", "entries"}
            \subseteq DOMAIN s
    /\ MessagesOK(s.messages) /\ NotesOK(s.memory) /\ TermsOK(s.terms)
    /\ IsText(s.summary) /\ IsText(s.system) /\ EntriesOK(s.entries)

(* What is on its way was redacted under the terms of now (terms are added *)
(* and merged only when nothing is on its way) and can be rehydrated.      *)
SentOK(pieces) ==
    \A piece \in pieces :
        LET text == Take(piece.raw, piece.kept)
        IN  /\ IsText(piece.raw) /\ piece.kept \in Nat /\ IsText(text)
            /\ piece.text = Redact(text, redactor.terms)
            /\ Entries(text, redactor.terms) \subseteq redactor.entries

(* The terms to hide are terms.                                            *)
ToldOK == edits.terms \cup durable.terms \subseteq Terms

TInv ==
    /\ SessionOK(session) /\ SessionOK(file)
    /\ {"terms", "entries"} \subseteq DOMAIN redactor
    /\ EntriesOK(redactor.entries)
    /\ session.entries \subseteq redactor.entries
    /\ pc \in {"idle", "posted", "summary"}
    /\ sent # {} => pc = "posted"
    /\ pc = "posted" => Len(session.messages) < MaxMessages
    /\ SentOK(sent)
    /\ ToldOK

LEMMA TypedText ==
    ASSUME NEW t \in TypedTexts
    PROVE  IsText(t) /\ IsTyped(t)
<1>1. t \in Seq(TypedPieces) BY TypedAssumption
<1>2. Letters(TypedPieces) BY DEF Letters, IsPiece
<1>3. DOMAIN t = 1..Len(t) BY <1>1
<1>4. \A k \in DOMAIN t : ~IsPlaceholderPiece(t[k]) BY TypedAssumption
<1>5. IsTyped(t) BY <1>3, <1>4 DEF IsTyped
<1> QED BY <1>1, <1>2, <1>5 DEF IsText

LEMMA TypedTerms == TermsOK(ExtraTerms)
<1>1. \A t \in Range(ExtraTerms) : t \in TypedTexts BY DEF TypedTexts
<1> QED BY <1>1, ExtraTermsSeq, TypedText DEF TermsOK

LEMMA MergedTerms ==
    ASSUME NEW terms, TermsOK(terms)
    PROVE  TermsOK(Merged(terms, ExtraTerms))
<1> DEFINE all == Merged(terms, ExtraTerms)
<1>1. IsSeq(all) /\ Range(all) \subseteq Range(terms) \cup Range(ExtraTerms)
  BY ExtraTermsSeq, MergedCovers DEF TermsOK
<1> HIDE DEF all
<1>2. TermsOK(all) BY <1>1, TypedTerms DEF TermsOK
<1> QED BY <1>2 DEF all

LEMMA EntriesJoin ==
    ASSUME NEW D, NEW E, EntriesOK(D), EntriesOK(E)
    PROVE  EntriesOK(D \cup E)
<1>1. IsFiniteSet(D \cup E) BY FS_Union DEF EntriesOK
<1> QED BY <1>1 DEF EntriesOK

LEMMA EntriesUnion ==
    ASSUME NEW f, IsFiniteSet(DOMAIN f), \A x \in DOMAIN f : EntriesOK(f[x])
    PROVE  EntriesOK(UNION {f[x] : x \in DOMAIN f})
<1> DEFINE D == DOMAIN f
           T == {f[x] : x \in D}
           g == [x \in D |-> f[x]]
<1>1. g \in Surjection(D, T) BY DEF Surjection
<1> HIDE DEF g, T, D
<1>2. IsFiniteSet(D) BY DEF D
<1>3. IsFiniteSet(T) BY <1>1, <1>2, FS_Surjection
<1> USE DEF T, D
<1>4. \A s \in T : IsFiniteSet(s) BY DEF EntriesOK
<1>5. IsFiniteSet(UNION T)
  <2> HIDE DEF T
  <2> QED BY <1>3, <1>4, FS_UNION
<1> QED BY <1>5 DEF EntriesOK

(* The entries of many texts. *)
LEMMA TextsEntries ==
    ASSUME NEW S, IsFiniteSet(S), NEW texts, \A s \in S : IsText(texts[s]),
           NEW terms, IsSeq(terms)
    PROVE  EntriesOK(UNION {Entries(texts[s], terms) : s \in S})
<1> DEFINE f == [s \in S |-> Entries(texts[s], terms)]
<1>1. DOMAIN f = S /\ \A s \in S : f[s] = Entries(texts[s], terms) OBVIOUS
<1>2. UNION {f[x] : x \in DOMAIN f} = UNION {Entries(texts[s], terms) : s \in S}
  OBVIOUS
<1> HIDE DEF f
<1>3. \A x \in DOMAIN f : EntriesOK(f[x]) BY <1>1, RedactedText
<1>4. EntriesOK(UNION {f[x] : x \in DOMAIN f}) BY <1>1, <1>3, EntriesUnion
<1> QED BY <1>2, <1>4

(* What a search finds in the index of a session.                          *)
LEMMA HitsText ==
    ASSUME NEW docs, IsSeq(docs), NEW memory, NotesOK(memory),
           NEW messages, MessagesOK(messages), Names(docs, memory, messages),
           NEW query, NEW kind, NEW upTo, NEW limit,
           NEW hits \in Results(docs, query, kind, upTo, limit)
    PROVE  IsFiniteSet(hits) /\ \A d \in hits : IsText(d.text)
<1>1. hits \subseteq Range(docs)
  <2>1. hits \subseteq Hit(docs, query, kind, upTo) BY DEF Results, kSubset
  <2>2. Hit(docs, query, kind, upTo) \subseteq Range(docs) BY DEF Hit, Range
  <2> QED BY <2>1, <2>2
<1>2. IsFiniteSet(hits)
  <2>1. IsFiniteSet(Range(docs)) BY RangeFinite DEF IsSeq
  <2> QED BY <1>1, <2>1, FS_Subset
<1>3. ASSUME NEW d \in hits PROVE IsText(d.text)
  <2>1. d \in Range(docs) BY <1>1
  <2>2. CASE d.at \in DOMAIN memory /\ d.text = memory[d.at]
    <3>1. d.text \in Range(memory) BY <2>2 DEF Range
    <3> QED BY <3>1 DEF NotesOK
  <2>3. CASE d.at \in DOMAIN messages /\ d.text = messages[d.at].text
    <3>1. messages[d.at] \in Range(messages) BY <2>3 DEF Range
    <3> QED BY <2>3, <3>1 DEF MessagesOK
  <2> QED BY <2>1, <2>2, <2>3 DEF Names
<1> QED BY <1>2, <1>3

(* What goes into a prompt. *)
LEMMA SourcesText ==
    ASSUME SessionOK(session), NEW messages, MessagesOK(messages),
           NEW memories, IsFiniteSet(memories), \A d \in memories : IsText(d.text),
           NEW recall, IsFiniteSet(recall), \A d \in recall : IsText(d.text)
    PROVE  LET sources == Sources(memories, recall, messages)
           IN  /\ IsFiniteSet(sources)
               /\ \A s \in sources : /\ IsText(s.raw) /\ s.kept \in Nat
                                     /\ IsText(Take(s.raw, s.kept))
<1> DEFINE n == Len(messages)
           first == Less(n, MaxRecent) + 1
           one == Source("system", session.system, Len(session.system))
           two == Source("summary", session.summary, Len(session.summary))
           three == {Source("memory", d.text, MemoryChars) : d \in memories}
           four == {Source("recall", d.text, RecallChars) : d \in recall}
           last == {Source("recent", messages[k].text, Len(messages[k].text)) :
                        k \in first..n}
<1>1. /\ IsSeq(messages) /\ n \in Nat /\ DOMAIN messages = 1..n
      /\ first \in Nat /\ first >= 1
  <2>1. IsSeq(messages) BY DEF MessagesOK
  <2>2. n \in Nat /\ DOMAIN messages = 1..n BY <2>1, SeqPlaces
  <2>3. MaxRecent \in Nat BY LimitsAssumption
  <2> QED BY <2>1, <2>2, <2>3 DEF Less
<1>2. Sources(memories, recall, messages) = {one, two} \cup three \cup four \cup last
  BY DEF Sources
<1>3. IsFiniteSet(three)
  <2> DEFINE f == [d \in memories |-> Source("memory", d.text, MemoryChars)]
  <2>1. f \in Surjection(memories, three) BY DEF Surjection
  <2> HIDE DEF f, three
  <2> QED BY <2>1, FS_Surjection
<1>4. IsFiniteSet(four)
  <2> DEFINE f == [d \in recall |-> Source("recall", d.text, RecallChars)]
  <2>1. f \in Surjection(recall, four) BY DEF Surjection
  <2> HIDE DEF f, four
  <2> QED BY <2>1, FS_Surjection
<1>5. IsFiniteSet(last)
  <2> DEFINE f == [k \in first..n |->
                Source("recent", messages[k].text, Len(messages[k].text))]
             K == first..n
  <2>1. f \in Surjection(K, last) BY DEF Surjection
  <2>2. IsFiniteSet(K)
    <3>1. first \in Int /\ n \in Int BY <1>1
    <3> HIDE DEF first, n
    <3> QED BY <3>1, FS_Interval
  <2> HIDE DEF f, last, K
  <2> QED BY <2>1, <2>2, FS_Surjection
<1>6. IsFiniteSet({one, two})
  <2> HIDE DEF one, two
  <2>1. IsFiniteSet({one}) BY FS_Singleton
  <2>2. IsFiniteSet({one} \cup {two}) BY <2>1, FS_AddElement
  <2>3. {one, two} = {one} \cup {two} OBVIOUS
  <2> QED BY <2>2, <2>3
<1>7. /\ \A s \in {one, two} \cup three \cup four \cup last :
            IsText(s.raw) /\ s.kept \in Nat
  <2>0. \A t : IsText(t) => Len(t) \in Nat BY TextIsSeq, SeqPlaces
  <2>1. \A s \in {one, two} : IsText(s.raw) /\ s.kept \in Nat
    <3>1. /\ one.raw = session.system /\ one.kept = Len(session.system)
          /\ two.raw = session.summary /\ two.kept = Len(session.summary)
      BY DEF Source
    <3>2. IsText(session.system) /\ IsText(session.summary) BY DEF SessionOK
    <3> HIDE DEF one, two
    <3> QED BY <2>0, <3>1, <3>2
  <2>2. \A s \in three : IsText(s.raw) /\ s.kept \in Nat
    BY LimitsAssumption DEF Source
  <2>3. \A s \in four : IsText(s.raw) /\ s.kept \in Nat
    BY LimitsAssumption DEF Source
  <2>4. \A s \in last : IsText(s.raw) /\ s.kept \in Nat
    <3>1. ASSUME NEW k \in first..n PROVE IsText(messages[k].text)
      <4>1. k \in DOMAIN messages BY <1>1
      <4>2. messages[k] \in Range(messages) BY <4>1 DEF Range
      <4> QED BY <4>2 DEF MessagesOK
    <3> HIDE DEF first, n
    <3> QED BY <2>0, <3>1 DEF Source
  <2> QED BY <2>1, <2>2, <2>3, <2>4
<1> HIDE DEF one, two, three, four, last
<1>8. IsFiniteSet({one, two} \cup three \cup four \cup last)
  <2>1. IsFiniteSet({one, two} \cup three) BY <1>3, <1>6, FS_Union
  <2>2. IsFiniteSet({one, two} \cup three \cup four) BY <1>4, <2>1, FS_Union
  <2> QED BY <1>5, <2>2, FS_Union
<1> QED BY <1>2, <1>7, <1>8, TakenText

(* One field of a session replaced. *)
LEMMA Put ==
    ASSUME NEW s, SessionOK(s), NEW x
    PROVE  /\ MessagesOK(x) => SessionOK([s EXCEPT !.messages = x])
           /\ NotesOK(x) => SessionOK([s EXCEPT !.memory = x])
           /\ IsText(x) => SessionOK([s EXCEPT !.system = x])
           /\ IsText(x) => SessionOK([s EXCEPT !.summary = x])
           /\ TermsOK(x) => SessionOK([s EXCEPT !.terms = x])
           /\ EntriesOK(x) => SessionOK([s EXCEPT !.entries = x])
BY DEF SessionOK

(* A message more. *)
LEMMA MessageMore ==
    ASSUME SessionOK(session), Len(session.messages) < MaxMessages,
           NEW text, IsText(text), NEW role \in {"user", "assistant"}
    PROVE  MessagesOK(Append(session.messages, Message(role, text)))
<1> DEFINE m == Message(role, text)
           old == session.messages
           new == Append(old, m)
<1>1. MessagesOK(old) BY DEF SessionOK
<1>2. m.text = text /\ m.role = role BY DEF Message
<1> HIDE DEF m, old
<1>3. /\ IsSeq(new) /\ Len(new) = Len(old) + 1
      /\ Range(new) = Range(old) \cup {m}
  BY <1>1, AppendPlaces DEF MessagesOK
<1> HIDE DEF new
<1>4. Len(old) \in Nat /\ MaxMessages \in Nat
  BY <1>1, SeqPlaces, LimitsAssumption DEF MessagesOK
<1>5. Len(new) <= MaxMessages BY <1>3, <1>4 DEF old
<1>6. \A x \in Range(new) : IsText(x.text) /\ x.role \in {"user", "assistant"}
  BY <1>1, <1>2, <1>3 DEF MessagesOK
<1> QED BY <1>3, <1>5, <1>6 DEF MessagesOK, new, old, m

(* A step after which nothing is on its way.                               *)
LEMMA Settled ==
    ASSUME SessionOK(session'), SessionOK(file'),
           {"terms", "entries"} \subseteq DOMAIN redactor',
           EntriesOK(redactor'.entries),
           session'.entries \subseteq redactor'.entries,
           pc' \in {"idle", "summary"}, sent' = {}, ToldOK'
    PROVE  TInv'
BY DEF TInv, SentOK

LEMMA NewTyped == SessionOK(NewSession)
<1>1. IsSeq(<<>>) /\ Len(<<>>) = 0 /\ Range(<<>>) = {}
  <2>1. IsSeq(<<>>) BY NewShaped DEF Shaped
  <2> QED BY <2>1 DEF Range
<1>2. MessagesOK(<<>>) /\ NotesOK(<<>>) /\ TermsOK(<<>>)
  BY <1>1, LimitsAssumption DEF MessagesOK, NotesOK, TermsOK
<1>3. EntriesOK({}) BY FS_EmptySet DEF EntriesOK
<1> QED BY <1>2, <1>3, EmptyText DEF SessionOK, NewSession

(* What a save leaves.                                                     *)
LEMMA PersistTyped ==
    ASSUME TInv, NEW state, Persist(state), SessionOK(state),
           edits'.terms \subseteq Terms
    PROVE  SessionOK(file') /\ ToldOK'
<1>1. SessionOK(file) /\ ToldOK BY DEF TInv
<1>2. CASE file' = state /\ durable' = edits' BY <1>2 DEF ToldOK
<1>3. CASE file' = file /\ durable' = durable BY <1>1, <1>3 DEF ToldOK
<1>4. CASE file' = NewSession /\ durable' = NoEdits
  BY <1>4, NewTyped DEF ToldOK, NoEdits
<1> QED BY <1>2, <1>3, <1>4, PersistLeaves

LEMMA TInit == Init => TInv
<1> SUFFICES ASSUME Init PROVE TInv OBVIOUS
<1> DEFINE terms == Merged(<<>>, ExtraTerms)
<1>1. /\ redactor = [terms |-> terms, entries |-> {}]
      /\ session = [NewSession EXCEPT !.terms = terms]
      /\ file \in {session, NewSession} /\ pc = "idle" /\ sent = {}
      /\ edits = NoEdits /\ durable = NoEdits
  BY DEF Init
<1>2. TermsOK(<<>>) BY NewTyped DEF SessionOK, NewSession
<1>3. EntriesOK({}) BY FS_EmptySet DEF EntriesOK
<1>4. TermsOK(terms) BY <1>2, MergedTerms
<1> HIDE DEF terms
<1>5. SessionOK(session) BY <1>1, <1>4, NewTyped, Put
<1>6. session.entries = {} BY <1>1 DEF NewSession
<1>7. {"terms", "entries"} \subseteq DOMAIN redactor /\ redactor.entries = {}
  BY <1>1
<1>8. SessionOK(file) BY <1>1, <1>5, NewTyped
<1>9. ToldOK BY <1>1 DEF ToldOK, NoEdits
<1> QED BY <1>1, <1>3, <1>5, <1>6, <1>7, <1>8, <1>9 DEF TInv, SentOK

LEMMA SendTyped ==
    ASSUME IInv', EditsInv, TInv, NEW text \in Inputs, Send(text)
    PROVE  TInv'
<1> DEFINE messages == Append(session.messages, Message("user", text))
           docs == Append(index, MessageDoc(Len(messages), text))
           older == Less(Len(messages), MaxRecent)
           n == Len(session.memory)
<1>1. /\ pc = "idle" /\ Len(session.messages) + 2 <= MaxMessages
      /\ session' = [session EXCEPT !.messages = messages] /\ index' = docs
      /\ file' = file /\ edits' = edits /\ durable' = durable
  BY DEF Send
<1>2. PICK memories \in Results(docs, text, "memory", n, MaxMemories),
           recall \in Results(docs, text, "message", older, MaxRecall) :
        LET sources == Sources(memories, recall, messages)
        IN  /\ redactor' = [redactor EXCEPT !.entries = @ \cup NewEntries(sources)]
            /\ \/ pc' = "posted" /\ sent' = {Piece(s) : s \in sources}
               \/ UNCHANGED <<pc, sent>>
  BY DEF Send
<1> DEFINE sources == Sources(memories, recall, messages)
<1>3. SessionOK(session) /\ SessionOK(file) /\ sent = {} BY <1>1 DEF TInv
<1>4. /\ Len(session.messages) \in Nat /\ MaxMessages \in Nat
      /\ IsSeq(session.messages)
  BY <1>3, SeqPlaces, LimitsAssumption DEF SessionOK, MessagesOK
<1>5. MessagesOK(messages)
  <2>1. IsText(text) BY TypedText DEF TypedTexts
  <2>2. Len(session.messages) < MaxMessages BY <1>1, <1>4
  <2> QED BY <1>3, <2>1, <2>2, MessageMore
<1>6. Len(messages) = Len(session.messages) + 1 BY <1>4, AppendPlaces
<1>7. /\ session'.messages = messages /\ session'.memory = session.memory
      /\ session'.entries = session.entries
      /\ SessionOK(session')
  <2>1. /\ session'.messages = messages /\ session'.memory = session.memory
        /\ session'.entries = session.entries
    BY <1>1, <1>3 DEF SessionOK
  <2> HIDE DEF messages
  <2>2. SessionOK(session') BY <1>1, <1>3, <1>5, Put
  <2> QED BY <2>1, <2>2
<1> HIDE DEF messages
<1>8. Names(docs, session.memory, messages) /\ IsSeq(docs)
  <2>1. Names(index', session'.memory, session'.messages) /\ IsSeq(index')
    BY AgreesIsAgrees DEF IInv, Agrees
  <2> QED BY <1>1, <1>7, <2>1
<1> HIDE DEF docs, older, n
<1>9. /\ IsFiniteSet(memories) /\ \A d \in memories : IsText(d.text)
      /\ IsFiniteSet(recall) /\ \A d \in recall : IsText(d.text)
  <2>1. NotesOK(session.memory) BY <1>3 DEF SessionOK
  <2> QED BY <1>5, <1>8, <2>1, HitsText
<1>10. /\ IsFiniteSet(sources)
       /\ \A s \in sources : /\ IsText(s.raw) /\ s.kept \in Nat
                             /\ IsText(Take(s.raw, s.kept))
  BY <1>3, <1>5, <1>9, SourcesText
<1>11. /\ redactor' = [redactor EXCEPT !.entries = @ \cup NewEntries(sources)]
       /\ \/ pc' = "posted" /\ sent' = {Piece(s) : s \in sources}
          \/ UNCHANGED <<pc, sent>>
  BY <1>2
<1> HIDE DEF sources
<1>12. IsSeq(redactor.terms) BY TermsKnown
<1>13. EntriesOK(NewEntries(sources))
  <2> DEFINE texts == [s \in sources |-> Take(s.raw, s.kept)]
  <2>1. /\ \A s \in sources : IsText(texts[s])
        /\ NewEntries(sources) =
                UNION {Entries(texts[s], redactor.terms) : s \in sources}
    BY <1>10 DEF NewEntries
  <2> HIDE DEF texts
  <2> QED BY <1>10, <1>12, <2>1, TextsEntries
<1>14. /\ {"terms", "entries"} \subseteq DOMAIN redactor'
       /\ redactor'.terms = redactor.terms
       /\ redactor'.entries = redactor.entries \cup NewEntries(sources)
  <2> DEFINE new == NewEntries(sources)
  <2> HIDE DEF new
  <2>1. redactor' = [redactor EXCEPT !.entries = @ \cup new] BY <1>11 DEF new
  <2>2. {"terms", "entries"} \subseteq DOMAIN redactor BY DEF TInv
  <2>3. /\ {"terms", "entries"} \subseteq DOMAIN redactor'
        /\ redactor'.terms = redactor.terms
        /\ redactor'.entries = redactor.entries \cup new
    BY <2>1, <2>2
  <2> QED BY <2>3 DEF new
<1>15. EntriesOK(redactor'.entries) BY <1>13, <1>14, EntriesJoin DEF TInv
<1>16. session'.entries \subseteq redactor'.entries BY <1>7, <1>14 DEF TInv
<1>17. SentOK(sent)'
  <2>1. CASE sent' = {Piece(s) : s \in sources}
    <3> SUFFICES ASSUME NEW s \in sources
                 PROVE  LET cut == Take(Piece(s).raw, Piece(s).kept)
                        IN  /\ IsText(Piece(s).raw) /\ Piece(s).kept \in Nat
                            /\ IsText(cut)
                            /\ Piece(s).text = Redact(cut, redactor'.terms)
                            /\ Entries(cut, redactor'.terms)
                                    \subseteq redactor'.entries
      BY <2>1 DEF SentOK
    <3>1. /\ Piece(s).raw = s.raw /\ Piece(s).kept = s.kept
          /\ Piece(s).text = Redact(Take(s.raw, s.kept), redactor.terms)
      BY DEF Piece
    <3>2. Entries(Take(s.raw, s.kept), redactor.terms) \subseteq NewEntries(sources)
      BY DEF NewEntries
    <3> QED BY <1>10, <1>14, <3>1, <3>2
  <2>2. CASE sent' = {} BY <2>2 DEF SentOK
  <2> QED BY <1>3, <1>11, <2>1, <2>2
<1>18. Len(session'.messages) < MaxMessages BY <1>1, <1>4, <1>6, <1>7
<1>19. pc' \in {"idle", "posted"} /\ (sent' # {} => pc' = "posted")
  BY <1>1, <1>3, <1>11
<1>20. SessionOK(file') /\ ToldOK' BY <1>1, <1>3 DEF TInv, ToldOK
<1> QED BY <1>7, <1>14, <1>15, <1>16, <1>17, <1>18, <1>19, <1>20 DEF TInv

LEMMA AnswerTyped ==
    ASSUME EditsInv, TInv, NEW piece \in sent, Answer(piece)
    PROVE  TInv'
<1>1. pc = "posted" /\ sent' = {} /\ pc' = "summary"
      /\ file' = file /\ edits' = edits /\ durable' = durable
  BY DEF Answer
<1>2. PICK out \in Rehydrations(piece.text, redactor.entries) :
        LET messages == Append(session.messages, Message("assistant", out))
            turn == Range(LastTurn(messages))
        IN  /\ session' = [session EXCEPT !.messages = messages]
            /\ redactor' = [redactor EXCEPT !.entries = @ \cup
                  UNION {Entries(m.text, redactor.terms) : m \in turn}]
  BY DEF Answer
<1> DEFINE messages == Append(session.messages, Message("assistant", out))
           turn == Range(LastTurn(messages))
           new == UNION {Entries(m.text, redactor.terms) : m \in turn}
<1>3. /\ SessionOK(session) /\ SessionOK(file) /\ IsSeq(redactor.terms)
      /\ {"terms", "entries"} \subseteq DOMAIN redactor
      /\ EntriesOK(redactor.entries)
  BY TermsKnown DEF TInv
<1>4. IsText(out)
  <2>1. IsText(piece.text) BY <1>3, RedactedText DEF TInv, SentOK
  <2> QED BY <1>3, <2>1, RehydratedText
<1>5. MessagesOK(messages) BY <1>1, <1>3, <1>4, MessageMore DEF TInv
<1>6. /\ session' = [session EXCEPT !.messages = messages]
      /\ redactor' = [redactor EXCEPT !.entries = @ \cup new]
  BY <1>2
<1> HIDE DEF messages
<1>7. SessionOK(session') /\ session'.entries = session.entries
  BY <1>3, <1>5, <1>6, Put DEF SessionOK
<1>8. EntriesOK(new)
  <2>1. IsFiniteSet(turn) /\ turn \subseteq Range(messages)
    BY <1>5, LastTurnPart DEF MessagesOK
  <2>2. \A m \in turn : IsText(m.text) BY <1>5, <2>1 DEF MessagesOK
  <2> DEFINE texts == [m \in turn |-> m.text]
  <2> HIDE DEF turn
  <2>3. /\ \A m \in turn : IsText(texts[m])
        /\ new = UNION {Entries(texts[m], redactor.terms) : m \in turn}
    BY <2>2
  <2> HIDE DEF texts, new
  <2> QED BY <1>3, <2>1, <2>3, TextsEntries
<1> HIDE DEF new
<1>9. /\ {"terms", "entries"} \subseteq DOMAIN redactor'
      /\ redactor'.entries = redactor.entries \cup new
  BY <1>3, <1>6
<1>10. EntriesOK(redactor'.entries) BY <1>3, <1>8, <1>9, EntriesJoin
<1>11. session'.entries \subseteq redactor'.entries BY <1>7, <1>9 DEF TInv
<1>12. ToldOK' /\ SessionOK(file') BY <1>1, <1>3 DEF TInv, ToldOK
<1> QED BY <1>1, <1>7, <1>9, <1>10, <1>11, <1>12, Settled

(* The end of a turn, given a summary.                                     *)
LEMMA FinishTyped ==
    ASSUME EditsInv, TInv, NEW summary, IsText(summary), Finish(summary)
    PROVE  TInv'
<1>1. /\ session' = [session EXCEPT !.summary = summary,
                                    !.terms = redactor.terms,
                                    !.entries = redactor.entries]
      /\ Persist(session') /\ redactor' = redactor /\ edits' = edits
      /\ pc' = "idle" /\ sent' = {}
  BY DEF Finish, Quiet
<1>2. SessionOK(session) /\ EntriesOK(redactor.entries) BY DEF TInv
<1>3. TermsOK(redactor.terms) BY <1>2 DEF EditsInv, SessionOK
<1> DEFINE a == [session EXCEPT !.summary = summary]
           b == [a EXCEPT !.terms = redactor.terms]
           c == [b EXCEPT !.entries = redactor.entries]
<1>4. session' = c BY <1>1
<1>5. SessionOK(a) BY <1>2, Put
<1> HIDE DEF a
<1>6. SessionOK(b) BY <1>3, <1>5, Put
<1> HIDE DEF b
<1>7. SessionOK(c) /\ c.entries = redactor.entries
  BY <1>2, <1>6, Put DEF SessionOK
<1> HIDE DEF c
<1>8. {"terms", "entries"} \subseteq DOMAIN redactor /\ edits'.terms \subseteq Terms
  BY <1>1 DEF TInv, ToldOK
<1>9. SessionOK(file') /\ ToldOK' BY <1>1, <1>4, <1>7, <1>8, PersistTyped
<1> QED BY <1>1, <1>2, <1>4, <1>7, <1>8, <1>9, Settled

(* The texts either summarizer may come back with.                         *)
LEMMA SummariesText ==
    ASSUME EditsInv, TInv
    PROVE  LET lines == Lines(session.messages)
           IN  /\ IsText(session.summary) /\ IsText(lines)
               /\ IsText(Window(session.summary \o lines))
<1> DEFINE lines == Lines(session.messages)
<1>1. MessagesOK(session.messages) /\ IsText(session.summary)
  BY DEF TInv, SessionOK
<1>2. IsText(lines) BY <1>1, LinesText, TermsKnown DEF MessagesOK
<1> HIDE DEF lines
<1>3. PICK S : Letters(S) /\ session.summary \o lines \in Seq(S)
  BY <1>1, <1>2, JoinedText DEF IsText
<1>4. Window(session.summary \o lines) \in Seq(S) BY <1>3, WindowFits
<1> QED BY <1>1, <1>2, <1>3, <1>4 DEF IsText, lines

LEMMA RestartTyped == EditsInv /\ TInv /\ Restart => TInv'
<1> SUFFICES ASSUME EditsInv, TInv, Restart PROVE TInv' OBVIOUS
<1>1. PICK system \in {file.system} \cup Prompts :
        /\ edits' = [durable EXCEPT !.system = system]
        /\ Started([file EXCEPT !.system = system])
  BY DEF Restart
<1> DEFINE saved == [file EXCEPT !.system = system]
           terms == Merged(saved.terms, ExtraTerms)
<1>2. /\ redactor' = [terms |-> terms, entries |-> saved.entries]
      /\ session' = [saved EXCEPT !.terms = terms]
      /\ Persist(session')
  BY <1>1 DEF Started
<1>3. SessionOK(file) BY DEF TInv
<1>4. IsText(system)
  <2>1. CASE system = file.system BY <1>3, <2>1 DEF SessionOK
  <2>2. CASE system \in Prompts BY <2>2, TypedText DEF TypedTexts
  <2> QED BY <2>1, <2>2
<1>5. SessionOK(saved) BY <1>3, <1>4, Put
<1> HIDE DEF saved
<1>6. TermsOK(terms) BY <1>5, MergedTerms DEF SessionOK
<1> HIDE DEF terms
<1>7. SessionOK(session') BY <1>2, <1>5, <1>6, Put
<1>8. /\ {"terms", "entries"} \subseteq DOMAIN redactor'
      /\ redactor'.entries = saved.entries /\ EntriesOK(redactor'.entries)
      /\ session'.entries = saved.entries
  BY <1>2, <1>5 DEF SessionOK
<1>9. pc' = "idle" /\ sent' = {} BY DEF Restart, Quiet
<1>10. SessionOK(file') /\ ToldOK'
  <2>1. edits'.terms = durable.terms BY <1>1 DEF EditsInv, Reflects
  <2>2. edits'.terms \subseteq Terms BY <2>1 DEF TInv, ToldOK
  <2> QED BY <1>2, <1>7, <2>2, PersistTyped
<1> QED BY <1>7, <1>8, <1>9, <1>10, Settled

LEMMA TNext == IInv /\ EditsInv /\ TInv /\ [Next]_vars => TInv'
<1> SUFFICES ASSUME IInv, EditsInv, TInv, [Next]_vars PROVE TInv' OBVIOUS
<1>0. /\ SessionOK(session) /\ SessionOK(file)
      /\ {"terms", "entries"} \subseteq DOMAIN redactor
      /\ EntriesOK(redactor.entries)
      /\ session.entries \subseteq redactor.entries
      /\ pc \in {"idle", "posted", "summary"}
      /\ (pc # "posted" => sent = {})
      /\ ToldOK /\ edits.terms \subseteq Terms /\ "terms" \in DOMAIN edits
  BY DEF TInv, ToldOK, EditsInv, Reflects
<1>1. ASSUME NEW text \in Notes, Remember(text) PROVE TInv'
  <2>1. /\ session' = [session EXCEPT !.memory = Append(@, text)]
        /\ Len(session.memory) < MaxNotes /\ pc = "idle"
        /\ edits' = [edits EXCEPT !.memory = Append(@, text)]
        /\ Persist(session') /\ UNCHANGED <<redactor, pc, sent>>
    BY <1>1 DEF Remember, MayEdit
  <2> DEFINE items == Append(session.memory, text)
  <2>2. NotesOK(items)
    <3>1. NotesOK(session.memory) BY <1>0 DEF SessionOK
    <3>2. IsText(text) BY TypedText DEF TypedTexts
    <3>3. /\ IsSeq(items) /\ Len(items) = Len(session.memory) + 1
          /\ Range(items) = Range(session.memory) \cup {text}
      BY <3>1, AppendPlaces DEF NotesOK
    <3>4. Len(session.memory) \in Nat /\ MaxNotes \in Nat
      BY <3>1, SeqPlaces, LimitsAssumption DEF NotesOK
    <3> HIDE DEF items
    <3>5. Len(items) <= MaxNotes BY <2>1, <3>3, <3>4
    <3> QED BY <3>1, <3>2, <3>3, <3>5 DEF NotesOK
  <2>3. session' = [session EXCEPT !.memory = items] BY <2>1
  <2> HIDE DEF items
  <2>4. SessionOK(session') /\ session'.entries = session.entries
    BY <1>0, <2>2, <2>3, Put DEF SessionOK
  <2>5. edits'.terms \subseteq Terms BY <1>0, <2>1
  <2>6. SessionOK(file') /\ ToldOK' BY <2>1, <2>4, <2>5, PersistTyped
  <2> QED BY <1>0, <2>1, <2>4, <2>6, Settled
<1>2. ASSUME NEW term \in Terms, AddTerm(term) PROVE TInv'
  <2>1. /\ redactor' = [redactor EXCEPT !.terms = AddCustomTerm(@, term)]
        /\ session' = [session EXCEPT !.terms = (redactor').terms,
                                      !.entries = redactor.entries]
        /\ edits' = [edits EXCEPT !.terms = @ \cup {term}]
        /\ Persist(session') /\ pc = "idle" /\ UNCHANGED <<pc, sent>>
    BY <1>2 DEF AddTerm, MayEdit
  <2> DEFINE terms == AddCustomTerm(session.terms, term)
             a == [session EXCEPT !.terms = terms]
             b == [a EXCEPT !.entries = redactor.entries]
  <2>2. /\ {"terms", "entries"} \subseteq DOMAIN redactor'
        /\ redactor'.terms = terms /\ redactor'.entries = redactor.entries
    BY <1>0, <2>1 DEF EditsInv
  <2>3. TermsOK(terms)
    <3>1. TermsOK(session.terms) BY <1>0 DEF SessionOK
    <3>2. IsText(term) /\ IsTyped(term) BY TypedText DEF TypedTexts
    <3>3. IsSeq(terms) /\ Range(terms) \subseteq Range(session.terms) \cup {term}
      BY <3>1, TermAdded DEF TermsOK
    <3> HIDE DEF terms
    <3> QED BY <3>1, <3>2, <3>3 DEF TermsOK
  <2> HIDE DEF terms
  <2>4. session' = b BY <2>1, <2>2
  <2>5. SessionOK(a) BY <1>0, <2>3, Put
  <2> HIDE DEF a
  <2>6. SessionOK(b) /\ b.entries = redactor.entries
    BY <1>0, <2>5, Put DEF SessionOK
  <2> HIDE DEF b
  <2>7. edits'.terms \subseteq Terms BY <1>0, <2>1
  <2>8. SessionOK(file') /\ ToldOK' BY <2>1, <2>4, <2>6, <2>7, PersistTyped
  <2> QED BY <1>0, <2>1, <2>2, <2>4, <2>6, <2>8, Settled
<1>3. ASSUME NEW text \in Prompts, SetSystem(text) PROVE TInv'
  <2>1. /\ session' = [session EXCEPT !.system = text] /\ pc = "idle"
        /\ edits' = [edits EXCEPT !.system = text]
        /\ Persist(session') /\ UNCHANGED <<redactor, pc, sent>>
    BY <1>3 DEF SetSystem, MayEdit
  <2>2. IsText(text) BY TypedText DEF TypedTexts
  <2>3. SessionOK(session') /\ session'.entries = session.entries
    BY <1>0, <2>1, <2>2, Put DEF SessionOK
  <2>4. edits'.terms \subseteq Terms BY <1>0, <2>1
  <2>5. SessionOK(file') /\ ToldOK' BY <2>1, <2>3, <2>4, PersistTyped
  <2> QED BY <1>0, <2>1, <2>3, <2>5, Settled
<1>4. CASE Save
  <2>1. /\ Persist(session) /\ pc = "idle"
        /\ UNCHANGED <<session, redactor, pc, sent, edits>>
    BY <1>4 DEF Save
  <2>2. SessionOK(file') /\ ToldOK' BY <1>0, <2>1, PersistTyped
  <2> QED BY <1>0, <2>1, <2>2, Settled
<1>5. ASSUME NEW text \in Inputs, Send(text) PROVE TInv'
  BY <1>5, NextHolds, SendTyped
<1>6. ASSUME NEW piece \in sent, Answer(piece) PROVE TInv'
  BY <1>6, AnswerTyped
<1>7. CASE Fail
  <2>1. /\ pc' = "idle" /\ sent' = {}
        /\ UNCHANGED <<session, redactor, file, edits, durable>>
    BY <1>7 DEF Fail, Quiet
  <2>2. ToldOK' BY <1>0, <2>1 DEF ToldOK
  <2> QED BY <1>0, <2>1, <2>2, Settled
<1>8. CASE LocalSummary
  <2>1. PICK summary \in {<<>>, session.summary, Lines(session.messages)} :
          Finish(summary)
    BY <1>8 DEF LocalSummary
  <2>2. IsText(summary) BY EmptyText, SummariesText
  <2> QED BY <2>1, <2>2, FinishTyped
<1>9. CASE NaiveSummary BY <1>9, SummariesText, FinishTyped DEF NaiveSummary
<1>10. CASE Abandon
  <2>1. /\ pc' = "idle" /\ sent' = {}
        /\ UNCHANGED <<session, redactor, file, edits, durable>>
    BY <1>10 DEF Abandon, Quiet
  <2>2. ToldOK' BY <1>0, <2>1 DEF ToldOK
  <2> QED BY <1>0, <2>1, <2>2, Settled
<1>11. CASE Restart BY <1>11, RestartTyped
<1>12. CASE UNCHANGED vars BY <1>12 DEF vars, TInv, SentOK, ToldOK
<1> QED
  BY <1>1, <1>2, <1>3, <1>4, <1>5, <1>6, <1>7, <1>8, <1>9, <1>10, <1>11,
     <1>12 DEF Next

LEMMA EditsHold == Spec => []EditsInv
<1>1. IInv /\ EditsInv /\ [Next]_vars => EditsInv' BY EditsNext
<1> QED BY <1>1, EditsInit, Invariance, PTL DEF Spec

LEMMA TypesHold == Spec => []TInv
<1>1. IInv /\ EditsInv /\ TInv /\ [Next]_vars => TInv' BY TNext
<1> QED BY <1>1, TInit, Invariance, EditsHold, PTL DEF Spec

LEMMA SessionTyped ==
    ASSUME NEW s, SessionOK(s)
    PROVE  /\ \A text \in Texts(s) : \A k \in DOMAIN text : IsPiece(text[k])
           /\ \A m \in Range(s.messages) : m.role \in {"user", "assistant"}
           /\ Len(s.messages) <= MaxMessages /\ Len(s.memory) <= MaxNotes
           /\ \A e \in s.entries : e.c \in DOMAIN Length /\ e.of # <<>>
<1>1. \A text \in Texts(s) : IsText(text)
  BY DEF SessionOK, MessagesOK, NotesOK, TermsOK, Texts
<1>2. ASSUME NEW text, IsText(text), NEW k \in DOMAIN text
      PROVE  IsPiece(text[k])
  <2>1. text[k] \in Range(text) BY DEF Range
  <2> QED BY <1>2, <2>1, TextLetters DEF Letters
<1> QED BY <1>1, <1>2 DEF SessionOK, MessagesOK, NotesOK, EntriesOK

-----------------------------------------------------------------------------
(* What a summary holds.                                                   *)

(* The placeholders in a session's summary that did not come back in an    *)
(* answer have their entries in the session.                               *)
Holds(s) == Placeholders(s.summary) \ Stuck(s.messages) \subseteq s.entries

RInv ==
    /\ Holds(session) /\ Holds(file)
    /\ pc = "summary" =>
          \A m \in Range(LastTurn(session.messages)) :
              Entries(m.text, redactor.terms) \subseteq redactor.entries

LEMMA SameHolds ==
    ASSUME NEW s, NEW t, Holds(s), t.summary = s.summary,
           Range(s.messages) \subseteq Range(t.messages),
           s.entries \subseteq t.entries
    PROVE  Holds(t)
<1>1. Stuck(s.messages) \subseteq Stuck(t.messages) BY DEF Stuck
<1> QED BY <1>1 DEF Holds

(* The placeholders of a turn's lines.                                     *)
LEMMA LinesHold ==
    ASSUME TInv, EditsInv,
           \A m \in Range(LastTurn(session.messages)) :
              Entries(m.text, redactor.terms) \subseteq redactor.entries
    PROVE  Placeholders(Lines(session.messages)) \ Stuck(session.messages)
                \subseteq redactor.entries
<1> DEFINE turn == Range(LastTurn(session.messages))
           made(m) == Made(Range(m.text), Entries(m.text, redactor.terms))
           S == {LineBreakPiece} \cup UNION {made(m) : m \in turn}
<1>1. /\ MessagesOK(session.messages) /\ IsSeq(session.messages)
      /\ IsSeq(redactor.terms) /\ Len(redactor.terms) \in Nat
  BY SeqPlaces, TermsKnown DEF TInv, SessionOK, MessagesOK
<1>2. turn \subseteq Range(session.messages) BY <1>1, LastTurnPart
<1>3. ASSUME NEW m \in turn
      PROVE  Redact(m.text, redactor.terms) \in Seq(S)
  <2>1. IsText(m.text) BY <1>1, <1>2 DEF MessagesOK
  <2>2. m.text \in Seq(Range(m.text)) BY <2>1, TextLetters
  <2>3. Redact(m.text, redactor.terms) \in Seq(made(m))
    BY <1>1, <2>2, RedactedMade DEF Passing, Redact, Entries
  <2>4. made(m) \subseteq S OBVIOUS
  <2> HIDE DEF S, made
  <2> QED BY <2>3, <2>4, SeqMonotonic
<1>4. LineBreakPiece \in S OBVIOUS
<1>5. Lines(session.messages) \in Seq(S)
  <2> HIDE DEF S
  <2> QED BY <1>1, <1>3, <1>4, LinesMade
<1>6. Range(Lines(session.messages)) \subseteq S
  <2> HIDE DEF S
  <2> QED BY <1>5, RangeOfSeq
<1> SUFFICES ASSUME NEW x \in Placeholders(Lines(session.messages)),
                    x \notin Stuck(session.messages)
             PROVE  x \in redactor.entries
  OBVIOUS
<1>7. x \in S /\ IsPlaceholderPiece(x) /\ x.c \in DOMAIN Length
  BY <1>6 DEF Placeholders, IsTag
<1>8. x # LineBreakPiece BY <1>7, LineBreaks
<1>9. PICK m \in turn : x \in made(m) BY <1>7, <1>8
<1>10. x \notin Range(m.text)
  <2>1. x \in Range(m.text) => x \in Placeholders(m.text)
    BY <1>7 DEF Placeholders, IsTag
  <2> QED BY <1>2, <1>9, <2>1 DEF Stuck
<1>11. \A e : x # Hash(e)
  <2> SUFFICES ASSUME NEW e, x = Hash(e) PROVE FALSE OBVIOUS
  <2>1. x.c \in {"digits", "hash"} BY PlaceholderPieces
  <2> QED BY <1>7, <2>1 DEF Length
<1>12. x \in Entries(m.text, redactor.terms) BY <1>9, <1>10, <1>11 DEF Made
<1> QED BY <1>12

LEMMA JoinedRange ==
    ASSUME NEW s, IsSeq(s), NEW t, IsSeq(t)
    PROVE  /\ IsSeq(s \o t)
           /\ Range(s \o t) = Range(s) \cup Range(t)
<1>1. PICK S : s \in Seq(S) BY DEF IsSeq
<1>2. PICK T : t \in Seq(T) BY DEF IsSeq
<1> DEFINE U == S \cup T
<1>3. s \in Seq(U) /\ t \in Seq(U) BY <1>1, <1>2, SeqMonotonic
<1> HIDE DEF U
<1>4. s \o t \in Seq(U) BY <1>3, ConcatProperties
<1>5. Range(s \o t) = Range(s) \cup Range(t) BY <1>3, RangeConcatenation
<1> QED BY <1>4, <1>5 DEF IsSeq

(* The end of a turn. *)
LEMMA NewHolds == Holds(NewSession)
<1>1. Placeholders(<<>>) = {} BY DEF Placeholders, Range
<1> QED BY <1>1 DEF Holds, NewSession

LEMMA PersistHolds ==
    ASSUME Holds(file), NEW state, Persist(state), Holds(state)
    PROVE  Holds(file')
<1>1. CASE file' = state BY <1>1
<1>2. CASE file' = file BY <1>2
<1>3. CASE file' = NewSession BY <1>3, NewHolds
<1> QED BY <1>1, <1>2, <1>3, PersistLeaves

LEMMA FinishHolds ==
    ASSUME TInv, EditsInv, RInv, pc = "summary", NEW summary, Finish(summary),
           Placeholders(summary) \ Stuck(session.messages) \subseteq redactor.entries
    PROVE  RInv'
<1>1. /\ session' = [session EXCEPT !.summary = summary,
                                    !.terms = redactor.terms,
                                    !.entries = redactor.entries]
      /\ Persist(session') /\ pc' = "idle"
  BY DEF Finish, Quiet
<1>2. /\ session'.summary = summary /\ session'.messages = session.messages
      /\ session'.entries = redactor.entries
  BY <1>1 DEF TInv, SessionOK
<1>3. Holds(session') BY <1>2 DEF Holds, Stuck
<1>4. Holds(file') BY <1>1, <1>3, PersistHolds DEF RInv
<1> QED BY <1>1, <1>3, <1>4 DEF RInv

LEMMA RInit == Init => RInv
<1> SUFFICES ASSUME Init PROVE RInv OBVIOUS
<1>1. /\ session = [NewSession EXCEPT !.terms = Merged(<<>>, ExtraTerms)]
      /\ file \in {session, NewSession} /\ pc = "idle"
  BY DEF Init
<1>2. session.summary = <<>> BY <1>1 DEF NewSession
<1>3. Placeholders(<<>>) = {} BY DEF Placeholders, Range
<1>4. Holds(session) BY <1>2, <1>3 DEF Holds
<1> QED BY <1>1, <1>4, NewHolds DEF RInv

LEMMA RNext == IInv /\ EditsInv /\ TInv /\ RInv /\ [Next]_vars => RInv'
<1> SUFFICES ASSUME IInv, EditsInv, TInv, RInv, [Next]_vars PROVE RInv' OBVIOUS
<1>0. /\ SessionOK(session) /\ SessionOK(file)
      /\ IsSeq(session.messages) /\ Holds(session) /\ Holds(file)
      /\ {"terms", "entries"} \subseteq DOMAIN redactor
      /\ session.entries \subseteq redactor.entries
  BY DEF TInv, RInv, SessionOK, MessagesOK
<1>1. ASSUME NEW text, Remember(text) PROVE RInv'
  <2>1. /\ session' = [session EXCEPT !.memory = Append(@, text)]
        /\ Persist(session') /\ pc' = "idle"
    BY <1>1 DEF Remember, MayEdit
  <2>2. /\ session'.summary = session.summary
        /\ session'.messages = session.messages
        /\ session'.entries = session.entries
    BY <1>0, <2>1 DEF SessionOK
  <2>3. Holds(session') BY <1>0, <2>2, SameHolds
  <2>4. Holds(file') BY <1>0, <2>1, <2>3, PersistHolds
  <2> QED BY <2>1, <2>3, <2>4 DEF RInv
<1>2. ASSUME NEW term, AddTerm(term) PROVE RInv'
  <2>1. /\ session' = [session EXCEPT !.terms = (redactor').terms,
                                      !.entries = redactor.entries]
        /\ Persist(session') /\ pc' = "idle"
    BY <1>2 DEF AddTerm, MayEdit
  <2>2. /\ session'.summary = session.summary
        /\ session'.messages = session.messages
        /\ session'.entries = redactor.entries
    BY <1>0, <2>1 DEF SessionOK
  <2>3. Holds(session') BY <1>0, <2>2, SameHolds
  <2>4. Holds(file') BY <1>0, <2>1, <2>3, PersistHolds
  <2> QED BY <2>1, <2>3, <2>4 DEF RInv
<1>3. ASSUME NEW text, SetSystem(text) PROVE RInv'
  <2>1. /\ session' = [session EXCEPT !.system = text]
        /\ Persist(session') /\ pc' = "idle"
    BY <1>3 DEF SetSystem, MayEdit
  <2>2. /\ session'.summary = session.summary
        /\ session'.messages = session.messages
        /\ session'.entries = session.entries
    BY <1>0, <2>1 DEF SessionOK
  <2>3. Holds(session') BY <1>0, <2>2, SameHolds
  <2>4. Holds(file') BY <1>0, <2>1, <2>3, PersistHolds
  <2> QED BY <2>1, <2>3, <2>4 DEF RInv
<1>4. CASE Save
  <2>1. Persist(session) /\ session' = session /\ pc' = "idle"
    BY <1>4 DEF Save
  <2>2. Holds(file') BY <1>0, <2>1, PersistHolds
  <2> QED BY <1>0, <2>1, <2>2 DEF RInv
<1>5. ASSUME NEW text, Send(text) PROVE RInv'
  <2>1. \E message :
            session' = [session EXCEPT
                            !.messages = Append(session.messages, message)]
    BY <1>5 DEF Send
  <2>2. file' = file /\ pc' # "summary" BY <1>5 DEF Send
  <2>3. /\ session'.summary = session.summary
        /\ session'.entries = session.entries
        /\ Range(session.messages) \subseteq Range(session'.messages)
    <3>1. PICK message : session' = [session EXCEPT
                            !.messages = Append(session.messages, message)]
      BY <2>1
    <3>2. Range(session.messages) \subseteq
                Range(Append(session.messages, message))
      BY <1>0, AppendPlaces
    <3> QED BY <1>0, <3>1, <3>2 DEF SessionOK
  <2> QED BY <1>0, <2>2, <2>3, SameHolds DEF RInv
<1>6. ASSUME NEW piece, Answer(piece) PROVE RInv'
  <2>1. PICK out :
        LET messages == Append(session.messages, Message("assistant", out))
            turn == Range(LastTurn(messages))
        IN  /\ session' = [session EXCEPT !.messages = messages]
            /\ redactor' = [redactor EXCEPT !.entries = @ \cup
                  UNION {Entries(m.text, redactor.terms) : m \in turn}]
    BY <1>6 DEF Answer
  <2> DEFINE messages == Append(session.messages, Message("assistant", out))
             new == UNION {Entries(m.text, redactor.terms) :
                            m \in Range(LastTurn(messages))}
  <2>2. file' = file BY <1>6 DEF Answer
  <2>3. /\ session' = [session EXCEPT !.messages = messages]
        /\ redactor' = [redactor EXCEPT !.entries = @ \cup new]
    BY <2>1
  <2>4. Range(session.messages) \subseteq Range(messages)
    BY <1>0, AppendPlaces
  <2>5. \A m \in Range(LastTurn(messages)) :
            Entries(m.text, redactor.terms) \subseteq new
    OBVIOUS
  <2> HIDE DEF messages, new
  <2>6. /\ session'.summary = session.summary
        /\ session'.entries = session.entries /\ session'.messages = messages
    BY <1>0, <2>3 DEF SessionOK
  <2>7. /\ redactor'.terms = redactor.terms
        /\ redactor'.entries = redactor.entries \cup new
    BY <1>0, <2>3
  <2>8. Holds(session') BY <1>0, <2>4, <2>6, SameHolds
  <2>9. \A m \in Range(LastTurn(session'.messages)) :
            Entries(m.text, redactor'.terms) \subseteq redactor'.entries
    BY <2>5, <2>6, <2>7
  <2> QED BY <1>0, <2>2, <2>8, <2>9 DEF RInv
<1>7. CASE Fail BY <1>7 DEF Fail, Quiet, RInv
<1> DEFINE lines == Lines(session.messages)
<1>8. /\ Placeholders(session.summary) \ Stuck(session.messages)
            \subseteq redactor.entries
      /\ pc = "summary" =>
            Placeholders(lines) \ Stuck(session.messages) \subseteq redactor.entries
  BY <1>0, LinesHold DEF Holds, RInv
<1>9. CASE LocalSummary
  <2>1. PICK summary \in {<<>>, session.summary, lines} : Finish(summary)
    BY <1>9 DEF LocalSummary
  <2>2. pc = "summary" BY <1>9 DEF LocalSummary
  <2>3. Placeholders(<<>>) = {} BY DEF Placeholders, Range
  <2>4. Placeholders(summary) \ Stuck(session.messages) \subseteq redactor.entries
    BY <1>8, <2>2, <2>3
  <2> QED BY <2>1, <2>2, <2>4, FinishHolds
<1>10. CASE NaiveSummary
  <2> DEFINE all == session.summary \o lines
  <2>1. pc = "summary" /\ Finish(Window(all)) BY <1>10 DEF NaiveSummary
  <2>2. IsSeq(all) /\ Range(all) = Range(session.summary) \cup Range(lines)
    BY SummariesText, TextIsSeq, JoinedRange
  <2> HIDE DEF all
  <2>3. Range(Window(all)) \subseteq Range(all) BY <2>2, WindowFits DEF IsSeq
  <2>4. Placeholders(Window(all)) \subseteq
            Placeholders(session.summary) \cup Placeholders(lines)
    BY <2>2, <2>3 DEF Placeholders
  <2>5. Placeholders(Window(all)) \ Stuck(session.messages) \subseteq redactor.entries
    BY <1>8, <2>1, <2>4
  <2> QED BY <2>1, <2>5, FinishHolds
<1>11. CASE Abandon BY <1>11 DEF Abandon, Quiet, RInv
<1>12. CASE Restart
  <2>1. PICK system : Started([file EXCEPT !.system = system])
    BY <1>12 DEF Restart
  <2> DEFINE saved == [file EXCEPT !.system = system]
             terms == Merged(saved.terms, ExtraTerms)
  <2>2. session' = [saved EXCEPT !.terms = terms] /\ Persist(session')
    BY <2>1 DEF Started
  <2>3. pc' = "idle" BY <1>12 DEF Restart, Quiet
  <2> HIDE DEF terms
  <2>4. /\ session'.summary = file.summary /\ session'.messages = file.messages
        /\ session'.entries = file.entries
    BY <1>0, <2>2 DEF SessionOK
  <2>5. Holds(session') BY <1>0, <2>4, SameHolds
  <2>6. Holds(file') BY <1>0, <2>2, <2>5, PersistHolds
  <2> QED BY <2>3, <2>5, <2>6 DEF RInv
<1>13. CASE UNCHANGED vars BY <1>13 DEF vars, RInv
<1> QED
  BY <1>1, <1>2, <1>3, <1>4, <1>5, <1>6, <1>7, <1>9, <1>10, <1>11, <1>12,
     <1>13 DEF Next

-----------------------------------------------------------------------------
(* What a prompt holds.                                                    *)

(* A part of a text stands in it.                                          *)
LEMMA PartStands ==
    ASSUME NEW P, NEW text \in Seq(P), NEW i \in 1..Len(text),
           NEW j \in i..Len(text)
    PROVE  Stands(SubSeq(text, i, j), 1, text, i)
<1> DEFINE s == SubSeq(text, i, j)
<1>1. /\ Len(s) = j - i + 1
      /\ \A k \in 1..(j - i + 1) : s[k] = text[i + k - 1]
  BY PartSeq
<1> HIDE DEF s
<1>2. i + Len(s) - 1 <= Len(text) BY <1>1
<1>3. \A k \in 1..Len(s) : text[i + k - 1] = s[k] BY <1>1
<1> QED BY <1>2, <1>3 DEF Stands, s

LEMMA SentHidesMatches == EditsInv /\ TInv => NoMatchSent
<1> SUFFICES ASSUME EditsInv, TInv, Mode # "none", NEW piece \in sent,
                    NEW i \in DOMAIN piece.text, NEW j \in DOMAIN piece.text,
                    i <= j,
                    \A k \in i..j : ~IsPlaceholderPiece(piece.text[k])
             PROVE  LET s == SubSeq(piece.text, i, j)
                    IN  /\ \A tag \in Range(Rules) : ~Matches(tag, s)
                        /\ Blank(s) \/ s \notin edits.terms \cup Range(ExtraTerms)
  BY DEF NoMatchSent
<1> DEFINE raw == Take(piece.raw, piece.kept)
           out == piece.text
           s == SubSeq(out, i, j)
           terms == redactor.terms
<1>1. /\ IsText(raw) /\ out = Redact(raw, terms) /\ IsSeq(terms)
      /\ Covers(terms, edits.terms \cup Range(ExtraTerms))
  BY TermsKnown DEF TInv, SentOK
<1>2. IsText(out) BY <1>1, RedactedText
<1> HIDE DEF raw, out, terms
<1>3. PICK P : raw \in Seq(P) BY <1>1 DEF IsText
<1>4. PICK S : out \in Seq(S) BY <1>2 DEF IsText
<1>5. DOMAIN out = 1..Len(out) /\ Len(out) \in Nat BY <1>4
<1>6. i \in 1..Len(out) /\ j \in i..Len(out) BY <1>5 DEF out
<1>7. /\ s \in Seq(S) /\ s # <<>> /\ Len(s) = j - i + 1
      /\ \A k \in 1..(j - i + 1) : s[k] = out[i + k - 1]
  BY <1>4, <1>6, PartSeq
<1>8. Stands(s, 1, out, i) BY <1>4, <1>6, PartStands
<1>9. IsTyped(s)
  <2>1. \A k \in 1..(j - i + 1) : i + k - 1 \in i..j BY <1>5, <1>6
  <2>2. \A k \in i..j : ~IsPlaceholderPiece(out[k]) BY DEF out
  <2> QED BY <1>7, <2>1, <2>2 DEF IsTyped
<1> HIDE DEF s
<1>10. Len(terms) \in Nat /\ DOMAIN terms = 1..Len(terms) BY <1>1, SeqPlaces
<1>11. /\ \A n \in 1..Len(Rules) : ~Matches(Rules[n], s)
       /\ \A k \in 1..Len(terms) : Blank(s) \/ terms[k] # s
  BY <1>1, <1>3, <1>6, <1>7, <1>8, <1>9, <1>10, RedactedLeaves
<1>12. \A tag \in Range(Rules) : ~Matches(tag, s)
  BY <1>11, RulesTags DEF Range
<1>13. s \notin Range(terms) \/ Blank(s) BY <1>10, <1>11 DEF Range
<1>14. Blank(s) \/ s \notin edits.terms \cup Range(ExtraTerms)
  BY <1>1, <1>13 DEF Covers
<1> QED BY <1>12, <1>14 DEF s, out

(* What is a secret. *)
LEMMA SecretIs ==
    ASSUME NEW text, NEW s \in Secrets(text)
    PROVE  LET terms == redactor.terms
               w == SubSeq(text, s.from, s.to)
               k == s.rank - Len(Rules)
           IN  /\ s.from \in DOMAIN text /\ s.to \in DOMAIN text
               /\ s.rank \in 1..(Passes(terms) + 1) /\ s.from <= s.to
               /\ s.rank <= Len(Rules) => Matches(Rules[s.rank], w)
               /\ ~(s.rank <= Len(Rules)) =>
                      /\ w \in edits.terms \cup Range(ExtraTerms) /\ ~Blank(w)
                      /\ k \in DOMAIN terms => w = terms[k]
BY DEF Secrets

(* A secret that is not severed is gone after the last pass.               *)
LEMMA SecretsGo ==
    ASSUME NEW P, NEW text \in Seq(P), IsSeq(redactor.terms),
           Covers(redactor.terms, edits.terms \cup Range(ExtraTerms)),
           NEW f, Follows(f, text, redactor.terms),
           NEW s \in Secrets(text), ~Severed(s, Cuts(text, redactor.terms))
    PROVE  Gone(s.from, s.to, f[Passes(redactor.terms)].text)
<1> DEFINE terms == redactor.terms
           cuts == Cuts(text, terms)
           from == s.from
           to == s.to
           rank == s.rank
           w == SubSeq(text, from, to)
           R == Len(Rules)
           N == Passes(terms)
<1>1. /\ from \in DOMAIN text /\ to \in DOMAIN text /\ rank \in 1..(N + 1)
      /\ from <= to
      /\ rank <= R => Matches(Rules[rank], w)
      /\ ~(rank <= R) => /\ w \in edits.terms \cup Range(ExtraTerms) /\ ~Blank(w)
                         /\ rank - R \in DOMAIN terms => w = terms[rank - R]
  BY SecretIs
<1>2. /\ rank \notin {k \in DOMAIN Rules : Rules[k] = "URL"} =>
            \A cut \in cuts :
              cut.rank < rank \/ (cut.rank = rank /\ cut.head \notin from..to)
                => cut.at \cap (from..to) = {} \/ from..to \subseteq cut.at
  BY DEF Severed
<1>3. Covers(terms, edits.terms \cup Range(ExtraTerms)) OBVIOUS
<1>4. /\ Len(terms) \in Nat /\ DOMAIN terms = 1..Len(terms)
      /\ R \in Nat /\ DOMAIN Rules = 1..R /\ N \in Nat /\ N = R + Len(terms)
  <2>1. IsSeq(terms) OBVIOUS
  <2> HIDE DEF terms
  <2>2. Len(terms) \in Nat /\ DOMAIN terms = 1..Len(terms) BY <2>1, SeqPlaces
  <2> QED BY <2>2, RulesTags DEF Passes
<1>5. Follows(f, text, terms) OBVIOUS
<1>6. \A cut \in cuts : cut.rank \in Nat
  <2> HIDE DEF terms
  <2> QED BY <1>4, <1>5, CutRanks DEF cuts
<1> HIDE DEF terms, cuts, from, to, rank, R, N
<1>7. from \in 1..Len(text) /\ to \in from..Len(text)
  <2>1. DOMAIN text = 1..Len(text) OBVIOUS
  <2> QED BY <1>1, <2>1
<1>8. CASE rank \in {k \in DOMAIN Rules : Rules[k] = "URL"}
  <2>1. rank \in 1..Len(Rules) /\ Rules[rank] = "URL" BY <1>4, <1>8 DEF R
  <2>2. Matches("URL", w) BY <1>1, <1>4, <2>1 DEF R
  <2>3. Gone(from, to, f[N].text)
    BY <1>4, <1>5, <1>7, <2>1, <2>2, UrlGone DEF N
  <2> QED BY <2>3 DEF from, to, N, terms
<1>9. CASE rank \notin {k \in DOMAIN Rules : Rules[k] = "URL"}
  <2>1. \A cut \in cuts :
            cut.rank < rank \/ (cut.rank = rank /\ cut.head \notin from..to)
                => cut.at \cap (from..to) = {} \/ from..to \subseteq cut.at
    BY <1>2, <1>9
  <2> HIDE DEF w
  <2>2. \E n \in 1..N : Wants(terms, n, w) /\ (n < rank \/ n = rank)
    <3>1. CASE rank <= R
      <4>1. rank \in 1..N BY <1>1, <1>4, <3>1
      <4>2. Wants(terms, rank, w) BY <1>1, <3>1 DEF Wants, R
      <4> QED BY <4>1, <4>2
    <3>2. CASE ~(rank <= R) /\ rank - R \in DOMAIN terms
      <4>1. rank \in 1..N BY <1>1, <1>4, <3>2
      <4>2. Wants(terms, rank, w) BY <1>1, <3>2 DEF Wants, R
      <4> QED BY <4>1, <4>2
    <3>3. CASE ~(rank <= R) /\ rank - R \notin DOMAIN terms
      <4>1. w \in Range(terms) /\ ~Blank(w) BY <1>1, <1>3, <3>3 DEF Covers
      <4>2. PICK k \in DOMAIN terms : terms[k] = w BY <4>1 DEF Range
      <4> DEFINE n == R + k
      <4>3. n \in 1..N /\ n < rank /\ ~(n <= R) /\ n - R = k
        BY <1>1, <1>4, <3>3
      <4> HIDE DEF n
      <4>4. Wants(terms, n, w) BY <4>1, <4>2, <4>3 DEF Wants, R
      <4> QED BY <4>3, <4>4
    <3> QED BY <3>1, <3>2, <3>3
  <2>3. PICK n \in 1..N : Wants(terms, n, w) /\ (n < rank \/ n = rank)
    BY <2>2
  <2>4. Spared(from, to, n, cuts)
    <3>1. ASSUME NEW cut \in cuts,
                 cut.rank < n \/ (cut.rank = n /\ cut.head \notin from..to)
          PROVE  cut.rank < rank \/ (cut.rank = rank /\ cut.head \notin from..to)
      <4>1. CASE n = rank BY <3>1, <4>1
      <4>2. CASE n < rank /\ cut.rank = n BY <4>2
      <4>3. CASE n < rank /\ cut.rank < n
        BY <1>1, <1>4, <1>6, <4>3
      <4> QED BY <2>3, <3>1, <4>1, <4>2, <4>3
    <3> QED BY <2>1, <3>1 DEF Spared
  <2>5. Gone(from, to, f[N].text)
    BY <1>4, <1>5, <1>7, <2>3, <2>4, NamedGone DEF N, cuts, w
  <2> QED BY <2>5 DEF from, to, N, terms
<1> QED BY <1>8, <1>9

(* What a person reads in a prompt stood outside of every secret that no   *)
(* earlier placeholder cut into.                                           *)
LEMMA SentHidesParts == EditsInv /\ TInv => NoPartSent
<1> SUFFICES ASSUME EditsInv, TInv, Mode # "none", NEW piece \in sent
             PROVE  LET text == Take(piece.raw, piece.kept)
                        cuts == Cuts(text, redactor.terms)
                        hidden == UNION {s.from..s.to :
                            s \in {s \in Secrets(text) : ~Severed(s, cuts)}}
                    IN  \A x \in Range(piece.text) :
                            \/ IsPlaceholderPiece(x)
                            \/ \E k \in DOMAIN text \ hidden : x = text[k]
  BY DEF NoPartSent
<1> DEFINE text == Take(piece.raw, piece.kept)
           terms == redactor.terms
           cuts == Cuts(text, terms)
           open == {s \in Secrets(text) : ~Severed(s, cuts)}
           hidden == UNION {s.from..s.to : s \in open}
<1>1. /\ IsText(text) /\ piece.text = Redact(text, terms) /\ IsSeq(terms)
      /\ Covers(terms, edits.terms \cup Range(ExtraTerms))
  BY TermsKnown DEF TInv, SentOK
<1>2. PICK P : text \in Seq(P)
  <2> HIDE DEF text
  <2> QED BY <1>1 DEF IsText
<1>3. Len(terms) \in Nat
  <2> HIDE DEF terms
  <2> QED BY <1>1, SeqPlaces
<1>4. PICK f : Follows(f, text, terms)
  <2> HIDE DEF text, terms
  <2> QED BY <1>3, PlacesExist
<1>5. ASSUME NEW s \in open PROVE Gone(s.from, s.to, f[Passes(terms)].text)
  <2> HIDE DEF text
  <2> QED BY <1>1, <1>2, <1>4, <1>5, SecretsGo
<1> HIDE DEF open, text, terms
<1>6. ASSUME NEW x \in Range(piece.text), ~IsPlaceholderPiece(x)
      PROVE  \E k \in DOMAIN text \ hidden : x = text[k]
  <2>1. x \in Range(Redact(text, terms)) BY <1>1, <1>6
  <2>2. PICK k \in 1..Len(text) :
            /\ x = text[k]
            /\ \A from, to : Gone(from, to, f[Passes(terms)].text)
                                  => k \notin from..to
    <3> DEFINE Open(k) == \A from, to :
                  Gone(from, to, f[Passes(terms)].text) => k \notin from..to
    <3>1. text \in Seq(P) /\ Len(terms) \in Nat /\ Follows(f, text, terms)
          /\ ~IsPlaceholderPiece(x)
      BY <1>2, <1>3, <1>4, <1>6
    <3> HIDE DEF hidden, cuts
    <3>2. \E k \in 1..Len(text) : x = text[k] /\ Open(k)
      BY <2>1, <3>1, ReadFrom, SMTT(40)
    <3> QED BY <3>2
  <2>3. k \in DOMAIN text BY <1>2
  <2>4. k \notin hidden BY <1>5, <2>2
  <2> QED BY <2>2, <2>3, <2>4
<1> QED BY <1>6 DEF text, terms, open

-----------------------------------------------------------------------------
(* What comes back.                                                        *)

(* What a person types holds no placeholder.                               *)
LEMMA NoneTyped ==
    ASSUME NEW t, IsText(t), IsTyped(t)
    PROVE  Placeholders(t) = {}
<1> SUFFICES ASSUME NEW x \in Placeholders(t) PROVE FALSE OBVIOUS
<1>1. x \in Range(t) /\ IsPlaceholderPiece(x) BY DEF Placeholders, IsTag
<1>2. t \in Seq(Range(t)) BY TextLetters
<1>3. PICK k \in 1..Len(t) : t[k] = x BY <1>1, <1>2, RangeEquality
<1> QED BY <1>1, <1>3 DEF IsTyped

(* A snippet of a text holds no other placeholders.                        *)
LEMMA FewerTaken ==
    ASSUME NEW t, IsText(t), NEW n \in Nat
    PROVE  Placeholders(Take(t, n)) \subseteq Placeholders(t)
<1>1. t \in Seq(Range(t)) BY TextLetters
<1>2. Range(Take(t, n)) \subseteq Range(t) BY <1>1, TakeCut
<1> QED BY <1>2 DEF Placeholders

(* Of the texts of a session only the summary and the messages hold        *)
(* placeholders; those of a prompt on its way are in the redactor's map or *)
(* were stuck in a message.                                                *)
Unmarked(s) ==
    /\ Placeholders(s.system) = {}
    /\ \A text \in Range(s.memory) : Placeholders(text) = {}

BackInv ==
    /\ Unmarked(session) /\ Unmarked(file)
    /\ \A piece \in sent :
          Placeholders(piece.raw) \subseteq
                Stuck(session.messages) \cup redactor.entries

LEMMA NewUnmarked == Unmarked(NewSession)
<1>1. Placeholders(<<>>) = {} /\ Range(<<>>) = {} BY DEF Placeholders, Range
<1> QED BY <1>1 DEF Unmarked, NewSession

LEMMA PersistUnmarked ==
    ASSUME Unmarked(file), NEW state, Persist(state), Unmarked(state)
    PROVE  Unmarked(file')
<1>1. CASE file' = state BY <1>1
<1>2. CASE file' = file BY <1>2
<1>3. CASE file' = NewSession BY <1>3, NewUnmarked
<1> QED BY <1>1, <1>2, <1>3, PersistLeaves

LEMMA BackInit == Init => BackInv
<1> SUFFICES ASSUME Init PROVE BackInv OBVIOUS
<1>1. /\ session = [NewSession EXCEPT !.terms = Merged(<<>>, ExtraTerms)]
      /\ file \in {session, NewSession} /\ sent = {}
  BY DEF Init
<1>2. session.system = <<>> /\ session.memory = <<>> BY <1>1 DEF NewSession
<1>3. Placeholders(<<>>) = {} /\ Range(<<>>) = {} BY DEF Placeholders, Range
<1>4. Unmarked(session) BY <1>2, <1>3 DEF Unmarked
<1> QED BY <1>1, <1>4, NewUnmarked DEF BackInv

(* What a prompt is made of. *)
LEMMA SourcesKnown ==
    ASSUME SessionOK(session), Unmarked(session), Holds(session),
           NEW messages, IsSeq(messages),
           Range(session.messages) \subseteq Range(messages),
           NEW docs, Names(docs, session.memory, messages),
           NEW memories, memories \subseteq Range(docs),
           NEW recall, recall \subseteq Range(docs),
           NEW s \in Sources(memories, recall, messages)
    PROVE  Placeholders(s.raw) \subseteq Stuck(messages) \cup session.entries
<1>1. ASSUME NEW k \in 1..Len(messages)
      PROVE  Placeholders(messages[k].text) \subseteq Stuck(messages)
  <2>1. messages[k] \in Range(messages) BY SeqPlaces DEF Range
  <2> QED BY <2>1 DEF Stuck
<1>2. ASSUME NEW d \in Range(docs)
      PROVE  Placeholders(d.text) \subseteq Stuck(messages)
  <2>1. CASE d.at \in DOMAIN session.memory /\ d.text = session.memory[d.at]
    <3>1. d.text \in Range(session.memory) BY <2>1 DEF Range
    <3> QED BY <3>1 DEF Unmarked
  <2>2. CASE d.at \in DOMAIN messages /\ d.text = messages[d.at].text
    BY <1>1, <2>2, SeqPlaces
  <2> QED BY <2>1, <2>2 DEF Names
<1>3. CASE s = Source("system", session.system, Len(session.system))
  BY <1>3 DEF Source, Unmarked
<1>4. CASE s = Source("summary", session.summary, Len(session.summary))
  <2>1. Stuck(session.messages) \subseteq Stuck(messages) BY DEF Stuck
  <2> QED BY <1>4, <2>1 DEF Source, Holds
<1>5. CASE \E d \in memories : s = Source("memory", d.text, MemoryChars)
  BY <1>2, <1>5 DEF Source
<1>6. CASE \E d \in recall : s = Source("recall", d.text, RecallChars)
  BY <1>2, <1>6 DEF Source
<1>7. ASSUME NEW k \in (Less(Len(messages), MaxRecent) + 1)..Len(messages),
             s = Source("recent", messages[k].text, Len(messages[k].text))
      PROVE  Placeholders(s.raw) \subseteq Stuck(messages)
  <2>1. Len(messages) \in Nat /\ MaxRecent \in Nat
    BY SeqPlaces, LimitsAssumption
  <2>2. k \in 1..Len(messages) BY <2>1 DEF Less
  <2> QED BY <1>1, <1>7, <2>2 DEF Source
<1> QED BY <1>3, <1>4, <1>5, <1>6, <1>7 DEF Sources

LEMMA SendBack ==
    ASSUME IInv', TInv, RInv, BackInv, NEW text, Send(text)
    PROVE  BackInv'
<1> DEFINE messages == Append(session.messages, Message("user", text))
           docs == Append(index, MessageDoc(Len(messages), text))
           older == Less(Len(messages), MaxRecent)
<1>1. /\ session' = [session EXCEPT !.messages = messages] /\ index' = docs
      /\ pc = "idle" /\ file' = file
  BY DEF Send
<1>2. PICK memories \in Results(docs, text, "memory", Len(session.memory),
                                MaxMemories),
           recall \in Results(docs, text, "message", older, MaxRecall) :
        LET sources == Sources(memories, recall, messages)
        IN  /\ redactor' = [redactor EXCEPT !.entries = @ \cup NewEntries(sources)]
            /\ \/ sent' = {Piece(s) : s \in sources}
               \/ sent' = sent
  BY DEF Send
<1> DEFINE sources == Sources(memories, recall, messages)
<1>3. SessionOK(session) /\ sent = {} BY <1>1 DEF TInv
<1>4. /\ session'.messages = messages /\ session'.memory = session.memory
      /\ session'.system = session.system
  BY <1>1, <1>3 DEF SessionOK
<1>5. IsSeq(messages) /\ Range(session.messages) \subseteq Range(messages)
  <2>1. IsSeq(session.messages) BY <1>3 DEF SessionOK, MessagesOK
  <2> QED BY <2>1, AppendPlaces
<1>6. Names(docs, session.memory, messages)
  <2>1. Names(index', session'.memory, session'.messages)
    BY AgreesIsAgrees DEF IInv, Agrees
  <2> QED BY <1>1, <1>4, <2>1
<1>7. memories \subseteq Range(docs) /\ recall \subseteq Range(docs)
  <2> HIDE DEF docs, older
  <2>1. ASSUME NEW kind, NEW upTo, NEW limit,
               NEW hits \in Results(docs, text, kind, upTo, limit)
        PROVE  hits \subseteq Range(docs)
    BY <2>1 DEF Results, kSubset, Hit, Range
  <2> QED BY <1>2, <2>1
<1> HIDE DEF messages, docs, older
<1>8. ASSUME NEW s \in sources
      PROVE  Placeholders(s.raw) \subseteq Stuck(messages) \cup session.entries
  BY <1>3, <1>5, <1>6, <1>7, SourcesKnown DEF RInv, BackInv
<1>9. session.entries \subseteq redactor'.entries
  <2> DEFINE new == NewEntries(sources)
  <2> HIDE DEF new
  <2>1. redactor' = [redactor EXCEPT !.entries = @ \cup new] BY <1>2 DEF new
  <2> QED BY <2>1 DEF TInv
<1>10. Unmarked(session') /\ Unmarked(file')
  BY <1>1, <1>4 DEF Unmarked, BackInv
<1>11. CASE sent' = {Piece(s) : s \in sources}
  <2>1. \A s \in sources : Piece(s).raw = s.raw BY DEF Piece
  <2> HIDE DEF sources
  <2> QED BY <1>4, <1>8, <1>9, <1>10, <1>11, <2>1 DEF BackInv
<1>12. CASE sent' = {} BY <1>10, <1>12 DEF BackInv
<1> QED BY <1>2, <1>3, <1>11, <1>12

LEMMA BackNext ==
    IInv /\ EditsInv /\ TInv /\ RInv /\ BackInv /\ [Next]_vars => BackInv'
<1> SUFFICES ASSUME IInv, EditsInv, TInv, RInv, BackInv, [Next]_vars
             PROVE  BackInv'
  OBVIOUS
<1>0. /\ SessionOK(session) /\ SessionOK(file)
      /\ Unmarked(session) /\ Unmarked(file)
      /\ (pc # "posted" => sent = {})
  BY DEF TInv, BackInv
<1>14. ASSUME sent' = {}, Unmarked(session'), Persist(session') PROVE BackInv'
  BY <1>0, <1>14, PersistUnmarked DEF BackInv
<1>15. ASSUME session'.system = session.system,
             session'.memory = session.memory
      PROVE  Unmarked(session')
  BY <1>0, <1>15 DEF Unmarked
<1>1. ASSUME NEW text \in Notes, Remember(text) PROVE BackInv'
  <2>1. /\ session' = [session EXCEPT !.memory = Append(@, text)]
        /\ sent' = sent /\ pc = "idle" /\ Persist(session')
    BY <1>1 DEF Remember, MayEdit
  <2>2. /\ session'.system = session.system
        /\ session'.memory = Append(session.memory, text)
    BY <1>0, <2>1 DEF SessionOK
  <2>3. IsSeq(session.memory) BY <1>0 DEF SessionOK, NotesOK
  <2>4. Range(session'.memory) = Range(session.memory) \cup {text}
    BY <2>2, <2>3, AppendPlaces
  <2>5. Placeholders(text) = {} BY TypedText, NoneTyped DEF TypedTexts
  <2>6. Unmarked(session') BY <1>0, <2>2, <2>4, <2>5 DEF Unmarked
  <2> QED BY <1>0, <1>14, <2>1, <2>6
<1>2. ASSUME NEW term, AddTerm(term) PROVE BackInv'
  <2>1. /\ session' = [session EXCEPT !.terms = (redactor').terms,
                                      !.entries = redactor.entries]
        /\ sent' = sent /\ pc = "idle" /\ Persist(session')
    BY <1>2 DEF AddTerm, MayEdit
  <2>2. session'.system = session.system /\ session'.memory = session.memory
    BY <1>0, <2>1 DEF SessionOK
  <2> QED BY <1>0, <1>14, <1>15, <2>1, <2>2
<1>3. ASSUME NEW text \in Prompts, SetSystem(text) PROVE BackInv'
  <2>1. /\ session' = [session EXCEPT !.system = text]
        /\ sent' = sent /\ pc = "idle" /\ Persist(session')
    BY <1>3 DEF SetSystem, MayEdit
  <2>2. session'.system = text /\ session'.memory = session.memory
    BY <1>0, <2>1 DEF SessionOK
  <2>3. Placeholders(text) = {} BY TypedText, NoneTyped DEF TypedTexts
  <2>4. Unmarked(session') BY <1>0, <2>2, <2>3 DEF Unmarked
  <2> QED BY <1>0, <1>14, <2>1, <2>4
<1>4. CASE Save
  <2>1. /\ session' = session /\ sent' = sent /\ pc = "idle"
        /\ Persist(session')
    BY <1>4 DEF Save, Persist
  <2> QED BY <1>0, <1>14, <2>1
<1>5. ASSUME NEW text \in Inputs, Send(text) PROVE BackInv'
  BY <1>5, NextHolds, SendBack
<1>6. ASSUME NEW piece, Answer(piece) PROVE BackInv'
  <2>1. PICK messages : session' = [session EXCEPT !.messages = messages]
    BY <1>6 DEF Answer
  <2>2. session'.system = session.system /\ session'.memory = session.memory
    BY <1>0, <2>1 DEF SessionOK
  <2>3. file' = file /\ sent' = {} BY <1>6 DEF Answer
  <2> QED BY <1>0, <1>15, <2>2, <2>3 DEF BackInv
<1>7. CASE Fail BY <1>0, <1>7 DEF Fail, Quiet, BackInv
<1>8. ASSUME NEW summary, Finish(summary) PROVE BackInv'
  <2>1. /\ session' = [session EXCEPT !.summary = summary,
                                      !.terms = redactor.terms,
                                      !.entries = redactor.entries]
        /\ sent' = {} /\ Persist(session')
    BY <1>8 DEF Finish, Quiet
  <2>2. session'.system = session.system /\ session'.memory = session.memory
    BY <1>0, <2>1 DEF SessionOK
  <2> QED BY <1>14, <1>15, <2>1, <2>2
<1>9. CASE LocalSummary BY <1>8, <1>9 DEF LocalSummary
<1>10. CASE NaiveSummary BY <1>8, <1>10 DEF NaiveSummary
<1>11. CASE Abandon BY <1>0, <1>11 DEF Abandon, Quiet, BackInv
<1>12. CASE Restart
  <2>1. PICK system \in {file.system} \cup Prompts :
          Started([file EXCEPT !.system = system])
    BY <1>12 DEF Restart
  <2> DEFINE saved == [file EXCEPT !.system = system]
             terms == Merged(saved.terms, ExtraTerms)
  <2>2. session' = [saved EXCEPT !.terms = terms] /\ Persist(session')
    BY <2>1 DEF Started
  <2> HIDE DEF terms
  <2>3. session'.system = system /\ session'.memory = file.memory
    BY <1>0, <2>2 DEF SessionOK
  <2>4. Placeholders(system) = {}
    <3>1. \A t \in Prompts : Placeholders(t) = {}
      BY TypedText, NoneTyped DEF TypedTexts
    <3> QED BY <1>0, <2>1, <3>1 DEF Unmarked
  <2>5. sent' = {} BY <1>12 DEF Restart, Quiet
  <2>6. Unmarked(session') BY <1>0, <2>3, <2>4 DEF Unmarked
  <2> QED BY <1>14, <2>2, <2>5, <2>6
<1>13. CASE UNCHANGED vars BY <1>13 DEF vars, BackInv
<1> QED
  BY <1>1, <1>2, <1>3, <1>4, <1>5, <1>6, <1>7, <1>9, <1>10, <1>11, <1>12,
     <1>13 DEF Next

(* A text that is neither torn nor tangled is woven from what was typed.   *)
LEMMA CutWeaves ==
    ASSUME NEW cut, IsText(cut), ~Torn(cut), ~Tangled(cut),
           NEW map, EntriesOK(map), Placeholders(cut) \subseteq map
    PROVE  \E T : Plain(T) /\ cut \in Seq(Woven(T)) /\ Whole(cut)
<1> DEFINE All == Range(cut) \cup UNION {Range(e.of) : e \in Placeholders(cut)}
           T == {x \in All : ~IsPlaceholderPiece(x)}
<1>1. Plain(T) BY DEF Plain
<1>2. cut \in Seq(Range(cut)) /\ DOMAIN cut = 1..Len(cut) /\ Len(cut) \in Nat
  BY TextLetters, TextIsSeq, SeqPlaces
<1>3. \A e : Hash(e) = Placeholder(e)[2] BY PlaceholderPieces
<1>4. Whole(cut)
  <2>1. ASSUME NEW k \in 1..Len(cut), IsTag(cut[k])
        PROVE  k + 1 \in 1..Len(cut) /\ cut[k + 1] = Hash(cut[k])
    <3>1. k # Len(cut) /\ cut[k + 1] = Placeholder(cut[k])[2]
      BY <1>2, <2>1 DEF Torn
    <3> HIDE DEF T, All
    <3>2. k # Len(cut) /\ Len(cut) \in Nat BY <1>2, <3>1
    <3>3. k + 1 \in 1..Len(cut) BY <3>2
    <3> QED BY <1>3, <3>1, <3>3
  <2>2. ASSUME NEW k \in 1..Len(cut), IsPlaceholderPiece(cut[k]), ~IsTag(cut[k])
        PROVE  k - 1 \in 1..Len(cut) /\ IsTag(cut[k - 1])
    <3>1. k # 1 /\ IsTag(cut[k - 1]) BY <1>2, <2>2 DEF Torn
    <3>2. k - 1 \in 1..Len(cut) BY <1>2, <3>1
    <3> QED BY <3>1, <3>2
  <2> QED BY <2>1, <2>2 DEF Whole
<1>5. ASSUME NEW e \in Placeholders(cut) PROVE e \in Shallow(T)
  <2>1. e \in map /\ e.c \in DOMAIN Length /\ e.of # <<>> /\ IsText(e.of)
        /\ e = Entry(e.c, e.of)
    BY DEF EntriesOK
  <2>2. e.of \in Seq(Range(e.of)) BY <2>1, TextLetters
  <2>3. \A x \in Range(e.of) : ~IsPlaceholderPiece(x) BY DEF Tangled
  <2>4. Range(e.of) \subseteq T BY <2>3
  <2> HIDE DEF T
  <2>5. e.of \in Seq(T) BY <2>2, <2>4, SeqMonotonic
  <2> QED BY <2>1, <2>5 DEF Shallow
<1>6. ASSUME NEW k \in 1..Len(cut), IsTag(cut[k]) PROVE cut[k] \in Shallow(T)
  <2>1. cut[k] \in Placeholders(cut) BY <1>2, <1>6 DEF Placeholders, Range
  <2> HIDE DEF T
  <2> QED BY <1>5, <2>1
<1>7. ASSUME NEW k \in 1..Len(cut) PROVE cut[k] \in Woven(T)
  <2>1. CASE ~IsPlaceholderPiece(cut[k])
    <3>1. cut[k] \in Range(cut) BY <1>2 DEF Range
    <3>2. cut[k] \in T BY <2>1, <3>1
    <3> QED BY <3>2 DEF Woven, Made
  <2>2. CASE IsTag(cut[k])
    <3> HIDE DEF T
    <3> QED BY <1>6, <2>2 DEF Woven, Made
  <2>3. CASE IsPlaceholderPiece(cut[k]) /\ ~IsTag(cut[k])
    <3> HIDE DEF T
    <3>1. k - 1 \in 1..Len(cut) /\ IsTag(cut[k - 1]) BY <1>4, <2>3 DEF Whole
    <3>2. (k - 1) + 1 = k BY <1>2
    <3>3. cut[k] = Hash(cut[k - 1]) BY <1>4, <3>1, <3>2 DEF Whole
    <3>4. cut[k - 1] \in Shallow(T) BY <1>6, <3>1
    <3> QED BY <3>3, <3>4 DEF Woven, Made
  <2> QED BY <2>1, <2>2, <2>3
<1> HIDE DEF T
<1>8. cut \in Seq(Woven(T))
  <2>1. Range(cut) \subseteq Woven(T) BY <1>2, <1>7 DEF Range
  <2> QED BY <1>2, <2>1, SeqMonotonic
<1> QED BY <1>1, <1>4, <1>8

(* What is tangled before it is redacted is so afterwards.                 *)
LEMMA TangledBefore ==
    ASSUME NEW t, IsText(t), Tangled(t), NEW terms, IsSeq(terms)
    PROVE  Tangled(Redact(t, terms))
<1> DEFINE r == Redacted(t, terms)
           other == IF Expanded(r.text) = 0 THEN 1 ELSE 0
<1>1. Expanded(r.text) # other OBVIOUS
<1>2. t \in Seq(Range(t)) /\ Len(terms) \in Nat BY TextLetters, SeqPlaces
<1>3. Plain({}) BY DEF Plain
<1> HIDE DEF other, r
<1>4. Tangled(r.text) \/ Weaves({}, other, r, {})
  BY <1>2, <1>3, RedactedWeaves DEF r
<1> QED BY <1>1, <1>4 DEF Weaves, Redact, r

LEMMA FrontAppended ==
    ASSUME NEW s, IsSeq(s), NEW x
    PROVE  Front(Append(s, x)) = s
<1> DEFINE longer == Append(s, x)
           S == Range(s) \cup {x}
<1>1. s \in Seq(S) /\ longer \in Seq(S) /\ Len(s) \in Nat
  <2>1. s \in Seq(Range(s)) /\ Len(s) \in Nat BY SeqOfItsOwn, SeqPlaces
  <2>2. Range(s) \subseteq S /\ x \in S OBVIOUS
  <2> HIDE DEF S
  <2>3. s \in Seq(S) BY <2>1, <2>2, SeqMonotonic
  <2> QED BY <2>1, <2>2, <2>3, AppendProperties
<1>2. Len(longer) = Len(s) + 1 /\ \A i \in 1..Len(s) : longer[i] = s[i]
  BY AppendPlaces
<1> HIDE DEF longer, S
<1>3. Front(longer) = SubSeq(longer, 1, Len(longer) - 1) BY DEF Front
<1>4. Len(longer) - 1 = Len(s) BY <1>1, <1>2
<1> DEFINE front == SubSeq(longer, 1, Len(s))
<1>5. /\ front \in Seq(S) /\ Len(front) = Len(s)
      /\ \A i \in 1..Len(s) : front[i] = longer[i]
  <2>1. Len(s) <= Len(longer) BY <1>1, <1>2
  <2>2. /\ front \in Seq(S)
        /\ Len(front) = IF 1 <= Len(s) THEN Len(s) - 1 + 1 ELSE 0
        /\ \A i \in 1..(Len(s) - 1 + 1) : front[i] = longer[1 + i - 1]
    BY <1>1, <2>1, Cut
  <2>3. Len(front) = Len(s) BY <1>1, <2>2
  <2>4. \A i \in 1..Len(s) : i \in 1..(Len(s) - 1 + 1) /\ 1 + i - 1 = i
    BY <1>1
  <2> HIDE DEF front
  <2> QED BY <2>2, <2>3, <2>4
<1> HIDE DEF front
<1>6. front = s BY <1>1, <1>2, <1>5, SeqEqual
<1> QED BY <1>3, <1>4, <1>6 DEF front, longer

LEMMA AnswerReturns ==
    ASSUME EditsInv, TInv, BackInv, NEW piece \in sent, Answer(piece)
    PROVE  UserSeesOriginals'
<1> DEFINE cut == Take(piece.raw, piece.kept)
           terms == redactor.terms
           map == redactor.entries
           stuck == Placeholders(cut) \cap Stuck(session.messages)
<1>1. PICK out \in Rehydrations(piece.text, map) :
          /\ shown' = out
          /\ session' = [session EXCEPT !.messages =
                Append(session.messages, Message("assistant", out))]
  BY DEF Answer
<1>2. /\ IsText(piece.raw) /\ piece.kept \in Nat /\ IsText(cut)
      /\ piece.text = Redact(cut, terms)
      /\ Entries(cut, terms) \subseteq map /\ EntriesOK(map)
      /\ SessionOK(session) /\ session.entries \subseteq map
  BY DEF TInv, SentOK
<1>3. IsSeq(terms) /\ Len(terms) \in Nat BY SeqPlaces, TermsKnown
<1>4. reply' = piece /\ session'.entries = session.entries
  BY <1>1, <1>2 DEF Answer, SessionOK
<1>5. Front(session'.messages) = session.messages
  <2>1. IsSeq(session.messages) BY <1>2 DEF SessionOK, MessagesOK
  <2>2. session'.messages =
            Append(session.messages, Message("assistant", out))
    BY <1>1, <1>2 DEF SessionOK
  <2> QED BY <2>1, <2>2, FrontAppended
<1>6. Placeholders(cut) \subseteq Stuck(session.messages) \cup map
  BY <1>2, FewerTaken DEF BackInv
<1>7. ASSUME ~Torn(cut), ~Tangled(piece.text), stuck \subseteq session.entries
      PROVE  out = Expanded(cut)
  <2>1. Placeholders(cut) \subseteq map BY <1>2, <1>6, <1>7
  <2> HIDE DEF cut, terms, map
  <2>2. ~Tangled(cut) BY <1>2, <1>3, <1>7, TangledBefore
  <2>3. PICK T : Plain(T) /\ cut \in Seq(Woven(T)) /\ Whole(cut)
    BY <1>2, <1>7, <2>1, <2>2, CutWeaves
  <2> DEFINE M == UNION {Range(e.of) : e \in map}
  <2>4. ASSUME NEW e \in map PROVE IsTag(e) /\ e.of \in Seq(M)
    <3>1. e.c \in DOMAIN Length /\ e.of # <<>> /\ IsText(e.of)
      BY <1>2 DEF EntriesOK
    <3>2. e.of \in Seq(Range(e.of)) BY <3>1, TextLetters
    <3>3. Range(e.of) \subseteq M OBVIOUS
    <3> HIDE DEF M
    <3>4. e.of \in Seq(M) BY <3>2, <3>3, SeqMonotonic
    <3> QED BY <3>1, <3>4 DEF IsTag, IsPlaceholderPiece
  <2>5. IsFiniteSet(map) BY <1>2 DEF EntriesOK
  <2> HIDE DEF M
  <2>6. Rehydrations(Redact(cut, terms), map) \subseteq {Expanded(cut)}
    BY <1>2, <1>3, <1>7, <2>1, <2>3, <2>4, <2>5, RoundTrips
  <2> QED BY <1>1, <1>2, <2>6
<1> HIDE DEF map, terms
<1> QED BY <1>1, <1>4, <1>5, <1>7 DEF UserSeesOriginals

LEMMA OriginalsInit == Init => UserSeesOriginals
BY DEF Init, UserSeesOriginals

(* Only an answer shows anything. *)
LEMMA OriginalsNext ==
    EditsInv /\ TInv /\ BackInv /\ UserSeesOriginals /\ [Next]_vars
        => UserSeesOriginals'
<1> SUFFICES ASSUME EditsInv, TInv, BackInv, UserSeesOriginals, [Next]_vars
             PROVE  UserSeesOriginals'
  OBVIOUS
<1>1. ASSUME NEW text \in Notes, Remember(text) PROVE pc' # "summary"
  BY <1>1 DEF Remember, MayEdit
<1>2. ASSUME NEW term \in Terms, AddTerm(term) PROVE pc' # "summary"
  BY <1>2 DEF AddTerm, MayEdit
<1>3. ASSUME NEW text \in Prompts, SetSystem(text) PROVE pc' # "summary"
  BY <1>3 DEF SetSystem, MayEdit
<1>4. ASSUME NEW text \in Inputs, Send(text) PROVE pc' # "summary"
  BY <1>4 DEF Send
<1>5. ASSUME NEW piece \in sent, Answer(piece) PROVE UserSeesOriginals'
  BY <1>5, AnswerReturns
<1>6. CASE UNCHANGED vars BY <1>6 DEF vars, UserSeesOriginals
<1>7. pc' # "summary" => UserSeesOriginals' BY DEF UserSeesOriginals
<1>8. Fail \/ Save \/ LocalSummary \/ NaiveSummary \/ Abandon \/ Restart
            => pc' # "summary"
  BY DEF Fail, Save, LocalSummary, NaiveSummary, Finish, Abandon, Restart, Quiet
<1> QED
  BY <1>1, <1>2, <1>3, <1>4, <1>5, <1>6, <1>7, <1>8 DEF Next

-----------------------------------------------------------------------------
(* The theorems.                                                           *)

(* The index names what it holds truly, once and without a gap, and holds  *)
(* all a rebuilt one would, for any caps, texts, failures and restarts.    *)
THEOREM IndexTrue == Spec => []IndexAgrees
<1>1. IInv => IndexAgrees BY DEF IInv
<1> QED BY <1>1, Invariance, PTL

(* No prompt recalls a message that it carries verbatim, for any number of *)
(* recent messages and whatever the search prefers.                        *)
THEOREM RecallsOld == Spec => []RecallIsOld
<1>1. IInv => RecallIsOld BY DEF IInv
<1> QED BY <1>1, Invariance, PTL

(* What was remembered, set or hidden stays while the client runs, and is  *)
(* in the file once any save after it has succeeded, for every client      *)
(* started on it: no turn, no merge of terms and no other save that fails  *)
(* takes it out, for any terms on the command line.  The file lacks at     *)
(* most the last messages.  What no save since has put in the file may be  *)
(* lost, as may all of it by a save that is cut off.                       *)
THEOREM EditsStay == Spec => []EditsSurvive
<1>1. IInv /\ EditsInv => EditsSurvive
  <2> SUFFICES ASSUME IInv, EditsInv PROVE EditsSurvive OBVIOUS
  <2>1. IsPrefix(file.messages, session.messages)
    BY BeginsIsPrefix DEF IInv, Shaped, EditsInv
  <2>2. /\ session.memory = edits.memory /\ session.system = edits.system
        /\ file.memory = durable.memory /\ file.system = durable.system
        /\ Covers(file.terms, durable.terms)
        /\ redactor.terms = session.terms
    BY DEF EditsInv, Reflects
  <2>3. Covers(redactor.terms, edits.terms \cup Range(ExtraTerms))
    BY TermsKnown
  <2> QED BY <2>1, <2>2, <2>3 DEF EditsSurvive, Covers
<1> QED BY <1>1, Invariance, EditsHold, PTL

(* Whatever is typed, remembered, asked to hide, recalled, summarised or   *)
(* restarted, every text of a session is made of pieces that somebody      *)
(* typed, line breaks and placeholders; the caps of the session hold, the  *)
(* redactor knows every entry of the session, and a prompt is on its way   *)
(* only while its answer is awaited.                                       *)
THEOREM TextsTyped == Spec => []TypeOK
<1>1. TInv => TypeOK
  <2> SUFFICES ASSUME TInv PROVE TypeOK OBVIOUS
  <2>1. \A s \in {session, file} : SessionOK(s) BY DEF TInv
  <2> QED BY <2>1, SessionTyped DEF TInv, ToldOK, TypeOK
<1> QED BY <1>1, TypesHold, PTL

(* The naive summary is the end of what there was, fits the window and     *)
(* fills it when characters are single bytes, for any window, any limit    *)
(* of a line and any redacted text.                                        *)
THEOREM WindowKeeps == Spec => []SummaryWindow
<1>1. EditsInv /\ TInv => SummaryWindow
  <2> SUFFICES ASSUME EditsInv, TInv PROVE SummaryWindow OBVIOUS
  <2> DEFINE all == session.summary \o Lines(session.messages)
  <2>1. IsText(all) BY SummariesText, JoinedText
  <2> HIDE DEF all
  <2>2. PICK S : all \in Seq(S) BY <2>1 DEF IsText
  <2>3. /\ IsSuffix(Window(all), all) /\ Bytes(Window(all)) <= SummaryBytes
        /\ Bytes(all) = Len(all)
                => Len(Window(all)) = Lesser(Len(all), SummaryBytes)
    BY <2>2, WindowFits
  <2> QED BY <2>3 DEF SummaryWindow, all
<1> QED BY <1>1, EditsHold, TypesHold, PTL

(* The placeholders a turn puts into the summary have their entries in the *)
(* redactor while it runs and in the file once it is saved: no failed turn *)
(* and no restart leaves a summary that cannot be resolved, whichever      *)
(* summarizer wrote it and however much of it the window kept.             *)
THEOREM SummaryResolves == Spec => []Resolvable
<1>1. TInv /\ RInv => Resolvable
  BY DEF TInv, RInv, Holds, Resolvable
<1>2. IInv /\ EditsInv /\ TInv /\ RInv /\ [Next]_vars => RInv' BY RNext
<1> QED
  BY <1>1, <1>2, RInit, Invariance, EditsHold, TypesHold, PTL DEF Spec

(* No run of typed pieces of a prompt on its way matches a rule or is one  *)
(* of the terms to hide, and no piece of it is of a secret, unless an      *)
(* earlier placeholder or the end of a snippet cut into that: for any      *)
(* texts, any terms in any order, any limits and whatever was recalled or  *)
(* summarised before.                                                      *)
THEOREM NoSecretLeaves == Spec => []NoSecretSent
<1>1. EditsInv /\ TInv => NoSecretSent
  BY SentHidesMatches, SentHidesParts DEF NoSecretSent
<1> QED BY <1>1, EditsHold, TypesHold, PTL

(* What the provider repeats of what it was sent, in this turn or out of   *)
(* what older turns left in the messages and the summary, is shown to the  *)
(* user as what it stands for, word for word and without placeholders: for *)
(* any text, any terms, any map the session has gathered and any order the *)
(* hash map of the redactor has, unless a cut tore a placeholder, a pass   *)
(* hit one or the session has never known one.                             *)
THEOREM OriginalsReturn == Spec => []UserSeesOriginals
<1>1. /\ IInv /\ EditsInv /\ TInv /\ RInv /\ [Next]_vars => RInv'
      /\ IInv /\ EditsInv /\ TInv /\ RInv /\ BackInv /\ [Next]_vars => BackInv'
      /\ EditsInv /\ TInv /\ BackInv /\ UserSeesOriginals /\ [Next]_vars
            => UserSeesOriginals'
  BY RNext, BackNext, OriginalsNext
<1>2. Init => RInv /\ BackInv /\ UserSeesOriginals
  BY RInit, BackInit, OriginalsInit
<1> QED BY <1>1, <1>2, Invariance, EditsHold, TypesHold, PTL DEF Spec
=============================================================================
