----------------------------- MODULE LoggerProofs -----------------------------
(***************************************************************************)
(* Proofs about Logger, for any tasks and any number of messages: what is  *)
(* out, in which order, what is dropped, and that the log runs dry.        *)
(***************************************************************************)
EXTENDS Logger, SequenceFacts, FiniteSetTheorems, TLAPS

Message == {"plain", "promised", "kept", "broken"}

TypeOK ==
    /\ logged \in Seq(Message)
    /\ chain \in Seq(Nat)
    /\ fate \in {"fulfilled", "rejected"}
    /\ livePromises \in Int
    /\ output \in Seq(Nat)
    /\ waits \in [Tasks -> {None} \cup (Nat \X Nat)]
    /\ result \in [Tasks -> {"none", "answered", "rejected"}]

\* What is out, then what waits in the chain, ascends: a message logged next
\* belongs behind both.
Ascends(s) == \A i, j \in 1 .. Len(s) : i < j => s[i] < s[j]
InLine ==
    /\ Ascends(output) /\ Ascends(chain)
    /\ \A i \in 1 .. Len(output), j \in 1 .. Len(chain) : output[i] < chain[j]
    /\ \A i \in 1 .. Len(output) : output[i] <= Len(logged)
    /\ \A j \in 1 .. Len(chain) : chain[j] <= Len(logged)

\* livePromises is 0 only if nothing is in the chain; once the chain is
\* rejected it is never 0 again.
LivesAreInChain ==
    /\ fate = "fulfilled" => livePromises = Len(chain)
    /\ fate = "rejected" => livePromises > 0

\* Until the chain is rejected no message is lost.
NoneIsLost ==
    fate = "fulfilled" =>
        \A n \in 1 .. Len(logged) : \/ \E i \in 1 .. Len(output) : output[i] = n
                                    \/ \E j \in 1 .. Len(chain) : chain[j] = n

\* A task that returned waits for all of the chain that was logged by then.
WaitsForItsOwn ==
    \A t \in Tasks :
        waits[t] # None =>
            /\ waits[t][2] <= Len(logged)
            /\ fate = "fulfilled" =>
                  \A j \in 1 .. Len(chain) : chain[j] <= waits[t][2] => chain[j] < waits[t][1]

\* What AnswerIsLast says of an answered task; and it has waited.
Answered ==
    \A t \in Tasks :
        result[t] = "answered" =>
            /\ waits[t] # None
            /\ \A n \in 1 .. waits[t][2] : \E i \in 1 .. Len(output) : output[i] = n

IInv == TypeOK /\ InLine /\ LivesAreInChain /\ NoneIsLost /\ WaitsForItsOwn /\ Answered

-----------------------------------------------------------------------------
(* Types.                                                                  *)

LEMMA ElementFacts ==
    ASSUME NEW s \in Seq(Nat)
    PROVE  /\ Len(s) \in Nat
           /\ \A i \in 1 .. Len(s) : s[i] \in Nat
           /\ \A n : n \in ToSet(s) <=> \E i \in 1 .. Len(s) : s[i] = n
<1>1. Len(s) \in Nat /\ DOMAIN s = 1 .. Len(s) /\ \A i \in 1 .. Len(s) : s[i] \in Nat
    BY LenProperties, ElementOfSeq
<1> QED
    BY <1>1 DEF ToSet

LEMMA InitTyped == Init => TypeOK
<1> SUFFICES ASSUME Init PROVE TypeOK
    OBVIOUS
<1>1. logged \in Seq(Message) /\ chain \in Seq(Nat) /\ output \in Seq(Nat)
    BY EmptySeq DEF Init
<1> QED
    BY <1>1 DEF Init, TypeOK

LEMMA NextTyped == TypeOK /\ [Next]_vars => TypeOK'
<1> SUFFICES ASSUME TypeOK, [Next]_vars PROVE TypeOK'
    OBVIOUS
<1> USE DEF TypeOK
<1>1. Len(logged) \in Nat
    BY LenProperties
<1>2. ASSUME NEW m \in {"plain", "promised"}, Log(m) PROVE TypeOK'
  <2>1. logged' \in Seq(Message)
      BY <1>2, AppendProperties DEF Log, Message
  <2>2. Append(chain, Len(logged) + 1) \in Seq(Nat) /\ Append(output, Len(logged) + 1) \in Seq(Nat)
      BY <1>1, AppendProperties
  <2>3. chain' \in Seq(Nat) /\ output' \in Seq(Nat) /\ livePromises' \in Int
    <3>1. CASE Behind(m)
      <4>1. /\ livePromises' = livePromises + 1 /\ output' = output
            /\ chain' = Append(chain, Len(logged) + 1)
          BY <1>2, <3>1 DEF Log
      <4>2. livePromises + 1 \in Int
          OBVIOUS
      <4> QED
          BY <2>2, <4>1, <4>2
    <3>2. CASE ~Behind(m)
        BY <1>2, <2>2, <3>2 DEF Log
    <3> QED
        BY <3>1, <3>2
  <2> QED
      BY <1>2, <2>1, <2>3 DEF Log
<1>3. ASSUME NEW n \in DOMAIN logged, Resolve(n) PROVE TypeOK'
  <2>1. PICK s \in {"kept", "broken"} : logged' = [logged EXCEPT ![n] = s]
      BY <1>3 DEF Resolve
  <2>2. n \in 1 .. Len(logged)
      BY LenProperties
  <2>3. logged' \in Seq(Message)
      BY <2>1, <2>2, ExceptSeq DEF Message
  <2> QED
      BY <1>3, <2>3 DEF Resolve
<1>4. CASE Out
  <2>1. chain # <<>> /\ chain' = Tail(chain)
      BY <1>4 DEF Out
  <2>2. Head(chain) \in Nat /\ chain' \in Seq(Nat)
      BY <2>1, ShiftFacts
  <2>3. Append(output, Head(chain)) \in Seq(Nat)
      BY <2>2, AppendProperties
  <2> QED
    <3>1. CASE fate = "rejected"
        BY <1>4, <2>2, <3>1 DEF Out
    <3>2. CASE fate # "rejected"
      <4>1. output' = Append(output, Head(chain)) /\ livePromises' = livePromises - 1
          BY <1>4, <3>2 DEF Out
      <4>2. livePromises - 1 \in Int
          OBVIOUS
      <4> QED
          BY <1>4, <2>2, <2>3, <4>1, <4>2 DEF Out
    <3> QED
        BY <3>1, <3>2
<1>5. CASE Rejected
  <2>1. chain # <<>> /\ chain' = Tail(chain)
      BY <1>5 DEF Rejected
  <2>2. chain' \in Seq(Nat)
      BY <2>1, ShiftFacts
  <2> QED
      BY <1>5, <2>2 DEF Rejected
<1>6. ASSUME NEW t \in Tasks, Return(t) PROVE TypeOK'
  <2>1. LastOfChain \in Nat
    <3>1. CASE chain = <<>>
        BY <3>1 DEF LastOfChain
    <3>2. CASE chain # <<>>
      <4>1. Len(chain) \in 1 .. Len(chain)
          BY <3>2, ShiftFacts
      <4>2. chain[Len(chain)] \in Nat
          BY <4>1, ElementFacts
      <4> QED
          BY <3>2, <4>2 DEF LastOfChain, Last
    <3> QED
        BY <3>1, <3>2
  <2> QED
      BY <1>1, <1>6, <2>1 DEF Return
<1>7. ASSUME NEW t \in Tasks, Answer(t) PROVE TypeOK'
    BY <1>7 DEF Answer
<1>8. CASE UNCHANGED vars
    BY <1>8 DEF vars
<1> QED
    BY <1>2, <1>3, <1>4, <1>5, <1>6, <1>7, <1>8 DEF Next

-----------------------------------------------------------------------------
(* The invariant, one lemma per kind of step.                              *)

LEMMA InitInv == Init => IInv
<1> SUFFICES ASSUME Init PROVE IInv
    OBVIOUS
<1>1. Len(logged) = 0 /\ Len(chain) = 0 /\ Len(output) = 0
    BY DEF Init
<1> QED
    BY <1>1, InitTyped
    DEF Init, IInv, InLine, Ascends, LivesAreInChain, NoneIsLost, WaitsForItsOwn, Answered

\* A message that has to wait joins the chain.
LEMMA LogBehind ==
    ASSUME IInv, TypeOK', NEW m \in {"plain", "promised"}, Log(m), Behind(m)
    PROVE  IInv'
<1> DEFINE n == Len(logged) + 1
<1>1. /\ logged' = Append(logged, m) /\ chain' = Append(chain, n)
      /\ livePromises' = livePromises + 1
      /\ UNCHANGED <<output, fate, waits, result>>
    BY DEF Log
<1>2. Len(logged') = n /\ Len(logged) \in Nat /\ n \in Nat
    BY <1>1, PushFacts DEF IInv, TypeOK, Message
<1>3. /\ Len(chain) \in Nat /\ Len(chain') = Len(chain) + 1
      /\ \A i \in 1 .. Len(chain) : chain'[i] = chain[i] /\ chain[i] \in Nat
      /\ chain'[Len(chain) + 1] = n
    BY <1>1, <1>2, PushFacts DEF IInv, TypeOK
<1>4. Len(output) \in Nat /\ \A i \in 1 .. Len(output) : output[i] \in Nat
    BY ElementFacts DEF IInv, TypeOK
<1> HIDE DEF n
<1>5. InLine'
    BY <1>1, <1>2, <1>3, <1>4 DEF IInv, InLine, Ascends, n
<1>6. LivesAreInChain'
    BY <1>1, <1>3 DEF IInv, TypeOK, LivesAreInChain
<1>7. NoneIsLost'
  <2> SUFFICES ASSUME fate' = "fulfilled", NEW k \in 1 .. Len(logged')
               PROVE  \/ \E i \in 1 .. Len(output') : output'[i] = k
                      \/ \E j \in 1 .. Len(chain') : chain'[j] = k
      BY DEF NoneIsLost
  <2>1. CASE k = n
      BY <1>3, <2>1
  <2>2. CASE k \in 1 .. Len(logged)
      BY <1>1, <1>3, <2>2 DEF IInv, NoneIsLost
  <2> QED
      BY <1>2, <2>1, <2>2 DEF n
<1>8. WaitsForItsOwn'
    BY <1>1, <1>2, <1>3 DEF IInv, TypeOK, WaitsForItsOwn, n
<1>9. Answered'
    BY <1>1 DEF IInv, Answered
<1> QED
    BY <1>5, <1>6, <1>7, <1>8, <1>9 DEF IInv

\* A plain message with nothing before it in the chain is out at once.
LEMMA LogStraight ==
    ASSUME IInv, TypeOK', NEW m \in {"plain", "promised"}, Log(m), ~Behind(m)
    PROVE  IInv'
<1> DEFINE n == Len(logged) + 1
<1>1. /\ logged' = Append(logged, m) /\ output' = Append(output, n)
      /\ UNCHANGED <<livePromises, chain, fate, waits, result>>
      /\ ~(livePromises > 0)
    BY DEF Log, Behind
<1>2. Len(logged') = n /\ Len(logged) \in Nat /\ n \in Nat
    BY <1>1, PushFacts DEF IInv, TypeOK, Message
<1>3. /\ Len(output) \in Nat /\ Len(output') = Len(output) + 1
      /\ \A i \in 1 .. Len(output) : output'[i] = output[i] /\ output[i] \in Nat
      /\ output'[Len(output) + 1] = n
    BY <1>1, <1>2, PushFacts DEF IInv, TypeOK
<1>4. fate = "fulfilled" /\ Len(chain) = 0
  <2>1. Len(chain) \in Nat
      BY ElementFacts DEF IInv, TypeOK
  <2> QED
      BY <1>1, <2>1 DEF IInv, TypeOK, LivesAreInChain
<1> HIDE DEF n
<1>5. InLine'
    BY <1>1, <1>2, <1>3, <1>4 DEF IInv, InLine, Ascends, n
<1>6. LivesAreInChain'
    BY <1>1 DEF IInv, LivesAreInChain
<1>7. NoneIsLost'
  <2> SUFFICES ASSUME NEW k \in 1 .. Len(logged') PROVE \E i \in 1 .. Len(output') : output'[i] = k
      BY DEF NoneIsLost
  <2>1. CASE k = n
      BY <1>3, <2>1
  <2>2. CASE k \in 1 .. Len(logged)
      BY <1>3, <1>4, <2>2 DEF IInv, NoneIsLost
  <2> QED
      BY <1>2, <2>1, <2>2 DEF n
<1>8. WaitsForItsOwn'
    BY <1>1, <1>2, <1>4 DEF IInv, TypeOK, WaitsForItsOwn, n
<1>9. Answered'
  <2> SUFFICES ASSUME NEW t \in Tasks, result'[t] = "answered"
               PROVE  /\ waits'[t] # None
                      /\ \A k \in 1 .. waits'[t][2] : \E i \in 1 .. Len(output') : output'[i] = k
      BY DEF Answered
  <2>1. /\ waits[t] # None
        /\ \A k \in 1 .. waits[t][2] : \E i \in 1 .. Len(output) : output[i] = k
      BY <1>1 DEF IInv, Answered
  <2> QED
      BY <1>1, <1>3, <2>1
<1> QED
    BY <1>5, <1>6, <1>7, <1>8, <1>9 DEF IInv

\* The head of the chain leaves it: is it out, or is it dropped?
LEMMA ChainMoves ==
    ASSUME IInv, TypeOK', chain # <<>>, chain' = Tail(chain),
           UNCHANGED <<logged, waits, result>>,
           \/ /\ fate = "fulfilled" /\ fate' = fate
              /\ livePromises' = livePromises - 1 /\ output' = Append(output, Head(chain))
           \/ /\ fate' = "rejected" /\ UNCHANGED <<livePromises, output>>
    PROVE  IInv'
<1>1. /\ Head(chain) = chain[1] /\ Head(chain) \in Nat
      /\ Len(chain) \in Nat \ {0} /\ Len(chain') = Len(chain) - 1
      /\ \A i \in 1 .. Len(chain) - 1 : chain'[i] = chain[i + 1]
      /\ \A i \in 1 .. Len(chain) : chain[i] \in Nat
    BY ShiftFacts DEF IInv, TypeOK
<1>2. /\ Len(output) \in Nat /\ \A i \in 1 .. Len(output) : output[i] \in Nat
      /\ Len(logged) \in Nat
    BY ElementFacts, LenProperties DEF IInv, TypeOK
<1>3. \A i \in 1 .. Len(chain') : i + 1 \in 1 .. Len(chain) /\ 1 < i + 1
    BY <1>1
<1>4. ASSUME fate = "fulfilled", fate' = fate,
             livePromises' = livePromises - 1, output' = Append(output, Head(chain))
      PROVE  IInv'
  <2>1. /\ Len(output') = Len(output) + 1
        /\ \A i \in 1 .. Len(output) : output'[i] = output[i]
        /\ output'[Len(output) + 1] = chain[1]
      BY <1>1, <1>4, PushFacts DEF IInv, TypeOK
  <2>2. InLine'
    <3>1. Ascends(output)'
      <4> SUFFICES ASSUME NEW i \in 1 .. Len(output'), NEW j \in 1 .. Len(output'), i < j
                   PROVE  output'[i] < output'[j]
          BY DEF Ascends
      <4>1. i \in 1 .. Len(output) /\ j \in 1 .. Len(output) + 1
          BY <1>2, <2>1
      <4>2. CASE j = Len(output) + 1
          BY <1>1, <2>1, <4>1, <4>2 DEF IInv, InLine
      <4>3. CASE j \in 1 .. Len(output)
          BY <2>1, <4>1, <4>3 DEF IInv, InLine, Ascends
      <4> QED
          BY <1>2, <4>1, <4>2, <4>3
    <3>2. Ascends(chain)'
        BY <1>1, <1>3 DEF IInv, InLine, Ascends
    <3>3. \A i \in 1 .. Len(output'), j \in 1 .. Len(chain') : output'[i] < chain'[j]
      <4> SUFFICES ASSUME NEW i \in 1 .. Len(output'), NEW j \in 1 .. Len(chain')
                   PROVE  output'[i] < chain'[j]
          OBVIOUS
      <4>1. chain'[j] = chain[j + 1] /\ j + 1 \in 1 .. Len(chain) /\ chain[1] < chain[j + 1]
          BY <1>1, <1>3 DEF IInv, InLine, Ascends
      <4>2. CASE i = Len(output) + 1
          BY <2>1, <4>1, <4>2
      <4>3. CASE i \in 1 .. Len(output)
          BY <2>1, <4>1, <4>3 DEF IInv, InLine
      <4> QED
          BY <1>2, <2>1, <4>2, <4>3
    <3>4. /\ \A i \in 1 .. Len(output') : output'[i] <= Len(logged)
          /\ \A j \in 1 .. Len(chain') : chain'[j] <= Len(logged)
      <4>1. ASSUME NEW i \in 1 .. Len(output') PROVE output'[i] <= Len(logged)
        <5>1. CASE i = Len(output) + 1
            BY <1>1, <2>1, <5>1 DEF IInv, InLine
        <5>2. CASE i \in 1 .. Len(output)
            BY <2>1, <5>2 DEF IInv, InLine
        <5> QED
            BY <1>2, <2>1, <5>1, <5>2
      <4>2. ASSUME NEW j \in 1 .. Len(chain') PROVE chain'[j] <= Len(logged)
          BY <1>1, <1>3 DEF IInv, InLine
      <4> QED
          BY <4>1, <4>2
    <3> QED
        BY <3>1, <3>2, <3>3, <3>4 DEF InLine
  <2>3. LivesAreInChain'
      BY <1>1, <1>4 DEF IInv, TypeOK, LivesAreInChain
  <2>4. NoneIsLost'
    <3> SUFFICES ASSUME NEW n \in 1 .. Len(logged)
                 PROVE  \/ \E i \in 1 .. Len(output') : output'[i] = n
                        \/ \E j \in 1 .. Len(chain') : chain'[j] = n
        BY DEF NoneIsLost
    <3>1. CASE \E i \in 1 .. Len(output) : output[i] = n
        BY <1>2, <2>1, <3>1
    <3>2. ASSUME NEW j \in 1 .. Len(chain), chain[j] = n
          PROVE  \/ \E i \in 1 .. Len(output') : output'[i] = n
                 \/ \E i \in 1 .. Len(chain') : chain'[i] = n
      <4>1. CASE j = 1
          BY <1>2, <2>1, <3>2, <4>1
      <4>2. CASE j # 1
        <5>1. j - 1 \in 1 .. Len(chain) - 1 /\ (j - 1) + 1 = j
            BY <1>1, <4>2
        <5>2. j - 1 \in 1 .. Len(chain') /\ chain'[j - 1] = n
            BY <1>1, <3>2, <5>1
        <5> QED
            BY <5>2
      <4> QED
          BY <4>1, <4>2
    <3> QED
        BY <1>4, <3>1, <3>2 DEF IInv, NoneIsLost
  <2>5. WaitsForItsOwn'
      BY <1>1, <1>3, <1>4 DEF IInv, WaitsForItsOwn
  <2>6. Answered'
    <3> SUFFICES ASSUME NEW t \in Tasks, result'[t] = "answered"
                 PROVE  /\ waits'[t] # None
                        /\ \A k \in 1 .. waits'[t][2] : \E i \in 1 .. Len(output') : output'[i] = k
        BY DEF Answered
    <3>1. /\ waits[t] # None
          /\ \A k \in 1 .. waits[t][2] : \E i \in 1 .. Len(output) : output[i] = k
        BY DEF IInv, Answered
    <3> QED
        BY <1>2, <2>1, <3>1
  <2> QED
      BY <2>2, <2>3, <2>4, <2>5, <2>6 DEF IInv
<1>5. ASSUME fate' = "rejected", UNCHANGED <<livePromises, output>> PROVE IInv'
  <2>1. InLine'
      BY <1>1, <1>3, <1>5 DEF IInv, InLine, Ascends
  <2>2. LivesAreInChain'
    <3>1. livePromises' = livePromises
        BY <1>5
    <3>2. fate = "fulfilled" \/ fate = "rejected"
        BY DEF IInv, TypeOK
    <3>3. livePromises > 0
        BY <1>1, <3>2 DEF IInv, LivesAreInChain
    <3> QED
        BY <1>5, <3>1, <3>3 DEF LivesAreInChain
  <2>3. NoneIsLost' /\ Answered' /\ WaitsForItsOwn'
      BY <1>5 DEF IInv, NoneIsLost, Answered, WaitsForItsOwn
  <2> QED
      BY <2>1, <2>2, <2>3 DEF IInv
<1> QED
    BY <1>4, <1>5

\* The last of the chain is the greatest: a task that waits for it waits for
\* all that is in the chain.
LEMMA ReturnInv ==
    ASSUME IInv, TypeOK', NEW t \in Tasks, Return(t)
    PROVE  IInv'
<1>1. /\ waits' = [waits EXCEPT ![t] = <<LastOfChain, Len(logged)>>]
      /\ result[t] = "none"
      /\ UNCHANGED <<logged, chain, fate, livePromises, output, result>>
    BY DEF Return, Busy
<1>2. Len(chain) \in Nat /\ Len(logged) \in Nat /\ \A j \in 1 .. Len(chain) : chain[j] \in Nat
    BY ElementFacts, LenProperties DEF IInv, TypeOK
<1>3. \A j \in 1 .. Len(chain) : chain[j] < LastOfChain
  <2> SUFFICES ASSUME NEW j \in 1 .. Len(chain) PROVE chain[j] < LastOfChain
      OBVIOUS
  <2>1. chain # <<>> /\ Len(chain) \in 1 .. Len(chain)
      BY <1>2
  <2>2. LastOfChain = chain[Len(chain)] + 1
      BY <2>1 DEF LastOfChain, Last
  <2>3. chain[j] <= chain[Len(chain)]
      BY <1>2, <2>1 DEF IInv, InLine, Ascends
  <2> QED
      BY <1>2, <2>1, <2>2, <2>3
<1>4. /\ waits'[t] = <<LastOfChain, Len(logged)>>
      /\ \A u \in Tasks : u # t => waits'[u] = waits[u]
    BY <1>1 DEF IInv, TypeOK
<1>5. WaitsForItsOwn'
    BY <1>1, <1>2, <1>3, <1>4 DEF IInv, WaitsForItsOwn
<1>6. InLine' /\ LivesAreInChain' /\ NoneIsLost'
    BY <1>1 DEF IInv, InLine, Ascends, LivesAreInChain, NoneIsLost
<1>7. Answered'
    BY <1>1, <1>4 DEF IInv, Answered
<1> QED
    BY <1>5, <1>6, <1>7 DEF IInv

\* What the task waited for is out, unless the chain was rejected.
LEMMA AnswerInv ==
    ASSUME IInv, TypeOK', NEW t \in Tasks, Answer(t)
    PROVE  IInv'
<1>1. /\ waits[t] # None
      /\ \A n \in ToSet(chain) : n >= waits[t][1]
      /\ result' = [result EXCEPT ![t] = IF fate = "fulfilled" THEN "answered" ELSE "rejected"]
      /\ UNCHANGED <<logged, chain, fate, livePromises, output, waits>>
    BY DEF Answer
<1>2. Len(logged) \in Nat /\ waits[t] \in Nat \X Nat /\ waits[t][2] <= Len(logged)
    BY <1>1, LenProperties DEF IInv, TypeOK, WaitsForItsOwn
<1>3. \A j \in 1 .. Len(chain) : chain[j] \in Nat /\ chain[j] >= waits[t][1]
    BY <1>1, ElementFacts DEF IInv, TypeOK
<1>4. ASSUME fate = "fulfilled", NEW n \in 1 .. waits[t][2]
      PROVE  \E i \in 1 .. Len(output) : output[i] = n
  <2>1. n \in 1 .. Len(logged) /\ n <= waits[t][2]
      BY <1>2
  <2>2. ~ \E j \in 1 .. Len(chain) : chain[j] = n
      BY <1>1, <1>2, <1>3, <1>4, <2>1 DEF IInv, WaitsForItsOwn
  <2> QED
      BY <1>4, <2>1, <2>2 DEF IInv, NoneIsLost
<1>5. Answered'
    BY <1>1, <1>4 DEF IInv, TypeOK, Answered
<1>6. InLine' /\ LivesAreInChain' /\ NoneIsLost' /\ WaitsForItsOwn'
    BY <1>1 DEF IInv, InLine, Ascends, LivesAreInChain, NoneIsLost, WaitsForItsOwn
<1> QED
    BY <1>5, <1>6 DEF IInv

LEMMA NextInv == IInv /\ [Next]_vars => IInv'
<1> SUFFICES ASSUME IInv, [Next]_vars PROVE IInv'
    OBVIOUS
<1>1. TypeOK'
    BY NextTyped DEF IInv
<1>2. ASSUME NEW m \in {"plain", "promised"}, Log(m) PROVE IInv'
    BY <1>1, <1>2, LogBehind, LogStraight
<1>3. ASSUME NEW n \in DOMAIN logged, Resolve(n) PROVE IInv'
  <2>1. PICK s \in {"kept", "broken"} : logged' = [logged EXCEPT ![n] = s]
      BY <1>3 DEF Resolve
  <2>2. n \in 1 .. Len(logged) /\ logged \in Seq(Message)
      BY LenProperties DEF IInv, TypeOK
  <2>3. Len(logged') = Len(logged)
      BY <2>1, <2>2, ExceptSeq DEF Message
  <2>4. UNCHANGED <<chain, fate, livePromises, output, waits, result>>
      BY <1>3 DEF Resolve
  <2> QED
      BY <1>1, <2>3, <2>4
      DEF IInv, InLine, Ascends, LivesAreInChain, NoneIsLost, WaitsForItsOwn, Answered
<1>4. CASE Out
    BY <1>1, <1>4, ChainMoves DEF Out, IInv, TypeOK
<1>5. CASE Rejected
    BY <1>1, <1>5, ChainMoves DEF Rejected
<1>6. ASSUME NEW t \in Tasks, Return(t) \/ Answer(t) PROVE IInv'
    BY <1>1, <1>6, ReturnInv, AnswerInv
<1>7. CASE UNCHANGED vars
    BY <1>1, <1>7
    DEF vars, IInv, InLine, Ascends, LivesAreInChain, NoneIsLost, WaitsForItsOwn, Answered
<1> QED
    BY <1>2, <1>3, <1>4, <1>5, <1>6, <1>7 DEF Next

-----------------------------------------------------------------------------
(* Theorems.                                                               *)

\* What was logged is out, or in the chain, in the order of the calls of log.
THEOREM Invariance == Spec => []IInv
    BY InitInv, NextInv, PTL DEF Spec

\* Whenever promises of messages are kept, messages come out in their order
\* (log, src/logger.ts).
THEOREM OutInOrder == Spec => []InOrder
<1>1. IInv => InOrder
  <2> SUFFICES ASSUME IInv, NEW k \in 1 .. Len(output) - 1 PROVE output[k] < output[k + 1]
      BY DEF InOrder
  <2>1. Len(output) \in Nat
      BY ElementFacts DEF IInv, TypeOK
  <2>2. k \in 1 .. Len(output) /\ k + 1 \in 1 .. Len(output) /\ k < k + 1
      BY <2>1
  <2> QED
      BY <2>2 DEF IInv, InLine, Ascends
<1> QED
    BY <1>1, Invariance, PTL

\* A task of the pool answers after all that was logged before it returned is
\* out (performTask, src/worker-task.ts).
THEOREM OutBeforeAnswer == Spec => []AnswerIsLast
<1>1. IInv => AnswerIsLast
    BY ElementFacts DEF IInv, TypeOK, Answered, AnswerIsLast
<1> QED
    BY <1>1, Invariance, PTL

-----------------------------------------------------------------------------
(* What comes of the messages: the safety half of AllOut.                  *)

\* The chain is rejected by a promise that was broken.
RejectedByBroken == fate = "rejected" => "broken" \in ToSet(logged)

\* A message is out or in the chain, if every promise that was logged is kept.
NothingIsDropped ==
    "broken" \in ToSet(logged) \/ ToSet(output) \cup ToSet(chain) = DOMAIN logged

\* Messages are numbered from 1.
Numbered ==
    /\ \A j \in 1 .. Len(chain) : chain[j] > 0
    /\ \A j \in 1 .. Len(output) : output[j] > 0

LEMMA NumbersGoOn ==
    ASSUME NEW s \in Seq(Nat), \A j \in 1 .. Len(s) : s[j] > 0
    PROVE  /\ \A n \in Nat : n > 0 => \A j \in 1 .. Len(Append(s, n)) : Append(s, n)[j] > 0
           /\ s # <<>> => Head(s) > 0 /\ \A j \in 1 .. Len(Tail(s)) : Tail(s)[j] > 0
<1>1. ASSUME NEW n \in Nat, n > 0, NEW j \in 1 .. Len(Append(s, n)) PROVE Append(s, n)[j] > 0
  <2>1. j \in 1 .. Len(s) \/ j = Len(s) + 1
      BY <1>1, PushFacts
  <2> QED
      BY <1>1, <2>1, PushFacts
<1>2. ASSUME s # <<>> PROVE Head(s) > 0 /\ \A j \in 1 .. Len(Tail(s)) : Tail(s)[j] > 0
  <2> PICK r : r = Tail(s)
      OBVIOUS
  <2>1. /\ Head(s) = s[1] /\ Len(s) \in Nat \ {0} /\ Len(r) = Len(s) - 1
        /\ \A j \in 1 .. Len(s) - 1 : r[j] = s[j + 1]
      BY <1>2, ShiftFacts
  <2>2. \A j \in 1 .. Len(r) : j + 1 \in 1 .. Len(s) /\ r[j] = s[j + 1]
      BY <2>1
  <2> QED
      BY <2>1, <2>2
<1> QED
    BY <1>1, <1>2

LEMMA NumbersStay == TypeOK /\ Numbered /\ [Next]_vars => Numbered'
<1> SUFFICES ASSUME TypeOK, Numbered, [Next]_vars PROVE Numbered'
    OBVIOUS
<1>1. Len(logged) \in Nat /\ chain \in Seq(Nat) /\ output \in Seq(Nat)
    BY LenProperties DEF TypeOK
<1>2. PICK n \in Nat : n = Len(logged) + 1 /\ n > 0
    BY <1>1
<1>3. /\ chain' = chain \/ chain' = Append(chain, n) \/ (chain # <<>> /\ chain' = Tail(chain))
      /\ \/ output' = output \/ output' = Append(output, n)
         \/ chain # <<>> /\ output' = Append(output, Head(chain))
    BY <1>2 DEF Next, Log, Resolve, Out, Rejected, Return, Answer, vars
<1>4. chain # <<>> => Head(chain) \in Nat /\ Head(chain) > 0
    BY <1>1, NumbersGoOn, ShiftFacts DEF Numbered
<1>5. \A j \in 1 .. Len(chain') : chain'[j] > 0
    BY <1>1, <1>2, <1>3, NumbersGoOn DEF Numbered
<1>6. \A j \in 1 .. Len(output') : output'[j] > 0
    BY <1>1, <1>2, <1>3, <1>4, NumbersGoOn DEF Numbered
<1> QED
    BY <1>5, <1>6 DEF Numbered

LEMMA AreLogged ==
    ASSUME IInv, Numbered
    PROVE  ToSet(output) \cup ToSet(chain) \subseteq DOMAIN logged
<1>1. DOMAIN logged = 1 .. Len(logged) /\ Len(logged) \in Nat
    BY LenProperties DEF IInv, TypeOK
<1>2. /\ \A j \in 1 .. Len(chain) : chain[j] \in 1 .. Len(logged)
      /\ \A j \in 1 .. Len(output) : output[j] \in 1 .. Len(logged)
    BY <1>1, ElementFacts DEF IInv, TypeOK, InLine, Numbered
<1> QED
    BY <1>1, <1>2, ElementFacts DEF IInv, TypeOK

LEMMA BrokenStays ==
    ASSUME TypeOK, [Next]_vars
    PROVE  \/ logged' = logged
           \/ "broken" \in ToSet(logged) => "broken" \in ToSet(logged')
<1>1. /\ DOMAIN logged = 1 .. Len(logged) /\ Len(logged) \in Nat
      /\ "broken" \in ToSet(logged) => \E k \in 1 .. Len(logged) : logged[k] = "broken"
    BY LenProperties DEF TypeOK, ToSet
<1>2. ASSUME NEW m \in {"plain", "promised"}, Log(m), NEW k \in 1 .. Len(logged), logged[k] = "broken"
      PROVE  "broken" \in ToSet(logged')
  <2>1. logged' = Append(logged, m) /\ m \in Message
      BY <1>2 DEF Log, Message
  <2>2. logged' \in Seq(Message) /\ Len(logged') = Len(logged) + 1 /\ logged'[k] = "broken"
      BY <1>2, <2>1, PushFacts DEF TypeOK
  <2>3. k \in DOMAIN logged'
      BY <1>1, <2>2, LenProperties
  <2> QED
      BY <2>2, <2>3 DEF ToSet
<1>3. ASSUME NEW n \in DOMAIN logged, Resolve(n), NEW k \in 1 .. Len(logged), logged[k] = "broken"
      PROVE  "broken" \in ToSet(logged')
  <2>1. k # n /\ DOMAIN logged' = DOMAIN logged /\ logged'[k] = "broken"
      BY <1>1, <1>3 DEF Resolve
  <2> QED
      BY <1>1, <2>1 DEF ToSet
<1>4. \/ logged' = logged
      \/ \E m \in {"plain", "promised"} : Log(m)
      \/ \E n \in DOMAIN logged : Resolve(n)
    BY DEF Next, Out, Rejected, Return, Answer, vars
<1> QED
    BY <1>1, <1>2, <1>3, <1>4

\* A message is dropped only behind a promise that was broken: every other one
\* is out, or in the chain, which the main thread works off (log,
\* src/logger.ts).
THEOREM DroppedBehindBrokenOnly == Spec => []NothingIsDropped
<1>1. Init => RejectedByBroken /\ Numbered
    BY EmptySeq DEF Init, RejectedByBroken, Numbered
<1>2. ASSUME IInv, RejectedByBroken, Numbered, [Next]_vars PROVE RejectedByBroken' /\ Numbered'
  <2>0. Numbered'
      BY <1>2, NumbersStay DEF IInv
  <2>1. fate' = fate \/ Rejected
      BY <1>2 DEF Next, Log, Resolve, Out, Return, Answer, vars
  <2>2. CASE fate' = fate
      BY <1>2, <2>0, <2>2, BrokenStays DEF IInv, RejectedByBroken
  <2>3. CASE Rejected
    <3>1. chain # <<>> /\ logged[Head(chain)] = "broken" /\ logged' = logged
        BY <2>3 DEF Rejected
    <3>2. Head(chain) = chain[1] /\ 1 \in 1 .. Len(chain)
        BY <1>2, <3>1, ShiftFacts DEF IInv, TypeOK
    <3>3. Head(chain) \in ToSet(chain)
        BY <1>2, <3>2, ElementFacts DEF IInv, TypeOK
    <3>4. Head(chain) \in DOMAIN logged
        BY <1>2, <3>3, AreLogged
    <3> QED
        BY <2>0, <3>1, <3>4 DEF RejectedByBroken, ToSet
  <2> QED
      BY <2>1, <2>2, <2>3
<1>3. IInv /\ RejectedByBroken /\ Numbered => NothingIsDropped
  <2> SUFFICES ASSUME IInv, "broken" \notin ToSet(logged), RejectedByBroken, Numbered,
                      NEW n \in DOMAIN logged
               PROVE  n \in ToSet(output) \cup ToSet(chain)
      BY AreLogged DEF NothingIsDropped
  <2>1. fate = "fulfilled" /\ n \in 1 .. Len(logged)
      BY LenProperties DEF IInv, TypeOK, RejectedByBroken
  <2> QED
      BY <2>1, ElementFacts DEF IInv, TypeOK, NoneIsLost
<1> QED
    BY <1>1, <1>2, <1>3, Invariance, PTL DEF Spec

\* Once the chain is rejected nothing that is logged is ever out: livePromises
\* does not get back to 0, so that plain messages go to the chain as well.
THEOREM SilentOnceRejected == Spec => [][fate = "rejected" => fate' = fate /\ output' = output]_vars
<1>1. ASSUME IInv, Next, fate = "rejected" PROVE fate' = fate /\ output' = output
  <2>1. livePromises > 0
      BY <1>1 DEF IInv, LivesAreInChain
  <2> QED
      BY <1>1, <2>1 DEF Next, Log, Behind, Resolve, Out, Rejected, Return, Answer
<1>2. IInv /\ [Next]_vars => [fate = "rejected" => fate' = fate /\ output' = output]_vars
    BY <1>1
<1> QED
    BY <1>2, Invariance, PTL DEF Spec

-----------------------------------------------------------------------------
(* The log runs dry: apart from what is logged anew there is only so much  *)
(* to do.                                                                  *)

Promised == {n \in DOMAIN logged : logged[n] = "promised"}
AtWork == {t \in Tasks : waits[t] = None}
Unanswered == {t \in Tasks : result[t] = "none"}
Left == Cardinality(Promised) + Len(chain) + Cardinality(AtWork) + Cardinality(Unanswered)
GetsOn == Left \in Nat /\ Left' \in Nat /\ Left' < Left

LEMMA LeftIsFinite ==
    ASSUME IsFiniteSet(Tasks), TypeOK
    PROVE  /\ IsFiniteSet(Promised) /\ IsFiniteSet(AtWork) /\ IsFiniteSet(Unanswered)
           /\ Cardinality(Promised) \in Nat /\ Len(chain) \in Nat
           /\ Cardinality(AtWork) \in Nat /\ Cardinality(Unanswered) \in Nat
<1>1. Len(logged) \in Nat /\ DOMAIN logged = 1 .. Len(logged) /\ Len(chain) \in Nat
    BY LenProperties DEF TypeOK
<1>2. IsFiniteSet(1 .. Len(logged))
    BY <1>1, FS_Interval
<1>3. IsFiniteSet(Promised)
    BY <1>1, <1>2, FS_Subset DEF Promised
<1>4. IsFiniteSet(AtWork) /\ IsFiniteSet(Unanswered)
    BY FS_Subset DEF AtWork, Unanswered
<1> QED
    BY <1>1, <1>3, <1>4, FS_CardinalityType

LEMMA OneFewer ==
    ASSUME NEW S, NEW T, IsFiniteSet(S), T \subseteq S, NEW x \in S, x \notin T
    PROVE  Cardinality(T) \in Nat /\ Cardinality(S) \in Nat /\ Cardinality(T) < Cardinality(S)
    BY FS_Subset, FS_CardinalityType

\* Every step of the log but a call of log gets on: a promise is settled, the
\* chain gets shorter, a task returns or is answered, and none of the four is
\* undone.  So an end comes to all that was logged and to every task, unless
\* somebody goes on logging (log, src/logger.ts; performTask,
\* src/worker-task.ts).
THEOREM LogRunsDry ==
    ASSUME IsFiniteSet(Tasks)
    PROVE  Spec => [][GetsOn \/ \E message \in {"plain", "promised"} : Log(message)]_vars
<1>1. ASSUME TypeOK, TypeOK', Next
      PROVE  GetsOn \/ \E message \in {"plain", "promised"} : Log(message)
  <2> USE <1>1
  <2>0. /\ IsFiniteSet(Promised) /\ IsFiniteSet(AtWork) /\ IsFiniteSet(Unanswered)
        /\ Cardinality(Promised) \in Nat /\ Len(chain) \in Nat
        /\ Cardinality(AtWork) \in Nat /\ Cardinality(Unanswered) \in Nat
      BY LeftIsFinite
  <2>1. ASSUME NEW n \in DOMAIN logged, Resolve(n) PROVE GetsOn
    <3>1. PICK s \in {"kept", "broken"} : logged' = [logged EXCEPT ![n] = s]
        BY <2>1 DEF Resolve
    <3>2. n \in 1 .. Len(logged) /\ DOMAIN logged = 1 .. Len(logged)
        BY LenProperties DEF TypeOK
    <3>3. DOMAIN logged' = DOMAIN logged /\ logged'[n] = s
          /\ \A m \in DOMAIN logged : m # n => logged'[m] = logged[m]
        BY <3>1, <3>2, ExceptSeq DEF TypeOK
    <3>4. Promised' \subseteq Promised /\ n \in Promised /\ n \notin Promised'
        BY <2>1, <3>3 DEF Resolve, Promised
    <3>5. Cardinality(Promised') \in Nat /\ Cardinality(Promised') < Cardinality(Promised)
        BY <2>0, <3>4, OneFewer
    <3>6. chain' = chain /\ AtWork' = AtWork /\ Unanswered' = Unanswered
        BY <2>1 DEF Resolve, AtWork, Unanswered
    <3> QED
        BY <2>0, <3>5, <3>6 DEF GetsOn, Left
  <2>2. CASE Out \/ Rejected
    <3>1. chain # <<>> /\ chain' = Tail(chain)
        BY <2>2 DEF Out, Rejected
    <3>2. Len(chain') = Len(chain) - 1 /\ Len(chain) > 0 /\ Len(chain') \in Nat
        BY <2>0, <3>1, ShiftFacts DEF TypeOK
    <3>3. Promised' = Promised /\ AtWork' = AtWork /\ Unanswered' = Unanswered
        BY <2>2 DEF Out, Rejected, Promised, AtWork, Unanswered
    <3> QED
        BY <2>0, <3>2, <3>3 DEF GetsOn, Left
  <2>3. ASSUME NEW t \in Tasks, Return(t) PROVE GetsOn
    <3>1. waits[t] = None /\ waits'[t] = <<LastOfChain, Len(logged)>>
          /\ \A u \in Tasks : u # t => waits'[u] = waits[u]
        BY <2>3 DEF Return, Busy, TypeOK
    <3>2. AtWork' \subseteq AtWork /\ t \in AtWork /\ t \notin AtWork'
      <4>1. waits'[t] # None
          BY <3>1 DEF None
      <4> QED
          BY <3>1, <4>1 DEF AtWork, None
    <3>3. Cardinality(AtWork') \in Nat /\ Cardinality(AtWork') < Cardinality(AtWork)
        BY <2>0, <3>2, OneFewer
    <3>4. chain' = chain /\ Promised' = Promised /\ Unanswered' = Unanswered
        BY <2>3 DEF Return, Promised, Unanswered
    <3> QED
        BY <2>0, <3>3, <3>4 DEF GetsOn, Left
  <2>4. ASSUME NEW t \in Tasks, Answer(t) PROVE GetsOn
    <3>1. result[t] = "none" /\ result'[t] # "none"
          /\ \A u \in Tasks : u # t => result'[u] = result[u]
        BY <2>4 DEF Answer, TypeOK
    <3>2. Unanswered' \subseteq Unanswered /\ t \in Unanswered /\ t \notin Unanswered'
        BY <3>1 DEF Unanswered
    <3>3. Cardinality(Unanswered') \in Nat /\ Cardinality(Unanswered') < Cardinality(Unanswered)
        BY <2>0, <3>2, OneFewer
    <3>4. chain' = chain /\ Promised' = Promised /\ AtWork' = AtWork
        BY <2>4 DEF Answer, Promised, AtWork
    <3> QED
        BY <2>0, <3>3, <3>4 DEF GetsOn, Left
  <2> QED
      BY <2>1, <2>2, <2>3, <2>4 DEF Next
<1>2. IInv /\ [Next]_vars =>
          [GetsOn \/ \E message \in {"plain", "promised"} : Log(message)]_vars
    BY <1>1, NextTyped DEF IInv
<1> QED
    BY <1>2, Invariance, PTL DEF Spec
=============================================================================
