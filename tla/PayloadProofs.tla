--------------------------- MODULE PayloadProofs ----------------------------
(***************************************************************************)
(* Proofs about what an application publishes through the Cayenne layer:   *)
(* the strings of a data array stay intact, and the payload that           *)
(* CayenneMQTTPublishDataArray puts together is the text of the pairs,     *)
(* with the length that was counted for it.                                *)
(***************************************************************************)
EXTENDS Messages, SequenceTheorems, WellFoundedInduction, TLAPS

(* Every set of natural numbers has a least element, and so induction can  *)
(* be written with sets.                                                   *)
LEMMA LeastNatural ==
    ASSUME NEW T, T \subseteq Nat, T # {}
    PROVE  \E m \in T : \A k \in T : m <= k
<1> DEFINE R == OpToRel(<, Nat)
<1>1. IsWellFoundedOn(R, Nat)
  BY NatLessThanWellFounded, Zenon
<1>2. \A x, y \in Nat : <<x, y>> \in R <=> x < y
  BY DEF OpToRel
<1> HIDE DEF R
<1>3. PICK m \in T : \A y \in T : ~(<<y, m>> \in R)
  BY <1>1, WFMin, Zenon
<1>4. ASSUME NEW k \in T PROVE m <= k
  <2>1. m \in Nat /\ k \in Nat /\ ~(<<k, m>> \in R)
    BY <1>3
  <2>2. ~(k < m)
    BY <1>2, <2>1, Zenon
  <2> QED  BY <2>1, <2>2
<1> QED  BY <1>4

(* Induction on the natural numbers, for a set. *)
LEMMA SetInduction ==
    ASSUME NEW S, 0 \in S, \A n \in Nat : n \in S => n + 1 \in S
    PROVE  Nat \subseteq S
<1> SUFFICES ASSUME Nat \ S # {} PROVE FALSE
  OBVIOUS
<1>1. PICK m \in Nat \ S : \A k \in Nat \ S : m <= k
  BY LeastNatural, Zenon
<1>2. m # 0 /\ m - 1 \in Nat
  BY <1>1
<1>3. m - 1 \in S
  BY <1>1, <1>2
<1>4. (m - 1) + 1 \in S
  BY <1>2, <1>3
<1> QED  BY <1>1, <1>4

-----------------------------------------------------------------------------
(* The data array. *)

ArrayInv == ArrayTypeOK /\ StringsIntact

(* The room a string takes, and where a copy of it leaves the buffer as it *)
(* was.                                                                    *)
LEMMA SizeFacts ==
    ASSUME NEW s \in String
    PROVE  /\ Size(s) \in Nat
           /\ s = Null => Size(s) = 0
           /\ s # Null => s \in Seq(Char) /\ Len(s) \in Nat /\ Size(s) = Len(s) + 1
BY LenProperties DEF Size, String

(* A copy leaves what lies before it. *)
LEMMA CopyKeeps ==
    ASSUME NEW b \in [Offsets -> Char \cup {Nul}], NEW at \in Nat, NEW s \in String,
           at + Size(s) <= bufferSize
    PROVE  /\ Copied(b, at, s) \in [Offsets -> Char \cup {Nul}]
           /\ \A k \in Offsets : k < at => Copied(b, at, s)[k] = b[k]
<1>1. CASE s = Null
  BY <1>1 DEF Copied
<1>2. CASE s # Null
  <2>1. s \in Seq(Char) /\ Len(s) \in Nat
    BY <1>2, SizeFacts
  <2>2. ASSUME NEW k \in Offsets
        PROVE  (IF at <= k /\ k < at + Len(s) THEN s[k - at + 1]
                ELSE IF k = at + Len(s) THEN Nul ELSE b[k]) \in Char \cup {Nul}
    <3>1. CASE at <= k /\ k < at + Len(s)
      <4>1. k - at + 1 \in 1..Len(s)
        BY <2>1, <3>1 DEF Offsets
      <4>2. s[k - at + 1] \in Char
        BY <2>1, <4>1, LenProperties
      <4> QED  BY <3>1, <4>2
    <3>2. CASE ~(at <= k /\ k < at + Len(s))
      BY <3>2
    <3> QED  BY <3>1, <3>2
  <2>3. \A k \in Offsets : k < at => ~(at <= k) /\ k # at + Len(s)
    BY <2>1 DEF Offsets
  <2> QED  BY <1>2, <2>2, <2>3 DEF Copied
<1> QED  BY <1>1, <1>2

(* A copy can be read back. *)
LEMMA CopyReads ==
    ASSUME NEW b \in [Offsets -> Char \cup {Nul}], NEW at \in Nat, NEW s \in Seq(Char),
           at + Len(s) < bufferSize
    PROVE  /\ \A i \in 1..Len(s) : Copied(b, at, s)[at + i - 1] = s[i]
           /\ Copied(b, at, s)[at + Len(s)] = Nul
<1>1. s # Null /\ Len(s) \in Nat /\ bufferSize \in Nat
  BY DataArrayAssumption, LenProperties
<1>2. Copied(b, at, s) = [k \in Offsets |->
            IF at <= k /\ k < at + Len(s) THEN s[k - at + 1]
            ELSE IF k = at + Len(s) THEN Nul
            ELSE b[k]]
  BY <1>1 DEF Copied
<1>3. ASSUME NEW i \in 1..Len(s)
      PROVE  Copied(b, at, s)[at + i - 1] = s[i]
  <2>1. /\ at + i - 1 \in Offsets
        /\ at <= at + i - 1 /\ at + i - 1 < at + Len(s)
        /\ (at + i - 1) - at + 1 = i
    BY <1>1 DEF Offsets
  <2> QED  BY <1>2, <2>1
<1>4. at + Len(s) \in Offsets /\ ~(at + Len(s) < at + Len(s))
  BY <1>1 DEF Offsets
<1> QED  BY <1>2, <1>3, <1>4

(* A pointer still points at its string when the buffer has changed only   *)
(* behind it.                                                              *)
LEMMA PointsAtKept ==
    ASSUME NEW p \in Pointer, NEW s \in String, NEW b, NEW c,
           NEW m \in Nat, NEW n \in Nat, m <= n, m <= bufferSize,
           \A k \in Offsets : k < m => c[k] = b[k],
           PointsAt(p, s, b, m)
    PROVE  PointsAt(p, s, c, n)
<1>1. CASE s = Null
  BY <1>1 DEF PointsAt
<1>2. CASE s # Null
  <2>1. p # Null /\ p \in Nat /\ Len(s) \in Nat /\ bufferSize \in Nat
    BY <1>2, SizeFacts, DataArrayAssumption DEF PointsAt, Pointer, Offsets
  <2>2. p + Len(s) < m /\ p + Len(s) \in Offsets
    BY <1>2, <2>1 DEF PointsAt, Offsets
  <2>3. ASSUME NEW i \in 1..Len(s)
        PROVE  c[p + i - 1] = s[i]
    <3>1. p + i - 1 \in Offsets /\ p + i - 1 < m
      BY <2>1, <2>2 DEF Offsets
    <3> QED  BY <1>2, <3>1 DEF PointsAt
  <2>4. c[p + Len(s)] = Nul /\ p + Len(s) < n
    BY <1>2, <2>1, <2>2 DEF PointsAt
  <2> QED  BY <1>2, <2>1, <2>3, <2>4 DEF PointsAt
<1> QED  BY <1>1, <1>2

(* After a copy of a string its pointer points at it. *)
LEMMA CopyPoints ==
    ASSUME NEW b \in [Offsets -> Char \cup {Nul}], NEW at \in Nat, NEW s \in String,
           at + Size(s) <= bufferSize
    PROVE  /\ s # Null => at \in Offsets
           /\ PointsAt(PointerTo(at, s), s, Copied(b, at, s), at + Size(s))
<1>1. CASE s = Null
  BY <1>1 DEF PointsAt, PointerTo
<1>2. CASE s # Null
  <2>1. s \in Seq(Char) /\ Len(s) \in Nat /\ Size(s) = Len(s) + 1 /\ bufferSize \in Nat
    BY <1>2, SizeFacts, DataArrayAssumption
  <2>2. at + Len(s) < bufferSize /\ at + Len(s) < at + Size(s) /\ at \in Offsets
    BY <2>1 DEF Offsets
  <2>3. PointerTo(at, s) = at /\ at # Null
    BY <1>2, DataArrayAssumption DEF PointerTo
  <2>4. /\ \A i \in 1..Len(s) : Copied(b, at, s)[at + i - 1] = s[i]
        /\ Copied(b, at, s)[at + Len(s)] = Nul
    BY <2>1, <2>2, CopyReads
  <2> QED  BY <1>2, <2>2, <2>3, <2>4 DEF PointsAt
<1> QED  BY <1>1, <1>2

-----------------------------------------------------------------------------
(* Adding a pair keeps the strings that are there, and adds two more. *)
LEMMA AddInv ==
    ASSUME ArrayInv, NEW p \in Pair, CayenneDataArrayAdd(p)
    PROVE  ArrayInv'
<1> DEFINE first == Copied(buffer, bufferIndex, p.unit)
           valueIndex == bufferIndex + Size(p.unit)
           both == Copied(first, valueIndex, p.value)
           last == valueIndex + Size(p.value)
           pair == [unit |-> PointerTo(bufferIndex, p.unit),
                    value |-> PointerTo(valueIndex, p.value)]
<1>1. /\ bufferIndex \in Nat /\ bufferSize \in Nat
      /\ buffer \in [Offsets -> Char \cup {Nul}]
      /\ values \in Seq([unit : Pointer, value : Pointer]) /\ added \in Seq(Pair)
      /\ p.unit \in String /\ p.value \in String
  BY DataArrayAssumption DEF ArrayInv, ArrayTypeOK, Pair
<1>2. /\ Size(p.unit) \in Nat /\ Size(p.value) \in Nat
      /\ valueIndex \in Nat /\ last \in Nat
      /\ bufferIndex <= valueIndex /\ valueIndex <= last /\ last <= bufferSize
  BY <1>1, SizeFacts, SMTT(60) DEF CayenneDataArrayAdd, Fits
<1>3. /\ buffer' = both /\ values' = Append(values, pair)
      /\ bufferIndex' = last /\ added' = Append(added, p)
  BY DEF CayenneDataArrayAdd
<1>4. /\ first \in [Offsets -> Char \cup {Nul}]
      /\ \A k \in Offsets : k < bufferIndex => first[k] = buffer[k]
      /\ p.unit # Null => bufferIndex \in Offsets
      /\ PointsAt(PointerTo(bufferIndex, p.unit), p.unit, first, valueIndex)
  <2>1. bufferIndex + Size(p.unit) <= bufferSize
    BY <1>1, <1>2
  <2>2. /\ first \in [Offsets -> Char \cup {Nul}]
        /\ \A k \in Offsets : k < bufferIndex => first[k] = buffer[k]
    BY <1>1, <2>1, CopyKeeps
  <2> QED  BY <1>1, <2>1, <2>2, CopyPoints
<1>5. /\ both \in [Offsets -> Char \cup {Nul}]
      /\ \A k \in Offsets : k < valueIndex => both[k] = first[k]
      /\ p.value # Null => valueIndex \in Offsets
      /\ PointsAt(PointerTo(valueIndex, p.value), p.value, both, last)
  <2> HIDE DEF first, valueIndex
  <2> QED  BY <1>1, <1>2, <1>4, CopyKeeps, CopyPoints
<1>6. PointerTo(bufferIndex, p.unit) \in Pointer /\ PointerTo(valueIndex, p.value) \in Pointer
  BY <1>4, <1>5 DEF PointerTo, Pointer
<1>7. \A k \in Offsets : k < bufferIndex => both[k] = buffer[k]
  <2> HIDE DEF first, valueIndex, both
  <2> QED  BY <1>1, <1>2, <1>4, <1>5, SMTT(60) DEF Offsets
<1>8. PointsAt(PointerTo(bufferIndex, p.unit), p.unit, both, last)
  <2> HIDE DEF first, valueIndex, both, last
  <2> QED  BY <1>1, <1>2, <1>4, <1>5, <1>6, PointsAtKept, SMTT(60)
<1> HIDE DEF first, valueIndex, both, last
<1>9. pair \in [unit : Pointer, value : Pointer]
  BY <1>6
<1> HIDE DEF pair
<1>10. ArrayTypeOK'
  BY <1>1, <1>2, <1>3, <1>5, <1>9, AppendProperties DEF ArrayTypeOK
<1>11. /\ Len(values) \in Nat /\ Len(added) = Len(values) /\ Len(values) < MaxValues
  BY <1>1, LenProperties, DataArrayAssumption, SMTT(60)
  DEF ArrayInv, StringsIntact, CayenneDataArrayAdd, Full
<1>12. /\ Len(values') = Len(values) + 1 /\ Len(added') = Len(values) + 1
       /\ \A i \in 1..Len(values) : values'[i] = values[i] /\ added'[i] = added[i]
       /\ values'[Len(values) + 1] = pair /\ added'[Len(values) + 1] = p
  BY <1>1, <1>3, <1>9, <1>11, AppendProperties
<1>13. ASSUME NEW i \in 1..Len(values')
       PROVE  /\ PointsAt(values'[i].unit, added'[i].unit, buffer', bufferIndex')
              /\ PointsAt(values'[i].value, added'[i].value, buffer', bufferIndex')
  <2>1. CASE i \in 1..Len(values)
    <3>1. /\ PointsAt(values[i].unit, added[i].unit, buffer, bufferIndex)
          /\ PointsAt(values[i].value, added[i].value, buffer, bufferIndex)
          /\ bufferIndex <= bufferSize
      BY <2>1 DEF ArrayInv, StringsIntact
    <3>2. /\ values[i].unit \in Pointer /\ values[i].value \in Pointer
          /\ added[i].unit \in String /\ added[i].value \in String
      <4>1. values[i] \in [unit : Pointer, value : Pointer]
        BY <1>1, <2>1, LenProperties, Zenon
      <4>2. added[i] \in Pair
        BY <1>1, <1>11, <2>1, LenProperties
      <4> QED  BY <4>1, <4>2 DEF Pair
    <3>3. bufferIndex <= last
      BY <1>1, <1>2
    <3>4. /\ PointsAt(values[i].unit, added[i].unit, both, last)
          /\ PointsAt(values[i].value, added[i].value, both, last)
      BY <1>1, <1>2, <1>7, <3>1, <3>2, <3>3, PointsAtKept, Zenon
    <3> QED  BY <1>3, <1>12, <2>1, <3>4
  <2>2. CASE i = Len(values) + 1
    BY <1>3, <1>5, <1>8, <1>12, <2>2, SMTT(60) DEF pair
  <2>3. i \in 1..Len(values) \/ i = Len(values) + 1
    BY <1>11, <1>12
  <2> QED  BY <2>1, <2>2, <2>3
<1>14. /\ bufferIndex' <= bufferSize
       /\ Len(values') = Len(added') /\ Len(values') <= MaxValues
  BY <1>2, <1>3, <1>11, <1>12, DataArrayAssumption, SMTT(60)
<1>15. StringsIntact'
  BY <1>13, <1>14 DEF StringsIntact
<1> QED  BY <1>10, <1>15 DEF ArrayInv

(* An array without pairs, as CayenneDataArrayInit leaves it. *)
LEMMA EmptyArray ==
    ASSUME bufferIndex = 0, buffer \in [Offsets -> Char \cup {Nul}], values = <<>>, added = <<>>
    PROVE  ArrayInv
<1>1. /\ values \in Seq([unit : Pointer, value : Pointer]) /\ added \in Seq(Pair)
      /\ Len(values) = 0 /\ Len(added) = 0
  BY EmptySeq
<1> QED  BY <1>1, DataArrayAssumption DEF ArrayInv, ArrayTypeOK, StringsIntact

(* The invariant of the array is kept by each of its operations. *)
LEMMA ArrayStep ==
    ASSUME ArrayInv, [ArrayNext]_arrayVars
    PROVE  ArrayInv'
<1>1. ASSUME NEW p \in Pair, CayenneDataArrayAdd(p) PROVE ArrayInv'
  BY <1>1, AddInv
<1>2. CASE CayenneDataArrayClear
  <2>1. buffer' \in [Offsets -> Char \cup {Nul}]
    BY <1>2 DEF CayenneDataArrayClear
  <2>2. /\ values' \in Seq([unit : Pointer, value : Pointer]) /\ added' \in Seq(Pair)
        /\ Len(values') = 0 /\ Len(added') = 0
    BY <1>2, EmptySeq DEF CayenneDataArrayClear
  <2> QED
    BY <1>2, <2>1, <2>2, DataArrayAssumption, SMTT(60)
    DEF CayenneDataArrayClear, ArrayInv, ArrayTypeOK, StringsIntact
<1>3. CASE UNCHANGED arrayVars
  BY <1>3 DEF arrayVars, ArrayInv, ArrayTypeOK, StringsIntact
<1> QED  BY <1>1, <1>2, <1>3 DEF ArrayNext, AddFails

(* The strings of a data array stay intact through every sequence of       *)
(* CayenneDataArrayAdd and CayenneDataArrayClear, and in the buffer.       *)
THEOREM ArrayStringsIntact == ArraySpec => []StringsIntact
<1>1. ArrayInit => ArrayInv
  <2> SUFFICES ASSUME ArrayInit PROVE ArrayInv
    OBVIOUS
  <2>1. buffer \in [Offsets -> Char \cup {Nul}]
    BY DEF ArrayInit
  <2> QED  BY <2>1, EmptyArray DEF ArrayInit
<1>2. ArrayInv /\ [ArrayNext]_arrayVars => ArrayInv'
  BY ArrayStep
<1>3. ArrayInv => StringsIntact
  BY DEF ArrayInv
<1> QED  BY <1>1, <1>2, <1>3, PTL DEF ArraySpec

(* In the layer an application fills an array only between BeginArray and  *)
(* EndArray.                                                               *)
CollectInv ==
    /\ ArrayInv
    /\ ~building => bufferIndex = 0 /\ values = <<>> /\ added = <<>>

(* It holds of the first state, *)
LEMMA CollectInit ==
    ASSUME Init
    PROVE  CollectInv
<1>1. /\ bufferIndex = 0 /\ values = <<>> /\ added = <<>>
      /\ buffer \in [Offsets -> Char \cup {Nul}]
  BY DEF Init, ArrayInit
<1> QED  BY <1>1, EmptyArray DEF CollectInv

(* and every step of the layer keeps it. *)
LEMMA CollectStep ==
    ASSUME CollectInv, [Next]_vars
    PROVE  CollectInv'
<1>1. ASSUME UNCHANGED <<arrayVars, building>> PROVE CollectInv'
  <2>1. ArrayInv'
    BY <1>1, ArrayStep DEF CollectInv
  <2> QED  BY <1>1, <2>1 DEF CollectInv, arrayVars
<1>2. CASE BeginArray
  <2>1. /\ bufferIndex = 0 /\ values = <<>> /\ added = <<>> /\ building'
        /\ UNCHANGED <<bufferIndex, values, added>>
        /\ buffer' \in [Offsets -> Char \cup {Nul}]
    BY <1>2 DEF BeginArray, CollectInv, Running
  <2>2. ArrayInv'
    BY <2>1, DataArrayAssumption DEF CollectInv, ArrayInv, ArrayTypeOK, StringsIntact
  <2> QED  BY <2>1, <2>2 DEF CollectInv
<1>3. CASE Collect
  <2>1. ArrayNext /\ building /\ building' = building
    BY <1>3, MessagesAssumption DEF Collect, ArrayNext
  <2>2. ArrayInv'
    BY <2>1, ArrayStep DEF CollectInv
  <2> QED  BY <2>1, <2>2 DEF CollectInv
<1>4. CASE EndArray
  <2>1. ArrayInv'
    BY <1>4, ArrayStep DEF CollectInv, EndArray, ArrayNext
  <2> QED  BY <1>4, <2>1 DEF CollectInv, EndArray, CayenneDataArrayClear
<1>5. ASSUME NEW type \in Types, CayenneMQTTPublishDataArray(type) PROVE CollectInv'
  BY <1>1, <1>5 DEF CayenneMQTTPublishDataArray
<1>6. CASE UNCHANGED publishVars
  BY <1>1, <1>6 DEF publishVars
<1>7. CayenneMQTTClientInit \/ Call => UNCHANGED publishVars
  BY Zenon DEF CayenneMQTTClientInit, Call, Begin, SubscribeSucceeds, UnsubscribeSucceeds,
         UnsubscribeCrashes, CallReturns
<1>8. Dispatch => UNCHANGED publishVars
  BY Zenon DEF Dispatch, MQTTMessageArrived, MessageDropped, HandlerCalled, SlotPassedOver,
         DispatchCrashes, HandlerReturns, DefaultCalled, DispatchEnds
<1>9. CASE UNCHANGED vars
  BY <1>6, <1>9 DEF vars
<1> QED  BY <1>2, <1>3, <1>4, <1>5, <1>6, <1>7, <1>8, <1>9 DEF Next, Publish

(* So they do in the layer, where messages arrive and handlers run between *)
(* one message of the application and the next.                            *)
THEOREM CollectedStringsIntact == Spec => []StringsIntact
<1>1. Init => CollectInv
  BY CollectInit
<1>2. CollectInv /\ [Next]_vars => CollectInv'
  BY CollectStep
<1>3. CollectInv => StringsIntact
  BY DEF CollectInv, ArrayInv
<1> QED  BY <1>1, <1>2, <1>3, PTL DEF Spec

-----------------------------------------------------------------------------
(* Loops.  A recursive function over 0..n is the values a loop's variable  *)
(* has after each of its rounds.                                           *)

LEMMA UpTo ==
    ASSUME NEW n \in Nat, NEW T, 0 \in T, \A i \in 1..n : i - 1 \in T => i \in T
    PROVE  0..n \subseteq T
<1> DEFINE S == {k \in Nat : k <= n => k \in T}
<1>1. 0 \in S
  OBVIOUS
<1>2. \A k \in Nat : k \in S => k + 1 \in S
  <2> SUFFICES ASSUME NEW k \in Nat, k \in S, k + 1 <= n PROVE k + 1 \in T
    OBVIOUS
  <2>1. k \in T /\ k + 1 \in 1..n /\ (k + 1) - 1 = k
    OBVIOUS
  <2> QED  BY <2>1
<1> HIDE DEF S
<1>3. Nat \subseteq S
  BY <1>1, <1>2, SetInduction
<1> QED  BY <1>3 DEF S

(* A loop of n rounds, in X, with the function step as its body. *)
IsRun(g, X, base, n, step) ==
    /\ g \in [0..n -> X] /\ g[0] = base
    /\ \A i \in 1..n : g[i] = step[<<i, g[i - 1]>>]

(* Every loop with such a body runs. *)
LEMMA LoopRuns ==
    ASSUME NEW X, NEW base \in X, NEW n \in Nat, NEW step \in [(1..n) \X X -> X]
    PROVE  \E g : IsRun(g, X, base, n, step)
<1> DEFINE Run(g, k) == IsRun(g, X, base, k, step)
           T == {k \in 0..n : \E g : Run(g, k)}
<1>1. 0 \in T
  <2> DEFINE g == [i \in 0..0 |-> base]
  <2>1. Run(g, 0)
    BY DEF IsRun
  <2> HIDE DEF g, Run
  <2>2. 0 \in 0..n
    OBVIOUS
  <2> QED  BY <2>1, <2>2
<1>2. ASSUME NEW k \in 1..n, k - 1 \in T PROVE k \in T
  <2>0. PICK g : Run(g, k - 1)
    BY <1>2
  <2>1. /\ g \in [0..(k - 1) -> X] /\ g[0] = base
        /\ \A i \in 1..(k - 1) : g[i] = step[<<i, g[i - 1]>>]
    BY <2>0 DEF IsRun
  <2> DEFINE x == step[<<k, g[k - 1]>>]
             h == [i \in 0..k |-> IF i < k THEN g[i] ELSE x]
  <2>2. g[k - 1] \in X /\ x \in X
    <3>1. g[k - 1] \in X
      BY <2>1
    <3>2. <<k, g[k - 1]>> \in (1..n) \X X
      BY <3>1
    <3> QED  BY <3>1, <3>2
  <2> HIDE DEF x
  <2>3. h \in [0..k -> X] /\ h[0] = base
    BY <2>1, <2>2
  <2>4. \A i \in 1..k : h[i] = step[<<i, h[i - 1]>>]
    <3> TAKE i \in 1..k
    <3>1. i - 1 \in 0..k /\ i - 1 < k /\ h[i - 1] = g[i - 1]
      OBVIOUS
    <3>2. CASE i = k
      BY <3>1, <3>2 DEF x
    <3>3. CASE i # k
      <4>1. i \in 1..(k - 1) /\ h[i] = g[i]
        BY <3>3
      <4> QED  BY <2>1, <3>1, <4>1
    <3> QED  BY <3>2, <3>3
  <2> HIDE DEF h
  <2>5. Run(h, k)
    BY <2>3, <2>4 DEF IsRun
  <2> HIDE DEF Run
  <2> QED  BY <2>5
<1> HIDE DEF T
<1>3. 0..n \subseteq T
  BY <1>1, <1>2, UpTo
<1>4. n \in T
  BY <1>3
<1> QED  BY <1>4 DEF T

-----------------------------------------------------------------------------
(* The texts of a payload. *)

Symbols == Char \cup {",", "=", "n", "u", "l"}

(* What is written and counted for a string that may be null. *)
LEMMA TextFacts ==
    ASSUME NEW type \in String, NEW u \in String
    PROVE  /\ Text(u) \in Seq(Symbols) /\ Text(Unit(type, u)) \in Seq(Symbols)
           /\ Size(Unit(type, u)) \in Nat
           /\ u # Null => Text(u) = u /\ Size(u) = Len(u) + 1 /\ Unit(type, u) = u
           /\ type = Null => Unit(type, u) = u
           /\ type # Null => Size(Unit(type, u)) = Len(Text(Unit(type, u))) + 1
           /\ u = Null => Size(u) = 0 /\ Text(u) = <<>>
<1>1. \A s \in String : s # Null => s \in Seq(Symbols) /\ Len(s) \in Nat
  <2> SUFFICES ASSUME NEW s \in String, s # Null PROVE s \in Seq(Symbols) /\ Len(s) \in Nat
    OBVIOUS
  <2>1. s \in Seq(Char) /\ Char \subseteq Symbols
    BY Zenon DEF String, Symbols
  <2>2. s \in Seq(Symbols)
    BY <2>1, SeqMonotonic
  <2> QED  BY <2>2, LenProperties
<1>2. UNIT_UNDEFINED # Null /\ UNIT_UNDEFINED \in Seq(Symbols) /\ Len(UNIT_UNDEFINED) \in Nat
  BY MessagesAssumption DEF UNIT_UNDEFINED, Symbols
<1>3. <<>> \in Seq(Symbols)
  OBVIOUS
<1>4. CASE u # Null
  <2>1. Unit(type, u) = u /\ Text(u) = u /\ Size(u) = Len(u) + 1
    BY <1>4 DEF Unit, Text, Size
  <2> QED  BY <1>1, <1>4, <2>1
<1>5. CASE u = Null /\ type = Null
  <2>1. Unit(type, u) = Null /\ Text(Null) = <<>> /\ Size(Null) = 0
    BY <1>5 DEF Unit, Text, Size
  <2> QED  BY <1>3, <1>5, <2>1
<1>6. CASE u = Null /\ type # Null
  <2>1. Unit(type, u) = UNIT_UNDEFINED /\ Text(Null) = <<>> /\ Size(Null) = 0
    BY <1>6 DEF Unit, Text, Size
  <2>2. Text(UNIT_UNDEFINED) = UNIT_UNDEFINED /\ Size(UNIT_UNDEFINED) = Len(UNIT_UNDEFINED) + 1
    BY <1>2 DEF Text, Size
  <2> QED  BY <1>2, <1>3, <1>6, <2>1, <2>2
<1> QED  BY <1>4, <1>5, <1>6

(* What a sequence of pairs is made of. *)
LEMMA PairFacts ==
    ASSUME NEW pairs \in Seq(Pair)
    PROVE  /\ Len(pairs) \in Nat /\ DOMAIN pairs = 1..Len(pairs)
           /\ \A i \in 1..Len(pairs) : pairs[i].unit \in String /\ pairs[i].value \in String
<1>1. Len(pairs) \in Nat /\ DOMAIN pairs = 1..Len(pairs)
  BY LenProperties
<1>2. \A i \in 1..Len(pairs) : pairs[i] \in Pair
  BY ElementOfSeq
<1> QED  BY <1>1, <1>2 DEF Pair

(* The first loop of CayenneBuildDataPayload. *)
LEMMA CountedLoop ==
    ASSUME NEW type \in String, NEW pairs \in Seq(Pair)
    PROVE  \E f \in [0..Len(pairs) -> Nat] :
             /\ Counted(type, pairs) = f[Len(pairs)] /\ f[0] = Size(type)
             /\ \A i \in 1..Len(pairs) :
                  f[i] = f[i - 1] + Size(Unit(type, pairs[i].unit)) + Size(pairs[i].value)
<1> DEFINE n == Len(pairs)
           u(i) == Size(Unit(type, pairs[i].unit))
           v(i) == Size(pairs[i].value)
           Loop(f) == f = [i \in 0..n |-> IF i = 0 THEN Size(type) ELSE f[i - 1] + u(i) + v(i)]
           c == CHOOSE f : Loop(f)
           step == [x \in (1..n) \X Nat |-> x[2] + u(x[1]) + v(x[1])]
<1>1. n \in Nat /\ Size(type) \in Nat /\ \A i \in 1..n : u(i) \in Nat /\ v(i) \in Nat
  <2>1. n \in Nat /\ Size(type) \in Nat
    BY PairFacts, SizeFacts
  <2>2. \A i \in 1..n : u(i) \in Nat
    BY PairFacts, TextFacts
  <2>3. \A i \in 1..n : v(i) \in Nat
    BY PairFacts, SizeFacts
  <2> QED  BY <2>1, <2>2, <2>3
<1>2. Counted(type, pairs) = c[n]
  BY DEF Counted
<1> HIDE DEF n, u, v
<1>3. step \in [(1..n) \X Nat -> Nat]
  BY <1>1, SMTT(60)
<1>4. \A i \in 1..n, x \in Nat : step[<<i, x>>] = x + u(i) + v(i)
  BY <1>1
<1> HIDE DEF step
<1>5. PICK g : IsRun(g, Nat, Size(type), n, step)
  BY <1>1, <1>3, LoopRuns, Zenon
<1>5a. /\ g \in [0..n -> Nat] /\ g[0] = Size(type)
       /\ \A i \in 1..n : g[i] = step[<<i, g[i - 1]>>]
  BY <1>5 DEF IsRun
<1>6. \A i \in 1..n : i - 1 \in 0..n /\ g[i] = g[i - 1] + u(i) + v(i)
  <2> TAKE i \in 1..n
  <2>1. i - 1 \in 0..n
    BY <1>1
  <2>2. g[i - 1] \in Nat
    BY <1>5a, <2>1
  <2>3. g[i] = step[<<i, g[i - 1]>>]
    BY <1>5a
  <2> QED  BY <1>4, <2>1, <2>2, <2>3
<1>7. Loop(g)
  BY <1>1, <1>5a, <1>6
<1>8. Loop(c)
  BY <1>7, Zenon
<1> HIDE DEF c
<1>9. c[0] = g[0] /\ \A i \in 1..n : c[i] = c[i - 1] + u(i) + v(i)
  <2>1. 0 \in 0..n /\ \A i \in 1..n : i \in 0..n /\ i # 0
    BY <1>1
  <2>2. ASSUME NEW i \in 0..n PROVE c[i] = IF i = 0 THEN Size(type) ELSE c[i - 1] + u(i) + v(i)
    BY <1>8, <2>2, Zenon
  <2> QED  BY <1>5a, <2>1, <2>2, Zenon
<1>10. \A i \in 0..n : c[i] = g[i]
  <2> DEFINE T == {i \in 0..n : c[i] = g[i]}
  <2>1. 0 \in T /\ \A i \in 1..n : i - 1 \in T => i \in T
    BY <1>1, <1>6, <1>9
  <2> HIDE DEF T
  <2>2. 0..n \subseteq T
    BY <1>1, <2>1, UpTo, Zenon
  <2> QED  BY <2>2 DEF T
<1>11. Counted(type, pairs) = g[n]
  BY <1>1, <1>2, <1>10
<1> QED  BY <1>5a, <1>6, <1>11 DEF n, u, v

(* Joining with a comma. *)
Comma(s) == IF s = <<>> THEN <<>> ELSE s \o <<",">>

(* The separators are texts. *)
LEMMA CommaFacts ==
    /\ <<",">> \in Seq(Symbols) /\ <<"=">> \in Seq(Symbols) /\ <<>> \in Seq(Symbols)
    /\ \A s \in Seq(Symbols) : Comma(s) \in Seq(Symbols) /\ s \o <<",">> \in Seq(Symbols)
<1>1. <<",">> \in Seq(Symbols) /\ <<"=">> \in Seq(Symbols) /\ <<>> \in Seq(Symbols)
  BY DEF Symbols
<1> QED  BY <1>1, ConcatProperties, Zenon DEF Comma

(* The second loop. *)
LEMMA UnitsLoop ==
    ASSUME NEW type \in String, NEW pairs \in Seq(Pair)
    PROVE  \E f \in [0..Len(pairs) -> Seq(Symbols)] :
             /\ Units(type, pairs) = f[Len(pairs)] /\ f[0] = Text(type)
             /\ \A i \in 1..Len(pairs) : f[i] = Comma(f[i - 1]) \o Text(Unit(type, pairs[i].unit))
<1> DEFINE n == Len(pairs)
           u(i) == Text(Unit(type, pairs[i].unit))
           next(i, x) == Comma(x) \o u(i)
           X == Seq(Symbols)
           Loop(f) == f = [i \in 0..n |-> IF i = 0 THEN Text(type) ELSE next(i, f[i - 1])]
           c == CHOOSE f : Loop(f)
           step == [x \in (1..n) \X X |-> next(x[1], x[2])]
<1>1. n \in Nat /\ Text(type) \in X /\ \A i \in 1..n, x \in X : next(i, x) \in X
  <2>1. n \in Nat /\ Text(type) \in X
    BY PairFacts, TextFacts
  <2>2. \A i \in 1..n : u(i) \in X
    BY PairFacts, TextFacts
  <2>3. \A x \in X : Comma(x) \in X
    BY CommaFacts, Zenon
  <2> HIDE DEF u
  <2> QED  BY <2>1, <2>2, <2>3, ConcatProperties
<1>2. Units(type, pairs) = c[n]
  BY DEF Units, Comma
<1> HIDE DEF n, next, X
<1>3. step \in [(1..n) \X X -> X]
  BY <1>1
<1>4. \A i \in 1..n, x \in X : step[<<i, x>>] = next(i, x)
  BY <1>1
<1> HIDE DEF step
<1>5. PICK g : IsRun(g, X, Text(type), n, step)
  BY <1>1, <1>3, LoopRuns, Zenon
<1>6. g \in [0..n -> X] /\ g[0] = Text(type) /\ \A i \in 1..n : g[i] = step[<<i, g[i - 1]>>]
  BY <1>5 DEF IsRun
<1>7. \A i \in 1..n : i - 1 \in 0..n /\ g[i] = next(i, g[i - 1])
  <2> TAKE i \in 1..n
  <2>1. i - 1 \in 0..n
    BY <1>1
  <2>2. g[i - 1] \in X
    BY <1>6, <2>1
  <2> QED  BY <1>4, <1>6, <2>1, <2>2, Zenon
<1>8. Loop(g)
  BY <1>1, <1>6, <1>7, SMTT(60)
<1>9. Loop(c)
  BY <1>8, Zenon
<1> HIDE DEF c
<1>10. c[0] = g[0] /\ \A i \in 1..n : c[i] = next(i, c[i - 1])
  <2>1. 0 \in 0..n /\ \A i \in 1..n : i \in 0..n /\ i # 0
    BY <1>1
  <2>2. \A i \in 0..n : c[i] = IF i = 0 THEN Text(type) ELSE next(i, c[i - 1])
    BY <1>9, Zenon
  <2>3. c[0] = Text(type)
    BY <2>1, <2>2, Zenon
  <2>4. \A i \in 1..n : c[i] = next(i, c[i - 1])
    BY <2>1, <2>2, Zenon
  <2> QED  BY <1>6, <2>3, <2>4, Zenon
<1>11. \A i \in 0..n : c[i] = g[i]
  <2> DEFINE T == {i \in 0..n : c[i] = g[i]}
  <2>1. 0 \in T /\ \A i \in 1..n : i - 1 \in T => i \in T
    BY <1>1, <1>7, <1>10
  <2> HIDE DEF T
  <2>2. 0..n \subseteq T
    BY <1>1, <2>1, UpTo
  <2> QED  BY <2>2 DEF T
<1>12. Units(type, pairs) = g[n]
  BY <1>1, <1>2, <1>11
<1> QED  BY <1>6, <1>7, <1>12, Zenon DEF n, next, X

(* The third loop, when every value is there. *)
LEMMA ValuesLoop ==
    ASSUME NEW pairs \in Seq(Pair), \A i \in 1..Len(pairs) : pairs[i].value # Null
    PROVE  \E f \in [0..Len(pairs) -> Seq(Symbols)] :
             /\ Values(pairs) = f[Len(pairs)] /\ f[0] = <<>>
             /\ \A i \in 1..Len(pairs) : f[i] = f[i - 1] \o pairs[i].value \o (IF i < Len(pairs) THEN <<",">> ELSE <<>>)
<1> DEFINE n == Len(pairs)
           next(i, x) == IF Present(pairs, i)
                         THEN x \o pairs[i].value \o (IF i < Len(pairs) THEN <<",">> ELSE <<>>)
                         ELSE x
           X == Seq(Symbols)
           Loop(f) == f = [i \in 0..n |-> IF i = 0 THEN <<>> ELSE next(i, f[i - 1])]
           c == CHOOSE f : Loop(f)
           step == [x \in (1..n) \X X |-> next(x[1], x[2])]
<1>1. n \in Nat /\ <<>> \in X /\ \A i \in 1..n, x \in X : next(i, x) \in X
  <2>1. n \in Nat /\ <<>> \in X
    BY PairFacts
  <2>2. \A i \in 1..n : pairs[i].value \in X
    <3> TAKE i \in 1..n
    <3>1. pairs[i].value \in String /\ pairs[i].value # Null
      BY PairFacts
    <3>2. Text(pairs[i].value) \in X /\ Text(pairs[i].value) = pairs[i].value
      BY <3>1, TextFacts
    <3> QED  BY <3>2
  <2>3. \A i \in 1..n : (IF i < Len(pairs) THEN <<",">> ELSE <<>>) \in X
    BY CommaFacts, Zenon
  <2> DEFINE sep(i) == IF i < Len(pairs) THEN <<",">> ELSE <<>>
  <2> SUFFICES ASSUME NEW i \in 1..n, NEW x \in X PROVE x \o pairs[i].value \o sep(i) \in X
    BY <2>1, Zenon
  <2>4. x \o pairs[i].value \in X
    BY <2>2, ConcatProperties
  <2>5. sep(i) \in X
    BY <2>3, Zenon
  <2> HIDE DEF sep, X
  <2> QED  BY <2>4, <2>5, ConcatProperties DEF X
<1>2. Values(pairs) = c[n]
  BY DEF Values
<1> HIDE DEF n, next, X
<1>3. step \in [(1..n) \X X -> X]
  BY <1>1
<1>4. \A i \in 1..n, x \in X : step[<<i, x>>] = next(i, x)
  BY <1>1
<1> HIDE DEF step
<1>5. PICK g : IsRun(g, X, <<>>, n, step)
  BY <1>1, <1>3, LoopRuns, Zenon
<1>6. g \in [0..n -> X] /\ g[0] = <<>> /\ \A i \in 1..n : g[i] = step[<<i, g[i - 1]>>]
  BY <1>5 DEF IsRun
<1>7. \A i \in 1..n : i - 1 \in 0..n /\ g[i] = next(i, g[i - 1])
  <2> TAKE i \in 1..n
  <2>1. i - 1 \in 0..n
    BY <1>1
  <2>2. g[i - 1] \in X
    BY <1>6, <2>1
  <2> QED  BY <1>4, <1>6, <2>1, <2>2, Zenon
<1>8. Loop(g)
  BY <1>1, <1>6, <1>7
<1>9. Loop(c)
  BY <1>8, Zenon
<1> HIDE DEF c
<1>10. c[0] = g[0] /\ \A i \in 1..n : c[i] = next(i, c[i - 1])
  <2>1. 0 \in 0..n /\ \A i \in 1..n : i \in 0..n /\ i # 0
    BY <1>1
  <2>2. \A i \in 0..n : c[i] = IF i = 0 THEN <<>> ELSE next(i, c[i - 1])
    BY <1>9, Zenon
  <2>3. c[0] = <<>>
    BY <2>1, <2>2, Zenon
  <2>4. \A i \in 1..n : c[i] = next(i, c[i - 1])
    BY <2>1, <2>2, Zenon
  <2> QED  BY <1>6, <2>3, <2>4, Zenon
<1>11. \A i \in 0..n : c[i] = g[i]
  <2> DEFINE T == {i \in 0..n : c[i] = g[i]}
  <2>1. 0 \in T /\ \A i \in 1..n : i - 1 \in T => i \in T
    BY <1>1, <1>7, <1>10
  <2> HIDE DEF T
  <2>2. 0..n \subseteq T
    BY <1>1, <2>1, UpTo, Zenon
  <2> QED  BY <2>2 DEF T
<1>12. Values(pairs) = g[n]
  BY <1>1, <1>2, <1>11
<1>13. \A i \in 1..n : g[i] = g[i - 1] \o pairs[i].value \o (IF i < Len(pairs) THEN <<",">> ELSE <<>>)
  <2>1. \A i \in 1..n : Present(pairs, i)
    BY <1>1 DEF Present, n
  <2> QED  BY <1>7, <2>1, Zenon DEF next
<1> QED  BY <1>6, <1>12, <1>13, Zenon DEF n, X

(* Strings with commas between them. *)
LEMMA JoinedLoop ==
    ASSUME NEW strings \in Seq(Seq(Symbols))
    PROVE  \E f \in [0..Len(strings) -> Seq(Symbols)] :
             /\ Joined(strings) = f[Len(strings)] /\ f[0] = <<>>
             /\ \A i \in 1..Len(strings) : f[i] = (IF i = 1 THEN <<>> ELSE f[i - 1] \o <<",">>) \o strings[i]
<1> DEFINE n == Len(strings)
           next(i, x) == (IF i = 1 THEN <<>> ELSE x \o <<",">>) \o strings[i]
           X == Seq(Symbols)
           Loop(f) == f = [i \in 0..n |-> IF i = 0 THEN <<>> ELSE next(i, f[i - 1])]
           c == CHOOSE f : Loop(f)
           step == [x \in (1..n) \X X |-> next(x[1], x[2])]
<1>1. n \in Nat /\ <<>> \in X /\ \A i \in 1..n, x \in X : next(i, x) \in X
  <2>1. n \in Nat /\ <<>> \in X
    BY LenProperties
  <2>2. \A i \in 1..n : strings[i] \in X
    BY ElementOfSeq
  <2> SUFFICES ASSUME NEW i \in 1..n, NEW x \in X PROVE next(i, x) \in X
    BY <2>1, Zenon
  <2>3. (IF i = 1 THEN <<>> ELSE x \o <<",">>) \in X
    BY CommaFacts, Zenon
  <2> QED  BY <2>2, <2>3, ConcatProperties, Zenon
<1>2. Joined(strings) = c[n]
  BY DEF Joined
<1> HIDE DEF n, next, X
<1>3. step \in [(1..n) \X X -> X]
  BY <1>1
<1>4. \A i \in 1..n, x \in X : step[<<i, x>>] = next(i, x)
  BY <1>1
<1> HIDE DEF step
<1>5. PICK g : IsRun(g, X, <<>>, n, step)
  BY <1>1, <1>3, LoopRuns, Zenon
<1>6. g \in [0..n -> X] /\ g[0] = <<>> /\ \A i \in 1..n : g[i] = step[<<i, g[i - 1]>>]
  BY <1>5 DEF IsRun
<1>7. \A i \in 1..n : i - 1 \in 0..n /\ g[i] = next(i, g[i - 1])
  <2> TAKE i \in 1..n
  <2>1. i - 1 \in 0..n
    BY <1>1
  <2>2. g[i - 1] \in X
    BY <1>6, <2>1
  <2> QED  BY <1>4, <1>6, <2>1, <2>2, Zenon
<1>8. Loop(g)
  BY <1>1, <1>6, <1>7
<1>9. Loop(c)
  BY <1>8, Zenon
<1> HIDE DEF c
<1>10. c[0] = g[0] /\ \A i \in 1..n : c[i] = next(i, c[i - 1])
  <2>1. 0 \in 0..n /\ \A i \in 1..n : i \in 0..n /\ i # 0
    BY <1>1
  <2>2. \A i \in 0..n : c[i] = IF i = 0 THEN <<>> ELSE next(i, c[i - 1])
    BY <1>9, Zenon
  <2>3. c[0] = <<>>
    BY <2>1, <2>2, Zenon
  <2>4. \A i \in 1..n : c[i] = next(i, c[i - 1])
    BY <2>1, <2>2, Zenon
  <2> QED  BY <1>6, <2>3, <2>4, Zenon
<1>11. \A i \in 0..n : c[i] = g[i]
  <2> DEFINE T == {i \in 0..n : c[i] = g[i]}
  <2>1. 0 \in T /\ \A i \in 1..n : i - 1 \in T => i \in T
    BY <1>1, <1>7, <1>10, SMTT(60)
  <2> HIDE DEF T
  <2>2. 0..n \subseteq T
    BY <1>1, <2>1, UpTo
  <2> QED  BY <2>2 DEF T
<1>12. Joined(strings) = g[n]
  BY <1>1, <1>2, <1>11
<1> QED  BY <1>6, <1>7, <1>12, Zenon DEF n, next, X

-----------------------------------------------------------------------------
(* The loops put together the text of the pairs. *)

LEMMA JoinedSteps ==
    ASSUME NEW n \in Nat, NEW s \in Seq(Seq(Symbols)), Len(s) = n
    PROVE  \E f \in [0..n -> Seq(Symbols)] :
             /\ Joined(s) = f[n] /\ f[0] = <<>>
             /\ 1 \in 1..n => f[1] = s[1]
             /\ \A i \in 2..n : f[i] = (f[i - 1] \o <<",">>) \o s[i]
<1>1. PICK f \in [0..n -> Seq(Symbols)] :
             /\ Joined(s) = f[n] /\ f[0] = <<>>
             /\ \A i \in 1..n : f[i] = (IF i = 1 THEN <<>> ELSE f[i - 1] \o <<",">>) \o s[i]
  BY JoinedLoop, Zenon
<1>2. 1 \in 1..n => f[1] = s[1]
  <2> SUFFICES ASSUME 1 \in 1..n PROVE f[1] = s[1]
    OBVIOUS
  <2>1. f[1] = <<>> \o s[1]
    BY <1>1, Zenon
  <2>2. s[1] \in Seq(Symbols)
    BY ElementOfSeq
  <2> QED  BY <2>1, <2>2, ConcatEmptySeq
<1>3. \A i \in 2..n : f[i] = (f[i - 1] \o <<",">>) \o s[i]
  <2> TAKE i \in 2..n
  <2>1. i \in 1..n /\ i # 1
    OBVIOUS
  <2> QED  BY <1>1, <2>1, Zenon
<1> QED  BY <1>1, <1>2, <1>3, Zenon

(* The rounds of the loop over the values. *)
LEMMA ValuesSteps ==
    ASSUME NEW pairs \in Seq(Pair), \A i \in 1..Len(pairs) : pairs[i].value # Null,
           NEW n \in Nat, Len(pairs) = n
    PROVE  \E f \in [0..n -> Seq(Symbols)] :
             /\ Values(pairs) = f[n] /\ f[0] = <<>>
             /\ \A i \in 1..n : i # n => f[i] = (f[i - 1] \o pairs[i].value) \o <<",">>
             /\ n # 0 => f[n] = f[n - 1] \o pairs[n].value
<1>1. PICK f \in [0..n -> Seq(Symbols)] :
             /\ Values(pairs) = f[n] /\ f[0] = <<>>
             /\ \A i \in 1..n : f[i] = f[i - 1] \o pairs[i].value \o (IF i < n THEN <<",">> ELSE <<>>)
  BY ValuesLoop, Zenon
<1>2. \A i \in 1..n : i # n => f[i] = (f[i - 1] \o pairs[i].value) \o <<",">>
  <2> SUFFICES ASSUME NEW i \in 1..n, i # n PROVE f[i] = (f[i - 1] \o pairs[i].value) \o <<",">>
    BY Zenon
  <2>1. i < n
    OBVIOUS
  <2> QED  BY <1>1, <2>1, Zenon
<1>3. n # 0 => f[n] = f[n - 1] \o pairs[n].value
  <2> SUFFICES ASSUME n # 0 PROVE f[n] = f[n - 1] \o pairs[n].value
    BY Zenon
  <2>1. n \in 1..n /\ n - 1 \in 0..n /\ ~(n < n)
    OBVIOUS
  <2>2. f[n] = (f[n - 1] \o pairs[n].value) \o <<>>
    BY <1>1, <2>1, Zenon
  <2>3. pairs[n].value \in Seq(Symbols) /\ f[n - 1] \in Seq(Symbols)
    <3>1. pairs[n].value \in String /\ pairs[n].value # Null
      BY <2>1, PairFacts
    <3> QED  BY <2>1, <3>1, TextFacts
  <2>4. f[n - 1] \o pairs[n].value \in Seq(Symbols)
    BY <2>3, ConcatProperties
  <2> QED  BY <2>2, <2>4, ConcatEmptySeq
<1> QED  BY <1>1, <1>2, <1>3, Zenon

(* The values are written one behind the other, with commas between them. *)
LEMMA ValuesAreJoined ==
    ASSUME NEW pairs \in Seq(Pair), pairs # <<>>, \A i \in 1..Len(pairs) : pairs[i].value # Null
    PROVE  Values(pairs) = Joined([i \in DOMAIN pairs |-> pairs[i].value])
<1> DEFINE n == Len(pairs)
           s == [i \in DOMAIN pairs |-> pairs[i].value]
           X == Seq(Symbols)
<1>1. n \in Nat /\ n >= 1 /\ DOMAIN pairs = 1..n
  BY PairFacts, EmptySeq
<1>2. \A i \in 1..n : pairs[i].value \in X
  <2> TAKE i \in 1..n
  <2>1. pairs[i].value \in String /\ pairs[i].value # Null
    BY PairFacts
  <2> QED  BY <2>1, TextFacts
<1>3. s \in Seq(X) /\ Len(s) = n /\ \A i \in 1..n : s[i] = pairs[i].value
  <2>1. s = [i \in 1..n |-> pairs[i].value]
    BY <1>1
  <2>2. s \in Seq(X)
    BY <1>1, <1>2, <2>1, IsASeq
  <2> QED  BY <1>1, <2>1, <2>2
<1>4. PICK V \in [0..n -> X] :
        /\ Values(pairs) = V[n] /\ V[0] = <<>>
        /\ \A i \in 1..n : i # n => V[i] = (V[i - 1] \o pairs[i].value) \o <<",">>
        /\ n # 0 => V[n] = V[n - 1] \o pairs[n].value
  BY <1>1, ValuesSteps, Zenon
<1> HIDE DEF s, n
<1>5. PICK J \in [0..n -> X] :
        /\ Joined(s) = J[n] /\ J[0] = <<>>
        /\ 1 \in 1..n => J[1] = s[1]
        /\ \A i \in 2..n : J[i] = (J[i - 1] \o <<",">>) \o s[i]
  BY <1>1, <1>3, JoinedSteps, Zenon
<1> HIDE DEF X
<1> DEFINE T == {i \in 0..n : i # 0 /\ i # n => V[i] = J[i] \o <<",">>}
<1>6. 0 \in T
  BY <1>1
<1>7. ASSUME NEW i \in 1..n, i - 1 \in T, i # n PROVE V[i] = J[i] \o <<",">>
  <2>1. V[i] = (V[i - 1] \o s[i]) \o <<",">>
    BY <1>3, <1>4, <1>7, Zenon
  <2>2. V[i - 1] \o s[i] = J[i]
    <3>1. CASE i = 1
      <4>0. i - 1 = 0 /\ 1 \in 1..n
        BY <1>1, <3>1
      <4>1. V[i - 1] = <<>> /\ J[i] = s[i]
        BY <1>4, <1>5, <3>1, <4>0, Zenon
      <4>2. s[i] \in Seq(Symbols)
        BY <1>2, <1>3 DEF X
      <4>3. <<>> \o s[i] = s[i]
        BY <4>2, ConcatEmptySeq
      <4> QED  BY <4>1, <4>3
    <3>2. CASE i # 1
      <4>1. V[i - 1] = J[i - 1] \o <<",">>
        <5>1. i - 1 # 0 /\ i - 1 # n
          BY <1>1, <3>2
        <5> QED  BY <1>7, <5>1, Zenon
      <4>2. i \in 2..n
        BY <1>1, <3>2
      <4> QED  BY <1>5, <4>1, <4>2, Zenon
    <3> QED  BY <3>1, <3>2, Zenon
  <2> QED  BY <2>1, <2>2, Zenon
<1>8. ASSUME NEW i \in 1..n, i - 1 \in T PROVE i \in T
  <2>1. i \in 0..n
    BY <1>1
  <2> QED  BY <1>7, <1>8, <2>1, Zenon
<1>9. T = T /\ (\A i \in 1..n : i - 1 \in T => i \in T)
  BY <1>8, Zenon
<1>10. \A i \in 0..n : i # 0 /\ i # n => V[i] = J[i] \o <<",">>
  <2> HIDE DEF T
  <2>1. 0..n \subseteq T
    BY <1>1, <1>6, <1>9, UpTo, Zenon
  <2> QED  BY <2>1, Zenon DEF T
<1>11. V[n - 1] \o s[n] = J[n]
  <2>1. CASE n = 1
    <3>1. V[n - 1] = <<>> /\ J[n] = s[n]
      BY <1>4, <1>5, <2>1
    <3>2. s[n] \in Seq(Symbols)
      BY <1>1, <1>2, <1>3 DEF X
    <3>3. <<>> \o s[n] = s[n]
      BY <3>2, ConcatEmptySeq
    <3> QED  BY <3>1, <3>3
  <2>2. CASE n # 1
    <3>1. V[n - 1] = J[n - 1] \o <<",">>
      <4>1. n - 1 \in 0..n /\ n - 1 # 0 /\ n - 1 # n
        BY <1>1, <2>2
      <4> QED  BY <1>10, <4>1, Zenon
    <3>2. n \in 2..n
      BY <1>1, <2>2
    <3> QED  BY <1>5, <3>1, <3>2, Zenon
  <2> QED  BY <2>1, <2>2, Zenon
<1>12. V[n] = J[n]
  <2>1. n # 0 /\ n \in 1..n
    BY <1>1
  <2>2. V[n] = V[n - 1] \o pairs[n].value /\ s[n] = pairs[n].value
    BY <1>3, <1>4, <2>1, Zenon
  <2> QED  BY <1>11, <2>2, Zenon
<1> QED  BY <1>4, <1>5, <1>12, Zenon DEF s

(* The units of the pairs, as they are written. *)
UnitTexts(type, pairs) == [i \in DOMAIN pairs |-> Text(Unit(type, pairs[i].unit))]

(* They are texts, one for each pair. *)
LEMMA UnitTextsFacts ==
    ASSUME NEW type \in String, NEW pairs \in Seq(Pair)
    PROVE  /\ UnitTexts(type, pairs) \in Seq(Seq(Symbols)) /\ Len(UnitTexts(type, pairs)) = Len(pairs)
           /\ \A i \in 1..Len(pairs) :
                /\ UnitTexts(type, pairs)[i] = Text(Unit(type, pairs[i].unit))
                /\ Text(Unit(type, pairs[i].unit)) \in Seq(Symbols)
<1> DEFINE n == Len(pairs)
           u(i) == Text(Unit(type, pairs[i].unit))
<1>1. n \in Nat /\ DOMAIN pairs = 1..n /\ \A i \in 1..n : u(i) \in Seq(Symbols)
  BY PairFacts, TextFacts
<1>2. UnitTexts(type, pairs) = [i \in 1..n |-> u(i)]
  BY <1>1 DEF UnitTexts
<1> HIDE DEF n, u
<1>3. [i \in 1..n |-> u(i)] \in Seq(Seq(Symbols))
  BY <1>1, IsASeq
<1>4. Len([i \in 1..n |-> u(i)]) = n
  BY <1>1
<1> QED  BY <1>1, <1>2, <1>3, <1>4 DEF n, u

(* A text with a comma and another text behind it. *)
LEMMA Longer ==
    ASSUME NEW s \in Seq(Symbols), NEW t \in Seq(Symbols)
    PROVE  /\ (s \o <<",">>) \o t \in Seq(Symbols) /\ s \o t \in Seq(Symbols)
           /\ Len((s \o <<",">>) \o t) = Len(s) + 1 + Len(t) /\ Len(s \o t) = Len(s) + Len(t)
           /\ (s \o <<",">>) \o t # <<>>
<1> DEFINE r == s \o <<",">>
<1>1. <<",">> \in Seq(Symbols) /\ Len(<<",">>) = 1 /\ Len(s) \in Nat /\ Len(t) \in Nat
  BY CommaFacts, LenProperties, Zenon
<1>2. r \in Seq(Symbols) /\ Len(r) = Len(s) + 1
  BY <1>1, ConcatProperties, Zenon
<1> HIDE DEF r
<1>3. r \o t \in Seq(Symbols) /\ Len(r \o t) = Len(r) + Len(t)
  BY <1>2, ConcatProperties, Zenon
<1>4. Len(r \o t) = Len(s) + 1 + Len(t)
  BY <1>1, <1>2, <1>3, Zenon
<1>5. Len(r \o t) # 0
  <2> DEFINE a == Len(s)
             b == Len(t)
  <2>1. a \in Nat /\ b \in Nat /\ Len(r \o t) = a + 1 + b
    BY <1>1, <1>4, Zenon
  <2> HIDE DEF a, b
  <2>2. a + 1 + b # 0
    BY <2>1
  <2> QED  BY <2>1, <2>2, Zenon
<1>6. r \o t # <<>>
  BY <1>3, <1>5, EmptySeq
<1> QED  BY <1>3, <1>4, <1>6, ConcatProperties, Zenon DEF r

(* With a type. *)
LEMMA TypedUnitsAreJoined ==
    ASSUME NEW type \in String, type # Null, type # <<>>, NEW pairs \in Seq(Pair)
    PROVE  Units(type, pairs) = Joined(<<type>> \o UnitTexts(type, pairs))
<1> DEFINE n == Len(pairs)
           s == UnitTexts(type, pairs)
           z == <<type>> \o s
           X == Seq(Symbols)
<1>1. n \in Nat /\ type \in X /\ Text(type) = type
  BY PairFacts, TextFacts
<1>2. s \in Seq(X) /\ Len(s) = n /\ \A i \in 1..n : s[i] = Text(Unit(type, pairs[i].unit)) /\ s[i] \in X
  BY UnitTextsFacts
<1>3. PICK U \in [0..n -> X] :
        /\ Units(type, pairs) = U[n] /\ U[0] = Text(type)
        /\ \A i \in 1..n : U[i] = Comma(U[i - 1]) \o Text(Unit(type, pairs[i].unit))
  BY UnitsLoop
<1> HIDE DEF s, n
<1>4. z \in Seq(X) /\ Len(z) = n + 1 /\ z[1] = type /\ \A i \in 1..n : z[i + 1] = s[i]
  <2> HIDE DEF X
  <2>1. <<type>> \in Seq(X) /\ Len(<<type>>) = 1 /\ <<type>>[1] = type
    BY <1>1
  <2> QED  BY <1>1, <1>2, <2>1, ConcatProperties
<1> HIDE DEF z
<1>5. PICK J \in [0..(n + 1) -> X] :
        /\ Joined(z) = J[n + 1] /\ J[0] = <<>>
        /\ 1 \in 1..(n + 1) => J[1] = z[1]
        /\ \A i \in 2..(n + 1) : J[i] = (J[i - 1] \o <<",">>) \o z[i]
  <2>1. n + 1 \in Nat
    BY <1>1
  <2> QED  BY <1>4, <2>1, JoinedSteps, Zenon
<1> HIDE DEF X
<1> DEFINE T == {i \in 0..n : U[i] = J[i + 1] /\ U[i] # <<>>}
<1>6. 0 \in T
  <2>1. 0 \in 0..n /\ 1 \in 1..(n + 1) /\ 0 + 1 = 1
    BY <1>1
  <2>2. U[0] = type /\ J[1] = type
    BY <1>1, <1>3, <1>4, <1>5, <2>1, Zenon
  <2> QED  BY <2>1, <2>2, Zenon
<1>7. ASSUME NEW i \in 1..n, i - 1 \in T PROVE i \in T
  <2>1. U[i - 1] = J[i] /\ U[i - 1] # <<>> /\ U[i - 1] \in X
    BY <1>1, <1>7
  <2>2. U[i] = (J[i] \o <<",">>) \o s[i]
    BY <1>2, <1>3, <2>1, Zenon DEF Comma
  <2>3. i + 1 \in 2..(n + 1) /\ (i + 1) - 1 = i
    BY <1>1
  <2>4. J[i + 1] = (J[i] \o <<",">>) \o z[i + 1]
    BY <1>5, <2>3, Zenon
  <2>5. J[i + 1] = (J[i] \o <<",">>) \o s[i]
    BY <1>4, <2>4, Zenon
  <2>6. U[i] # <<>>
    BY <1>2, <2>1, <2>2, Longer, Zenon DEF X
  <2>7. i \in 0..n
    BY <1>1
  <2> QED  BY <2>2, <2>5, <2>6, <2>7, Zenon
<1>8. \A i \in 1..n : i - 1 \in T => i \in T
  BY <1>7
<1> HIDE DEF T
<1>9. 0..n \subseteq T
  BY <1>1, <1>6, <1>8, UpTo, Zenon
<1>10. U[n] = J[n + 1]
  BY <1>1, <1>9 DEF T
<1> QED  BY <1>3, <1>5, <1>10, Zenon DEF z, s

(* Without a type, when every pair has a unit. *)
LEMMA GivenUnitsAreJoined ==
    ASSUME NEW pairs \in Seq(Pair), pairs # <<>>, pairs[1].unit # <<>>,
           \A i \in 1..Len(pairs) : pairs[i].unit # Null
    PROVE  Units(Null, pairs) = Joined(UnitTexts(Null, pairs)) /\ Units(Null, pairs) # <<>>
<1> DEFINE n == Len(pairs)
           s == UnitTexts(Null, pairs)
           X == Seq(Symbols)
<1>1. n \in Nat /\ n >= 1 /\ Null \in String /\ Text(Null) = <<>>
  BY PairFacts, EmptySeq DEF String, Text
<1>2. s \in Seq(X) /\ Len(s) = n /\ \A i \in 1..n : s[i] = Text(Unit(Null, pairs[i].unit)) /\ s[i] \in X
  BY <1>1, UnitTextsFacts
<1>3. s[1] # <<>>
  <2>1. 1 \in 1..n
    BY <1>1
  <2>2. pairs[1].unit \in String /\ pairs[1].unit # Null
    BY <2>1, PairFacts
  <2>3. Text(Unit(Null, pairs[1].unit)) = pairs[1].unit
    BY <1>1, <2>2, TextFacts
  <2> QED  BY <1>2, <2>1, <2>3
<1>4. PICK U \in [0..n -> X] :
        /\ Units(Null, pairs) = U[n] /\ U[0] = Text(Null)
        /\ \A i \in 1..n : U[i] = Comma(U[i - 1]) \o Text(Unit(Null, pairs[i].unit))
  BY <1>1, UnitsLoop, Zenon
<1> HIDE DEF s, n
<1>5. PICK J \in [0..n -> X] :
        /\ Joined(s) = J[n] /\ J[0] = <<>>
        /\ 1 \in 1..n => J[1] = s[1]
        /\ \A i \in 2..n : J[i] = (J[i - 1] \o <<",">>) \o s[i]
  BY <1>1, <1>2, JoinedSteps, Zenon
<1> HIDE DEF X
<1> DEFINE T == {i \in 0..n : i # 0 => U[i] = J[i] /\ U[i] # <<>>}
<1>6. 0 \in T
  BY <1>1
<1>7. ASSUME NEW i \in 1..n, i - 1 \in T PROVE U[i] = J[i] /\ U[i] # <<>>
  <2>1. U[i] = Comma(U[i - 1]) \o s[i] /\ s[i] \in Seq(Symbols)
    BY <1>2, <1>4, Zenon DEF X
  <2>2. CASE i = 1
    <3>1. i - 1 = 0 /\ 1 \in 1..n
      BY <1>1, <2>2
    <3>2. Comma(U[i - 1]) = <<>>
      BY <1>1, <1>4, <3>1, Zenon DEF Comma
    <3>3. <<>> \o s[i] = s[i]
      BY <2>1, ConcatEmptySeq
    <3> QED  BY <1>3, <1>5, <2>1, <2>2, <3>1, <3>2, <3>3, Zenon
  <2>3. CASE i # 1
    <3>1. i - 1 # 0 /\ i \in 2..n /\ i - 1 \in 0..n
      BY <1>1, <2>3
    <3>2. U[i - 1] = J[i - 1] /\ U[i - 1] # <<>>
      BY <1>7, <3>1, Zenon
    <3>3. U[i] = (J[i - 1] \o <<",">>) \o s[i] /\ J[i] = (J[i - 1] \o <<",">>) \o s[i]
      BY <1>5, <2>1, <3>1, <3>2, Zenon DEF Comma
    <3>4. J[i - 1] \in Seq(Symbols)
      BY <3>1 DEF X
    <3>5. (J[i - 1] \o <<",">>) \o s[i] # <<>>
      BY <2>1, <3>4, Longer, Zenon
    <3> QED  BY <3>3, <3>5, Zenon
  <2> QED  BY <2>2, <2>3
<1>8. \A i \in 1..n : i - 1 \in T => i \in T
  <2> SUFFICES ASSUME NEW i \in 1..n, i - 1 \in T PROVE i \in T
    OBVIOUS
  <2>1. i \in 0..n
    BY <1>1
  <2> QED  BY <1>7, <2>1, Zenon
<1> HIDE DEF T
<1>9. 0..n \subseteq T
  BY <1>1, <1>6, <1>8, UpTo, Zenon
<1>10. n \in T /\ n # 0
  BY <1>1, <1>9
<1>11. U[n] = J[n] /\ U[n] # <<>>
  BY <1>10, Zenon DEF T
<1> QED  BY <1>4, <1>5, <1>11, Zenon DEF s

(* Without a type and without units. *)
LEMMA NoUnitsAreWritten ==
    ASSUME NEW pairs \in Seq(Pair), \A i \in 1..Len(pairs) : pairs[i].unit = Null
    PROVE  Units(Null, pairs) = <<>>
<1> DEFINE n == Len(pairs)
<1>1. n \in Nat /\ Null \in String /\ Text(Null) = <<>>
  BY PairFacts DEF String, Text
<1>2. PICK U \in [0..n -> Seq(Symbols)] :
        /\ Units(Null, pairs) = U[n] /\ U[0] = Text(Null)
        /\ \A i \in 1..n : U[i] = Comma(U[i - 1]) \o Text(Unit(Null, pairs[i].unit))
  BY <1>1, UnitsLoop, Zenon
<1>3. \A i \in 1..n : Text(Unit(Null, pairs[i].unit)) = <<>>
  BY DEF Text, Unit
<1> HIDE DEF n
<1> DEFINE T == {i \in 0..n : U[i] = <<>>}
<1>4. 0 \in T
  <2>1. 0 \in 0..n
    BY <1>1
  <2> QED  BY <1>1, <1>2, <2>1, Zenon
<1>5. \A i \in 1..n : i - 1 \in T => i \in T
  <2> SUFFICES ASSUME NEW i \in 1..n, i - 1 \in T PROVE i \in T
    OBVIOUS
  <2>1. i \in 0..n
    BY <1>1
  <2>2. U[i] = <<>> \o <<>>
    BY <1>2, <1>3, Zenon DEF Comma
  <2>3. <<>> \o <<>> = <<>>
    BY ConcatEmptySeq, CommaFacts, Zenon
  <2> QED  BY <2>1, <2>2, <2>3, Zenon
<1> HIDE DEF T
<1>6. 0..n \subseteq T
  BY <1>1, <1>4, <1>5, UpTo, Zenon
<1>7. n \in T
  BY <1>1, <1>6
<1>8. U[n] = <<>>
  BY <1>7, Zenon DEF T
<1> QED  BY <1>2, <1>8

-----------------------------------------------------------------------------
(* The lengths of the texts, and what is counted for them. *)

LEMMA JoinedLengths ==
    ASSUME NEW n \in Nat, NEW s \in Seq(Seq(Symbols)), Len(s) = n
    PROVE  /\ Joined(s) \in Seq(Symbols)
           /\ \E l \in [0..n -> Nat] :
                /\ l[n] = Len(Joined(s)) /\ l[0] = 0
                /\ 1 \in 1..n => l[1] = Len(s[1])
                /\ \A i \in 2..n : l[i] = l[i - 1] + 1 + Len(s[i])
<1>1. PICK f \in [0..n -> Seq(Symbols)] :
             /\ Joined(s) = f[n] /\ f[0] = <<>>
             /\ 1 \in 1..n => f[1] = s[1]
             /\ \A i \in 2..n : f[i] = (f[i - 1] \o <<",">>) \o s[i]
  BY JoinedSteps, Zenon
<1> DEFINE l == [i \in 0..n |-> Len(f[i])]
<1>2. l \in [0..n -> Nat]
  BY LenProperties
<1>3. 0 \in 0..n /\ n \in 0..n /\ Len(<<>>) = 0 /\ (1 \in 1..n => 1 \in 0..n)
  BY LenProperties
<1>4. l[n] = Len(Joined(s)) /\ l[0] = 0 /\ (1 \in 1..n => l[1] = Len(s[1]))
  BY <1>1, <1>3, Zenon
<1>5. ASSUME NEW i \in 2..n PROVE l[i] = l[i - 1] + 1 + Len(s[i])
  <2>1. i \in 0..n /\ i - 1 \in 0..n /\ i \in 1..n
    OBVIOUS
  <2>2. f[i - 1] \in Seq(Symbols) /\ s[i] \in Seq(Symbols)
    BY <2>1, ElementOfSeq
  <2>3. Len((f[i - 1] \o <<",">>) \o s[i]) = Len(f[i - 1]) + 1 + Len(s[i])
    BY <2>2, Longer, Zenon
  <2>4. f[i] = (f[i - 1] \o <<",">>) \o s[i]
    BY <1>1, Zenon
  <2>5. l[i] = Len(f[i]) /\ l[i - 1] = Len(f[i - 1])
    BY <2>1
  <2> QED  BY <2>3, <2>4, <2>5, Zenon
<1>6. Joined(s) \in Seq(Symbols)
  BY <1>1, <1>3, Zenon
<1> HIDE DEF l
<1> QED  BY <1>2, <1>4, <1>5, <1>6, Zenon

(* The numbers f are the sums of the sizes a, but for d at the first. *)
SumsUp(f, n, a, d) ==
    /\ f \in [0..n -> Nat]
    /\ \A i \in 1..n : f[i] + (IF i = 1 THEN d ELSE 0) = f[i - 1] + a[i]

(* Two sizes each. *)
Both(n, a, b) == [i \in 1..n |-> a[i] + b[i]]

(* The sizes a are those of the texts s with their ends. *)
SizesOf(a, s, n) == \A i \in 1..n : a[i] = Len(s[i]) + 1

(* The same sizes added up in one loop and in two. *)
Apart(n, d, e, a, b, c, u, v) ==
    /\ n \in Nat /\ n >= 1 /\ d \in Nat /\ e \in Nat
    /\ a \in [1..n -> Nat] /\ b \in [1..n -> Nat]
    /\ SumsUp(c, n, Both(n, a, b), 0) /\ SumsUp(u, n, a, d) /\ SumsUp(v, n, b, 1)
    /\ c[0] = u[0] + e /\ v[0] = 0

(* Both ways give the same sum, but for what is counted apart. *)
LEMMA Totals ==
    ASSUME NEW n, NEW d, NEW e, NEW a, NEW b, NEW c, NEW u, NEW v, Apart(n, d, e, a, b, c, u, v)
    PROVE  c[n] = u[n] + v[n] + 1 + d + e
<1> USE DEF Apart
<1>a. /\ c \in [0..n -> Nat] /\ u \in [0..n -> Nat] /\ v \in [0..n -> Nat]
      /\ \A i \in 1..n : u[i] + (IF i = 1 THEN d ELSE 0) = u[i - 1] + a[i]
      /\ \A i \in 1..n : v[i] + (IF i = 1 THEN 1 ELSE 0) = v[i - 1] + b[i]
  BY Zenon DEF SumsUp
<1>b. \A i \in 1..n : c[i] = c[i - 1] + a[i] + b[i]
  <2> TAKE i \in 1..n
  <2>1. c[i] + 0 = c[i - 1] + (a[i] + b[i])
    BY DEF SumsUp, Both
  <2>2. i \in 0..n /\ i - 1 \in 0..n
    OBVIOUS
  <2>3. c[i] \in Nat /\ c[i - 1] \in Nat /\ a[i] \in Nat /\ b[i] \in Nat
    BY <1>a, <2>2, Zenon
  <2> QED  BY <2>1, <2>3
<1> DEFINE T == {i \in 0..n : c[i] = u[i] + v[i] + e + (IF i = 0 THEN 0 ELSE 1 + d)}
<1>1. 0 \in T
  <2>1. c[0] \in Nat /\ u[0] \in Nat
    BY <1>a
  <2> QED  BY <2>1
<1>2. ASSUME NEW i \in 1..n, i - 1 \in T PROVE i \in T
  <2>1. i \in 0..n /\ i - 1 \in 0..n /\ i # 0 /\ (i - 1 = 0 <=> i = 1)
    OBVIOUS
  <2>2. /\ c[i] \in Nat /\ u[i] \in Nat /\ v[i] \in Nat /\ a[i] \in Nat /\ b[i] \in Nat
        /\ c[i - 1] \in Nat /\ u[i - 1] \in Nat /\ v[i - 1] \in Nat
    BY <1>a, <2>1, Zenon
  <2>3. c[i - 1] = u[i - 1] + v[i - 1] + e + (IF i = 1 THEN 0 ELSE 1 + d)
    BY <1>2, <2>1
  <2>4. /\ c[i] = c[i - 1] + a[i] + b[i]
        /\ u[i] + (IF i = 1 THEN d ELSE 0) = u[i - 1] + a[i]
        /\ v[i] + (IF i = 1 THEN 1 ELSE 0) = v[i - 1] + b[i]
    BY <1>a, <1>b, Zenon
  <2>5. c[i] = u[i] + v[i] + e + (1 + d)
    <3> DEFINE c1 == c[i]
               c0 == c[i - 1]
               u1 == u[i]
               u0 == u[i - 1]
               v1 == v[i]
               v0 == v[i - 1]
               a1 == a[i]
               b1 == b[i]
    <3>1. /\ c1 \in Nat /\ u1 \in Nat /\ v1 \in Nat /\ a1 \in Nat /\ b1 \in Nat
          /\ c0 \in Nat /\ u0 \in Nat /\ v0 \in Nat /\ d \in Nat /\ e \in Nat
      BY <2>2
    <3>2. /\ c1 = c0 + a1 + b1
          /\ c0 = u0 + v0 + e + (IF i = 1 THEN 0 ELSE 1 + d)
          /\ u1 + (IF i = 1 THEN d ELSE 0) = u0 + a1
          /\ v1 + (IF i = 1 THEN 1 ELSE 0) = v0 + b1
      BY <2>3, <2>4
    <3> HIDE DEF c1, c0, u1, u0, v1, v0, a1, b1, T
    <3>3. c1 = u1 + v1 + e + (1 + d)
      BY ONLY <3>1, <3>2
    <3> QED  BY <3>3 DEF c1, u1, v1
  <2> QED  BY <2>1, <2>5
<1>3. \A i \in 1..n : i - 1 \in T => i \in T
  BY <1>2
<1> HIDE DEF T
<1>4. 0..n \subseteq T
  BY <1>1, <1>3, UpTo, Zenon
<1>5. n \in T /\ n # 0
  BY <1>4
<1>6. c[n] = u[n] + v[n] + e + (1 + d)
  BY <1>5 DEF T
<1>7. u[n] \in Nat /\ v[n] \in Nat
  BY <1>a
<1> DEFINE x == u[n]
           y == v[n]
<1>8. x \in Nat /\ y \in Nat /\ c[n] = x + y + e + (1 + d)
  BY <1>6, <1>7
<1> HIDE DEF x, y
<1>9. x + y + e + (1 + d) = x + y + 1 + d + e
  BY <1>8
<1> QED  BY <1>8, <1>9, Zenon DEF x, y

(* The length of joined texts is the sum of their sizes less the last end. *)
LEMMA JoinedSizes ==
    ASSUME NEW n \in Nat, NEW s \in Seq(Seq(Symbols)), Len(s) = n,
           NEW a, SizesOf(a, s, n)
    PROVE  \E l : l[n] = Len(Joined(s)) /\ l[0] = 0 /\ SumsUp(l, n, a, 1)
<1>1. PICK l \in [0..n -> Nat] :
                /\ l[n] = Len(Joined(s)) /\ l[0] = 0
                /\ 1 \in 1..n => l[1] = Len(s[1])
                /\ \A i \in 2..n : l[i] = l[i - 1] + 1 + Len(s[i])
  BY JoinedLengths, Zenon
<1>2. ASSUME NEW i \in 1..n PROVE l[i] + (IF i = 1 THEN 1 ELSE 0) = l[i - 1] + a[i]
  <2> DEFINE x == l[i]
             y == l[i - 1]
             k == Len(s[i])
             m == a[i]
  <2>1. i \in 0..n /\ i - 1 \in 0..n /\ (i = 1 => i - 1 = 0 /\ 1 \in 1..n) /\ (i # 1 => i \in 2..n)
    OBVIOUS
  <2>2. s[i] \in Seq(Symbols)
    BY ElementOfSeq
  <2>3. x \in Nat /\ y \in Nat /\ k \in Nat /\ m = k + 1
    BY <2>1, <2>2, LenProperties DEF SizesOf
  <2>4. (i = 1 => x = k /\ y = 0) /\ (i # 1 => x = y + 1 + k)
    BY <1>1, <2>1
  <2> HIDE DEF x, y, k, m
  <2>5. x + (IF i = 1 THEN 1 ELSE 0) = y + m
    BY ONLY <2>3, <2>4
  <2> QED  BY <2>5 DEF x, y, m
<1>3. SumsUp(l, n, a, 1)
  BY <1>1, <1>2 DEF SumsUp
<1> QED  BY <1>1, <1>3, Zenon

(* The sizes of the units and of the values, as they are counted. *)
UnitSizes(type, pairs) == [i \in 1..Len(pairs) |-> Size(Unit(type, pairs[i].unit))]

ValueSizes(pairs) == [i \in 1..Len(pairs) |-> Size(pairs[i].value)]

(* The length of what is written for the values, *)
LEMMA ValueLengths ==
    ASSUME NEW pairs \in Seq(Pair), pairs # <<>>, \A i \in 1..Len(pairs) : pairs[i].value # Null
    PROVE  /\ Values(pairs) \in Seq(Symbols)
           /\ \E v : /\ v[Len(pairs)] = Len(Values(pairs)) /\ v[0] = 0
                    /\ SumsUp(v, Len(pairs), ValueSizes(pairs), 1)
<1> DEFINE n == Len(pairs)
           s == [i \in DOMAIN pairs |-> pairs[i].value]
           a == ValueSizes(pairs)
<1>1. n \in Nat /\ DOMAIN pairs = 1..n
  BY PairFacts
<1>2. \A i \in 1..n : pairs[i].value \in Seq(Symbols) /\ a[i] = Len(pairs[i].value) + 1
  <2> TAKE i \in 1..n
  <2>1. pairs[i].value \in String /\ pairs[i].value # Null
    BY PairFacts
  <2>2. Size(pairs[i].value) = Len(pairs[i].value) + 1 /\ pairs[i].value \in Seq(Symbols)
    BY <2>1, TextFacts
  <2> QED  BY <2>2 DEF ValueSizes
<1>3. s \in Seq(Seq(Symbols)) /\ Len(s) = n /\ \A i \in 1..n : s[i] = pairs[i].value
  <2>1. s = [i \in 1..n |-> pairs[i].value]
    BY <1>1
  <2>2. s \in Seq(Seq(Symbols))
    BY <1>1, <1>2, <2>1, IsASeq
  <2> QED  BY <1>1, <2>1, <2>2
<1>4. Values(pairs) = Joined(s)
  BY ValuesAreJoined
<1> HIDE DEF n, s, a
<1>5. SizesOf(a, s, n)
  BY <1>2, <1>3, Zenon DEF SizesOf
<1>6. \E l : l[n] = Len(Joined(s)) /\ l[0] = 0 /\ SumsUp(l, n, a, 1)
  BY <1>1, <1>3, <1>5, JoinedSizes
<1>7. Joined(s) \in Seq(Symbols)
  BY <1>1, <1>3, JoinedLengths, Zenon
<1> QED  BY <1>4, <1>6, <1>7, Zenon DEF n, a

(* Without a type, when every pair has a unit. *)
LEMMA GivenUnitLengths ==
    ASSUME NEW pairs \in Seq(Pair), pairs # <<>>, pairs[1].unit # <<>>,
           \A i \in 1..Len(pairs) : pairs[i].unit # Null
    PROVE  /\ Units(Null, pairs) \in Seq(Symbols)
           /\ \E u : /\ u[Len(pairs)] = Len(Units(Null, pairs)) /\ u[0] = 0
                    /\ SumsUp(u, Len(pairs), UnitSizes(Null, pairs), 1)
<1> DEFINE n == Len(pairs)
           s == UnitTexts(Null, pairs)
           a == UnitSizes(Null, pairs)
<1>1. n \in Nat /\ Null \in String
  BY PairFacts DEF String
<1>2. /\ s \in Seq(Seq(Symbols)) /\ Len(s) = n
      /\ \A i \in 1..n : s[i] = Text(Unit(Null, pairs[i].unit))
  BY <1>1, UnitTextsFacts
<1>3. SizesOf(a, s, n)
  <2> SUFFICES \A i \in 1..n : a[i] = Len(s[i]) + 1
    BY DEF SizesOf
  <2> TAKE i \in 1..n
  <2>1. pairs[i].unit \in String /\ pairs[i].unit # Null
    BY PairFacts
  <2>2. /\ Size(pairs[i].unit) = Len(pairs[i].unit) + 1
        /\ Text(pairs[i].unit) = pairs[i].unit /\ Unit(Null, pairs[i].unit) = pairs[i].unit
    BY <1>1, <2>1, TextFacts
  <2>3. a[i] = Size(Unit(Null, pairs[i].unit))
    BY DEF UnitSizes
  <2> QED  BY <1>2, <2>2, <2>3, Zenon
<1>4. Units(Null, pairs) = Joined(s)
  BY GivenUnitsAreJoined
<1> HIDE DEF n, s, a
<1>5. \E l : l[n] = Len(Joined(s)) /\ l[0] = 0 /\ SumsUp(l, n, a, 1)
  BY <1>1, <1>2, <1>3, JoinedSizes
<1>6. Joined(s) \in Seq(Symbols)
  BY <1>1, <1>2, JoinedLengths
<1> QED  BY <1>4, <1>5, <1>6, Zenon DEF n, a

(* With a type. *)
LEMMA TypedUnitLengths ==
    ASSUME NEW type \in String, type # Null, type # <<>>, NEW pairs \in Seq(Pair)
    PROVE  /\ Units(type, pairs) \in Seq(Symbols) /\ Units(type, pairs) # <<>>
           /\ \E u : /\ u[Len(pairs)] = Len(Units(type, pairs)) /\ u[0] = Len(type)
                    /\ SumsUp(u, Len(pairs), UnitSizes(type, pairs), 0)
<1> DEFINE n == Len(pairs)
           s == UnitTexts(type, pairs)
           z == <<type>> \o s
           a == UnitSizes(type, pairs)
           X == Seq(Symbols)
<1>1. n \in Nat /\ type \in X
  BY PairFacts, TextFacts
<1>2. s \in Seq(X) /\ Len(s) = n /\ \A i \in 1..n : s[i] = Text(Unit(type, pairs[i].unit)) /\ s[i] \in X
  BY UnitTextsFacts
<1>3. \A i \in 1..n : a[i] = Len(s[i]) + 1
  <2> TAKE i \in 1..n
  <2>1. pairs[i].unit \in String
    BY PairFacts
  <2>2. Size(Unit(type, pairs[i].unit)) = Len(Text(Unit(type, pairs[i].unit))) + 1
    BY <2>1, TextFacts
  <2>3. a[i] = Size(Unit(type, pairs[i].unit))
    BY DEF UnitSizes
  <2> QED  BY <1>2, <2>2, <2>3, Zenon
<1>4. Units(type, pairs) = Joined(z)
  BY TypedUnitsAreJoined
<1> HIDE DEF n, s, a
<1>5. z \in Seq(X) /\ Len(z) = n + 1 /\ z[1] = type /\ \A i \in 1..n : z[i + 1] = s[i]
  <2> HIDE DEF X
  <2>1. <<type>> \in Seq(X) /\ Len(<<type>>) = 1 /\ <<type>>[1] = type
    BY <1>1
  <2> QED  BY <1>1, <1>2, <2>1, ConcatProperties, SMTT(60)
<1> HIDE DEF z
<1>6. n + 1 \in Nat
  BY <1>1
<1>7. PICK l \in [0..(n + 1) -> Nat] :
        /\ l[n + 1] = Len(Joined(z)) /\ l[0] = 0
        /\ 1 \in 1..(n + 1) => l[1] = Len(z[1])
        /\ \A i \in 2..(n + 1) : l[i] = l[i - 1] + 1 + Len(z[i])
  BY <1>5, <1>6, JoinedLengths, Zenon
<1>8. Joined(z) \in X
  BY <1>5, <1>6, JoinedLengths
<1> HIDE DEF X
<1> DEFINE u == [i \in 0..n |-> l[i + 1]]
<1>9. u \in [0..n -> Nat] /\ u[n] = Len(Joined(z)) /\ u[0] = Len(type)
  <2>1. \A i \in 0..n : l[i + 1] \in Nat
    BY <1>1
  <2>2. 0 \in 0..n /\ n \in 0..n /\ 0 + 1 = 1 /\ 1 \in 1..(n + 1)
    BY <1>1
  <2> QED  BY <1>5, <1>7, <2>1, <2>2
<1>10. ASSUME NEW i \in 1..n PROVE u[i] + (IF i = 1 THEN 0 ELSE 0) = u[i - 1] + a[i]
  <2> DEFINE x == l[i + 1]
             y == l[i]
             k == Len(s[i])
             m == a[i]
  <2>1. /\ i \in 0..n /\ i - 1 \in 0..n /\ i + 1 \in 2..(n + 1) /\ (i + 1) - 1 = i /\ (i - 1) + 1 = i
        /\ i \in 0..(n + 1) /\ i + 1 \in 0..(n + 1)
    BY <1>1
  <2>2. s[i] \in Seq(Symbols) /\ z[i + 1] = s[i]
    BY <1>2, <1>5 DEF X
  <2>3. x \in Nat /\ y \in Nat /\ k \in Nat
    BY <2>1, <2>2, LenProperties
  <2>4. x = y + 1 + k
    BY <1>7, <2>1, <2>2, Zenon
  <2>5. m = k + 1
    BY <1>3
  <2>6. u[i] = x /\ u[i - 1] = y
    BY <2>1, Zenon
  <2> HIDE DEF x, y, k, m, u
  <2>7. x + (IF i = 1 THEN 0 ELSE 0) = y + m
    BY ONLY <2>3, <2>4, <2>5
  <2> QED  BY <2>6, <2>7, Zenon DEF m
<1>11. SumsUp(u, n, a, 0)
  BY <1>9, <1>10, Zenon DEF SumsUp
<1>12. Joined(z) # <<>>
  <2>1. Len(type) \in Nat /\ Len(type) # 0
    BY <1>1, EmptySeq, LenProperties DEF X
  <2>2. ASSUME n # 0 PROVE l[n + 1] # 0
    <3>1. n + 1 \in 2..(n + 1) /\ (n + 1) - 1 = n /\ n \in 1..n /\ n \in 0..(n + 1)
      BY <1>1, <2>2
    <3>2. l[n + 1] = l[n] + 1 + Len(z[n + 1]) /\ z[n + 1] = s[n]
      BY <1>5, <1>7, <3>1, Zenon
    <3>3. l[n] \in Nat /\ Len(s[n]) \in Nat
      BY <1>2, <3>1, LenProperties DEF X
    <3> QED  BY <3>2, <3>3
  <2>3. ASSUME n = 0 PROVE l[n + 1] # 0
    BY <1>9, <2>1, <2>3
  <2>4. Len(Joined(z)) # 0
    BY <1>7, <2>2, <2>3
  <2> QED  BY <1>8, <2>4, EmptySeq DEF X
<1> HIDE DEF u
<1> QED  BY <1>4, <1>8, <1>9, <1>11, <1>12, Zenon DEF n, a, X

(* What CayenneBuildDataPayload counts. *)
LEMMA CountedSums ==
    ASSUME NEW type \in String, NEW pairs \in Seq(Pair)
    PROVE  /\ UnitSizes(type, pairs) \in [1..Len(pairs) -> Nat]
           /\ ValueSizes(pairs) \in [1..Len(pairs) -> Nat]
           /\ \E c : /\ Counted(type, pairs) = c[Len(pairs)] /\ c[0] = Size(type)
                    /\ SumsUp(c, Len(pairs), Both(Len(pairs), UnitSizes(type, pairs), ValueSizes(pairs)), 0)
<1> DEFINE n == Len(pairs)
           a == UnitSizes(type, pairs)
           b == ValueSizes(pairs)
           t == Both(n, a, b)
<1>1. n \in Nat
  BY PairFacts
<1>2. \A i \in 1..n : Size(Unit(type, pairs[i].unit)) \in Nat /\ Size(pairs[i].value) \in Nat
  BY PairFacts, TextFacts, SizeFacts, Zenon
<1>3. /\ a \in [1..n -> Nat] /\ b \in [1..n -> Nat]
      /\ \A i \in 1..n : a[i] = Size(Unit(type, pairs[i].unit)) /\ b[i] = Size(pairs[i].value)
  BY <1>2 DEF UnitSizes, ValueSizes
<1>4. PICK c \in [0..n -> Nat] :
        /\ Counted(type, pairs) = c[n] /\ c[0] = Size(type)
        /\ \A i \in 1..n : c[i] = c[i - 1] + Size(Unit(type, pairs[i].unit)) + Size(pairs[i].value)
  BY CountedLoop
<1>5. ASSUME NEW i \in 1..n PROVE c[i] + (IF i = 1 THEN 0 ELSE 0) = c[i - 1] + t[i]
  <2> DEFINE x == c[i]
             y == c[i - 1]
             k == Size(Unit(type, pairs[i].unit))
             m == Size(pairs[i].value)
  <2>1. i \in 0..n /\ i - 1 \in 0..n
    BY <1>1
  <2>2. x \in Nat /\ y \in Nat /\ k \in Nat /\ m \in Nat
    BY <1>2, <2>1, Zenon
  <2>3. x = y + k + m
    BY <1>4
  <2>4. t[i] = k + m
    BY <1>3 DEF Both
  <2> HIDE DEF x, y, k, m, t
  <2>5. x + (IF i = 1 THEN 0 ELSE 0) = y + (k + m)
    BY ONLY <2>2, <2>3
  <2> QED  BY <2>4, <2>5, Zenon DEF x, y
<1>6. SumsUp(c, n, t, 0)
  <2> HIDE DEF t
  <2> QED  BY <1>4, <1>5 DEF SumsUp
<1> QED  BY <1>3, <1>4, <1>6

(* A text with an equals sign between its parts. *)
LEMMA Equation ==
    ASSUME NEW s \in Seq(Symbols), NEW t \in Seq(Symbols)
    PROVE  Len((s \o <<"=">>) \o t) = Len(s) + 1 + Len(t) /\ Len((<<>> \o <<>>) \o t) = Len(t)
<1> DEFINE r == s \o <<"=">>
<1>1. <<"=">> \in Seq(Symbols) /\ <<>> \in Seq(Symbols) /\ Len(<<"=">>) = 1
  BY CommaFacts, Zenon
<1>2. r \in Seq(Symbols) /\ Len(r) = Len(s) + 1
  BY <1>1, ConcatProperties
<1> HIDE DEF r
<1>3. Len(r \o t) = Len(r) + Len(t)
  BY <1>2, ConcatProperties, Zenon
<1>4. <<>> \o <<>> = <<>> /\ <<>> \o t = t
  BY <1>1, ConcatEmptySeq
<1> QED  BY <1>2, <1>3, <1>4 DEF r

(* The payload with a type, *)
LEMMA PayloadOfTyped ==
    ASSUME NEW type \in String, NEW pairs \in Seq(Pair), Regular(type, pairs), type # Null
    PROVE  /\ Payload(type, pairs) = Format(type, pairs)
           /\ Counted(type, pairs) = Len(Payload(type, pairs)) + 1 /\ Len(Payload(type, pairs)) \in Nat
<1> DEFINE n == Len(pairs)
           U == Units(type, pairs)
           V == Values(pairs)
<1>1. /\ n \in Nat /\ n >= 1 /\ DOMAIN pairs = 1..n /\ pairs # <<>> /\ type # <<>>
      /\ \A i \in 1..n : pairs[i].value # Null
  BY PairFacts, EmptySeq DEF Regular
<1>2. U \in Seq(Symbols) /\ U # <<>> /\ V \in Seq(Symbols)
  BY <1>1, TypedUnitLengths, ValueLengths
<1>3. PICK u : u[n] = Len(U) /\ u[0] = Len(type) /\ SumsUp(u, n, UnitSizes(type, pairs), 0)
  BY <1>1, TypedUnitLengths
<1>4. PICK v : v[n] = Len(V) /\ v[0] = 0 /\ SumsUp(v, n, ValueSizes(pairs), 1)
  BY <1>1, ValueLengths
<1>5. /\ UnitSizes(type, pairs) \in [1..n -> Nat] /\ ValueSizes(pairs) \in [1..n -> Nat]
      /\ Size(type) = Len(type) + 1
  BY CountedSums, TextFacts
<1>6. PICK c : /\ Counted(type, pairs) = c[n] /\ c[0] = Size(type)
               /\ SumsUp(c, n, Both(n, UnitSizes(type, pairs), ValueSizes(pairs)), 0)
  BY CountedSums
<1>7. Payload(type, pairs) = (U \o <<"=">>) \o V
  <2>1. Present(pairs, 1)
    BY <1>1 DEF Present
  <2> QED  BY <1>1, <1>2, <2>1 DEF Payload
<1>8. U = Joined(<<type>> \o UnitTexts(type, pairs)) /\ V = Joined([i \in DOMAIN pairs |-> pairs[i].value])
  BY <1>1, TypedUnitsAreJoined, ValuesAreJoined
<1>9. Payload(type, pairs) = Format(type, pairs)
  <2> HIDE DEF U, V
  <2> QED  BY <1>7, <1>8 DEF Format, UnitTexts
<1>10. Len(U) \in Nat /\ Len(V) \in Nat
  BY <1>2, LenProperties
<1> HIDE DEF n, U, V
<1>11. c[n] = u[n] + v[n] + 1 + 0 + 1
  <2> DEFINE d == 0
             e == 1
  <2>1. d \in Nat /\ e \in Nat /\ c[0] = u[0] + e /\ SumsUp(u, n, UnitSizes(type, pairs), d)
    BY <1>3, <1>5, <1>6
  <2> HIDE DEF d, e
  <2>2. c[n] = u[n] + v[n] + 1 + d + e
    <3>1. Apart(n, d, e, UnitSizes(type, pairs), ValueSizes(pairs), c, u, v)
      BY <1>1, <1>4, <1>5, <1>6, <2>1, Zenon DEF Apart
    <3> QED  BY <3>1, Totals, SMTT(60)
  <2> QED  BY <2>2, Zenon DEF d, e
<1>12. Len(Payload(type, pairs)) = Len(U) + 1 + Len(V)
  BY <1>2, <1>7, Equation
<1> DEFINE x == Len(U)
           y == Len(V)
<1>13. x \in Nat /\ y \in Nat /\ Counted(type, pairs) = x + y + 1 + 0 + 1 /\ Len(Payload(type, pairs)) = x + 1 + y
  BY <1>3, <1>4, <1>6, <1>10, <1>11, <1>12
<1> HIDE DEF x, y
<1>14. Counted(type, pairs) = Len(Payload(type, pairs)) + 1 /\ Len(Payload(type, pairs)) \in Nat
  BY ONLY <1>13
<1> QED  BY <1>9, <1>14

(* without a type but with units, *)
LEMMA PayloadOfGiven ==
    ASSUME NEW pairs \in Seq(Pair), Regular(Null, pairs), pairs[1].unit # Null
    PROVE  /\ Payload(Null, pairs) = Format(Null, pairs)
           /\ Counted(Null, pairs) = Len(Payload(Null, pairs)) + 1 /\ Len(Payload(Null, pairs)) \in Nat
<1> DEFINE n == Len(pairs)
           U == Units(Null, pairs)
           V == Values(pairs)
<1>1. /\ n \in Nat /\ n >= 1 /\ DOMAIN pairs = 1..n /\ pairs # <<>>
      /\ \A i \in 1..n : pairs[i].value # Null
  BY PairFacts, EmptySeq DEF Regular
<1>2. pairs[1].unit # <<>> /\ \A i \in 1..n : pairs[i].unit # Null
  <2>1. 1 \in DOMAIN pairs
    BY <1>1
  <2> QED  BY <1>1, <2>1 DEF Regular
<1>3. Null \in String /\ Size(Null) = 0
  BY DEF String, Size
<1>4. U \in Seq(Symbols) /\ U # <<>> /\ V \in Seq(Symbols)
  BY <1>1, <1>2, GivenUnitLengths, GivenUnitsAreJoined, ValueLengths
<1>5. PICK u : u[n] = Len(U) /\ u[0] = 0 /\ SumsUp(u, n, UnitSizes(Null, pairs), 1)
  BY <1>1, <1>2, GivenUnitLengths
<1>6. PICK v : v[n] = Len(V) /\ v[0] = 0 /\ SumsUp(v, n, ValueSizes(pairs), 1)
  BY <1>1, ValueLengths
<1>7. UnitSizes(Null, pairs) \in [1..n -> Nat] /\ ValueSizes(pairs) \in [1..n -> Nat]
  BY <1>3, CountedSums
<1>8. PICK c : /\ Counted(Null, pairs) = c[n] /\ c[0] = Size(Null)
               /\ SumsUp(c, n, Both(n, UnitSizes(Null, pairs), ValueSizes(pairs)), 0)
  BY <1>3, CountedSums
<1>9. Payload(Null, pairs) = (U \o <<"=">>) \o V
  <2>1. Present(pairs, 1)
    BY <1>1 DEF Present
  <2> QED  BY <1>1, <1>4, <2>1 DEF Payload
<1>10. U = Joined(UnitTexts(Null, pairs)) /\ V = Joined([i \in DOMAIN pairs |-> pairs[i].value])
  BY <1>1, <1>2, GivenUnitsAreJoined, ValuesAreJoined
<1>11. Payload(Null, pairs) = Format(Null, pairs)
  <2> HIDE DEF U, V
  <2> QED  BY <1>9, <1>10 DEF Format, UnitTexts
<1>12. Len(U) \in Nat /\ Len(V) \in Nat
  BY <1>4, LenProperties
<1> HIDE DEF n, U, V
<1>13. c[n] = u[n] + v[n] + 1 + 1 + 0
  <2> DEFINE d == 1
             e == 0
  <2>1. d \in Nat /\ e \in Nat /\ c[0] = u[0] + e /\ SumsUp(u, n, UnitSizes(Null, pairs), d)
    BY <1>3, <1>5, <1>8
  <2> HIDE DEF d, e
  <2>2. c[n] = u[n] + v[n] + 1 + d + e
    <3>1. Apart(n, d, e, UnitSizes(Null, pairs), ValueSizes(pairs), c, u, v)
      BY <1>1, <1>6, <1>7, <1>8, <2>1, Zenon DEF Apart
    <3> QED  BY <3>1, Totals, SMTT(60)
  <2> QED  BY <2>2, Zenon DEF d, e
<1>14. Len(Payload(Null, pairs)) = Len(U) + 1 + Len(V)
  BY <1>4, <1>9, Equation
<1> DEFINE x == Len(U)
           y == Len(V)
<1>15. x \in Nat /\ y \in Nat /\ Counted(Null, pairs) = x + y + 1 + 1 + 0 /\ Len(Payload(Null, pairs)) = x + 1 + y
  BY <1>5, <1>6, <1>8, <1>12, <1>13, <1>14
<1> HIDE DEF x, y
<1>16. Counted(Null, pairs) = Len(Payload(Null, pairs)) + 1 /\ Len(Payload(Null, pairs)) \in Nat
  BY ONLY <1>15
<1> QED  BY <1>11, <1>16

(* and without either. *)
LEMMA PayloadOfValues ==
    ASSUME NEW pairs \in Seq(Pair), Regular(Null, pairs), pairs[1].unit = Null
    PROVE  /\ Payload(Null, pairs) = Format(Null, pairs)
           /\ Counted(Null, pairs) = Len(Payload(Null, pairs)) + 1 /\ Len(Payload(Null, pairs)) \in Nat
<1> DEFINE n == Len(pairs)
           U == Units(Null, pairs)
           V == Values(pairs)
           u == [i \in 0..n |-> 0]
<1>1. /\ n \in Nat /\ n >= 1 /\ DOMAIN pairs = 1..n /\ pairs # <<>>
      /\ \A i \in 1..n : pairs[i].value # Null
  BY PairFacts, EmptySeq, SMTT(60) DEF Regular
<1>2. \A i \in 1..n : pairs[i].unit = Null
  <2>1. 1 \in DOMAIN pairs
    BY <1>1
  <2> QED  BY <1>1, <2>1 DEF Regular
<1>3. Null \in String /\ Size(Null) = 0
  BY DEF String, Size
<1>4. U = <<>> /\ V \in Seq(Symbols)
  BY <1>1, <1>2, NoUnitsAreWritten, ValueLengths
<1>5. PICK v : v[n] = Len(V) /\ v[0] = 0 /\ SumsUp(v, n, ValueSizes(pairs), 1)
  BY <1>1, ValueLengths
<1>6. UnitSizes(Null, pairs) \in [1..n -> Nat] /\ ValueSizes(pairs) \in [1..n -> Nat]
  BY <1>3, CountedSums
<1>7. PICK c : /\ Counted(Null, pairs) = c[n] /\ c[0] = Size(Null)
               /\ SumsUp(c, n, Both(n, UnitSizes(Null, pairs), ValueSizes(pairs)), 0)
  BY <1>3, CountedSums
<1>8. \A i \in 1..n : UnitSizes(Null, pairs)[i] = 0
  BY <1>2, <1>3 DEF UnitSizes, Unit
<1>9. Payload(Null, pairs) = (<<>> \o <<>>) \o V
  BY <1>4 DEF Payload
<1>10. V = Joined([i \in DOMAIN pairs |-> pairs[i].value])
  BY <1>1, ValuesAreJoined
<1>11. Payload(Null, pairs) = V
  <2>1. <<>> \o <<>> = <<>> /\ <<>> \o V = V
    BY <1>4, CommaFacts, ConcatEmptySeq, Zenon
  <2> QED  BY <1>9, <2>1, Zenon
<1>12. Payload(Null, pairs) = Format(Null, pairs)
  <2> HIDE DEF V
  <2> QED  BY <1>10, <1>11 DEF Format
<1>13. Len(V) \in Nat
  BY <1>4, LenProperties
<1> HIDE DEF n, U, V
<1>14. u[n] = 0 /\ u[0] = 0 /\ SumsUp(u, n, UnitSizes(Null, pairs), 0)
  <2>1. u \in [0..n -> Nat] /\ u[n] = 0 /\ u[0] = 0
    BY <1>1
  <2>2. \A i \in 1..n : u[i] + (IF i = 1 THEN 0 ELSE 0) = u[i - 1] + UnitSizes(Null, pairs)[i]
    <3> TAKE i \in 1..n
    <3>1. i \in 0..n /\ i - 1 \in 0..n
      BY <1>1
    <3>2. u[i] = 0 /\ u[i - 1] = 0 /\ UnitSizes(Null, pairs)[i] = 0
      BY <1>8, <3>1
    <3> HIDE DEF u
    <3> QED  BY <3>2
  <2> HIDE DEF u
  <2> QED  BY <2>1, <2>2 DEF SumsUp
<1> HIDE DEF u
<1>15. c[n] = u[n] + v[n] + 1 + 0 + 0
  <2> DEFINE d == 0
  <2>1. d \in Nat /\ c[0] = u[0] + d /\ SumsUp(u, n, UnitSizes(Null, pairs), d)
    BY <1>3, <1>7, <1>14
  <2> HIDE DEF d
  <2>2. Apart(n, d, d, UnitSizes(Null, pairs), ValueSizes(pairs), c, u, v)
    BY <1>1, <1>5, <1>6, <1>7, <2>1, Zenon DEF Apart
  <2>3. c[n] = u[n] + v[n] + 1 + d + d
    BY <2>2, Totals, SMTT(60)
  <2> QED  BY <2>3, Zenon DEF d
<1> DEFINE y == Len(V)
<1>16. y \in Nat /\ Counted(Null, pairs) = 0 + y + 1 + 0 + 0 /\ Len(Payload(Null, pairs)) = y
  BY <1>5, <1>7, <1>11, <1>13, <1>14, <1>15
<1> HIDE DEF y
<1>17. Counted(Null, pairs) = Len(Payload(Null, pairs)) + 1 /\ Len(Payload(Null, pairs)) \in Nat
  BY ONLY <1>16
<1> QED  BY <1>12, <1>17

(* CayenneBuildDataPayload writes the text of the pairs, and what it counts *)
(* beforehand is the length of that text with its end.                      *)
LEMMA PayloadFormat ==
    ASSUME NEW type \in String, NEW pairs \in Seq(Pair), Regular(type, pairs)
    PROVE  /\ Payload(type, pairs) = Format(type, pairs)
           /\ Counted(type, pairs) = Len(Payload(type, pairs)) + 1 /\ Len(Payload(type, pairs)) \in Nat
<1>1. CASE type # Null
  BY <1>1, PayloadOfTyped
<1>2. CASE type = Null /\ pairs[1].unit # Null
  BY <1>2, PayloadOfGiven
<1>3. CASE type = Null /\ pairs[1].unit = Null
  BY <1>3, PayloadOfValues
<1> QED  BY <1>1, <1>2, <1>3

-----------------------------------------------------------------------------
(* A pointer into the buffer reads as the string it points at. *)
LEMMA ReadsAs ==
    ASSUME ArrayInv, NEW p \in Pointer, NEW s \in String, PointsAt(p, s, buffer, bufferIndex)
    PROVE  StringAt(p) = s
<1>1. CASE p = Null
  BY <1>1 DEF PointsAt, StringAt
<1>2. CASE p # Null
  <2> DEFINE K == {k \in Offsets : k >= p /\ buffer[k] = Nul}
             e == p + Len(s)
  <2>1. /\ s # Null /\ e < bufferIndex /\ buffer[e] = Nul
        /\ \A i \in 1..Len(s) : buffer[p + i - 1] = s[i]
    BY <1>2 DEF PointsAt
  <2>2. s \in Seq(Char) /\ Len(s) \in Nat /\ p \in Nat /\ bufferSize \in Nat /\ bufferIndex \in Nat /\ bufferIndex <= bufferSize
    BY <1>2, <2>1, SizeFacts, DataArrayAssumption, SMTT(60) DEF Pointer, Offsets, ArrayInv, ArrayTypeOK, StringsIntact
  <2>3. e \in K
    BY <2>1, <2>2, SMTT(60) DEF Offsets
  <2>4. ASSUME NEW k \in K PROVE e <= k
    <3>1. SUFFICES ASSUME k < e PROVE FALSE
      BY <2>2 DEF Offsets
    <3>2. (k - p) + 1 \in 1..Len(s) /\ p + ((k - p) + 1) - 1 = k
      BY <2>2, <3>1 DEF Offsets
    <3>3. buffer[k] = s[(k - p) + 1]
      BY <2>1, <3>2
    <3>4. s[(k - p) + 1] \in Char
      BY <2>2, <3>2, ElementOfSeq
    <3> QED  BY <3>3, <3>4, DataArrayAssumption
  <2>5. Min(K) = e
    <3>1. e \in Int /\ \A k \in K : k \in Int
      BY <2>2 DEF Offsets
    <3>2. \A m \in K : (\A k \in K : m <= k) => m = e
      BY <2>3, <2>4, <3>1
    <3> HIDE DEF K, e
    <3> QED  BY <2>3, <2>4, <3>2 DEF Min
  <2>6. StringAt(p) = [i \in 1..(e - p) |-> buffer[p + i - 1]]
    BY <1>2, <2>5 DEF StringAt
  <2>7. e - p = Len(s)
    BY <2>2
  <2>8. s = [i \in 1..Len(s) |-> s[i]]
    BY <2>2, LenProperties
  <2> QED  BY <2>1, <2>6, <2>7, <2>8
<1> QED  BY <1>1, <1>2

(* So the pairs CayenneMQTTPublishDataArray reads are those that were added. *)
PairsRead == [i \in DOMAIN values |-> [unit |-> StringAt(values[i].unit), value |-> StringAt(values[i].value)]]

(* They read as they were added. *)
LEMMA ReadAsAdded ==
    ASSUME ArrayInv
    PROVE  PairsRead = added
<1>1. /\ values \in Seq([unit : Pointer, value : Pointer]) /\ added \in Seq(Pair)
      /\ Len(values) = Len(added) /\ Len(values) \in Nat
  BY LenProperties DEF ArrayInv, ArrayTypeOK, StringsIntact
<1>2. ASSUME NEW i \in 1..Len(values)
      PROVE  [unit |-> StringAt(values[i].unit), value |-> StringAt(values[i].value)] = added[i]
  <2>1. values[i] \in [unit : Pointer, value : Pointer] /\ added[i] \in Pair
    BY <1>1, ElementOfSeq, Zenon
  <2>2. PointsAt(values[i].unit, added[i].unit, buffer, bufferIndex) /\ PointsAt(values[i].value, added[i].value, buffer, bufferIndex)
    BY DEF ArrayInv, StringsIntact
  <2>3. added[i].unit \in String /\ added[i].value \in String /\ added[i] = [unit |-> added[i].unit, value |-> added[i].value]
    BY <2>1 DEF Pair
  <2>4. values[i].unit \in Pointer /\ values[i].value \in Pointer
    BY <2>1
  <2>5. StringAt(values[i].unit) = added[i].unit /\ StringAt(values[i].value) = added[i].value
    BY <2>2, <2>3, <2>4, ReadsAs
  <2> QED  BY <2>3, <2>5
<1>3. DOMAIN values = 1..Len(values) /\ added = [i \in 1..Len(values) |-> added[i]]
  BY <1>1, LenProperties
<1> QED  BY <1>2, <1>3 DEF PairsRead

-----------------------------------------------------------------------------
(* What has been published is the payload of the pairs in the array. *)
PublishedInv ==
    published = None
    \/ \E type \in Types :
         /\ Counted(type, added) <= Room
         /\ published = [topic |-> "data", type |-> type, payload |-> Payload(type, added),
                         length |-> (Counted(type, added) - 1) % SizeBound]

(* Every step keeps it. *)
LEMMA PublishedStep ==
    ASSUME CollectInv, PublishedInv, [Next]_vars
    PROVE  PublishedInv'
<1>1. ASSUME UNCHANGED <<added, published>> PROVE PublishedInv'
  BY <1>1 DEF PublishedInv
<1>2. CASE BeginArray
  BY <1>1, <1>2 DEF BeginArray
<1>3. CASE Collect
  BY <1>3 DEF Collect, PublishedInv
<1>4. CASE EndArray
  BY <1>4 DEF EndArray, PublishedInv
<1>5. ASSUME NEW type \in Types, CayenneMQTTPublishDataArray(type) PROVE PublishedInv'
  <2>1. PairsRead = added
    BY ReadAsAdded DEF CollectInv
  <2>2. /\ Counted(type, added) <= Room
        /\ published' = [topic |-> "data", type |-> type, payload |-> Payload(type, added),
                         length |-> (Counted(type, added) - 1) % SizeBound]
        /\ added' = added
    BY <1>5, <2>1 DEF CayenneMQTTPublishDataArray, PairsRead, arrayVars
  <2> QED  BY <2>2 DEF PublishedInv
<1>6. CASE UNCHANGED publishVars
  BY <1>1, <1>6 DEF publishVars, arrayVars
<1>7. CayenneMQTTClientInit \/ Call => UNCHANGED publishVars
  BY Zenon DEF CayenneMQTTClientInit, Call, Begin, SubscribeSucceeds, UnsubscribeSucceeds,
         UnsubscribeCrashes, CallReturns
<1>8. Dispatch => UNCHANGED publishVars
  BY Zenon DEF Dispatch, MQTTMessageArrived, MessageDropped, HandlerCalled, SlotPassedOver,
         DispatchCrashes, HandlerReturns, DefaultCalled, DispatchEnds
<1>9. CASE UNCHANGED vars
  BY <1>6, <1>9 DEF vars
<1> QED  BY <1>2, <1>3, <1>4, <1>5, <1>6, <1>7, <1>8, <1>9 DEF Next, Publish

(* It says what PayloadIsCounted says. *)
LEMMA PublishedIsText ==
    ASSUME CollectInv, PublishedInv
    PROVE  PayloadIsCounted
<1> SUFFICES ASSUME published # None, Regular(published.type, added)
             PROVE  /\ published.payload = Format(published.type, added)
                    /\ published.length = Len(published.payload)
                    /\ Len(published.payload) < Room
  BY DEF PayloadIsCounted
<1>1. PICK type \in Types :
         /\ Counted(type, added) <= Room
         /\ published = [topic |-> "data", type |-> type, payload |-> Payload(type, added),
                         length |-> (Counted(type, added) - 1) % SizeBound]
  BY DEF PublishedInv
<1>2. /\ published.type = type /\ published.payload = Payload(type, added)
      /\ published.length = (Counted(type, added) - 1) % SizeBound
  BY <1>1
<1>3. type \in String /\ added \in Seq(Pair) /\ Regular(type, added)
  BY <1>2, MessagesAssumption DEF CollectInv, ArrayInv, ArrayTypeOK
<1> DEFINE t == Payload(type, added)
           k == Len(t)
           m == Counted(type, added)
<1>4. t = Format(type, added) /\ m = k + 1 /\ k \in Nat
  BY <1>3, PayloadFormat
<1>5. m <= Room /\ Room \in Nat /\ SizeBound \in Nat /\ Room < SizeBound
  BY <1>1, MessagesAssumption
<1> HIDE DEF t, k, m
<1>6. (m - 1) % SizeBound = k /\ k < Room
  <2>1. m - 1 = k /\ k < Room /\ k < SizeBound
    BY <1>4, <1>5
  <2>2. k % SizeBound = k
    BY <1>4, <1>5, <2>1
  <2> QED  BY <2>1, <2>2, Zenon
<1> QED  BY <1>2, <1>4, <1>6, Zenon DEF t, k, m

(* The payload that is published is the text of the pairs that were added, *)
(* it and its end fit into the buffer, and the length passed on to the     *)
(* MQTT client, counted before the text is put together, is its length.    *)
THEOREM PayloadAsCounted == Spec => []PayloadIsCounted
<1>1. Init => CollectInv /\ PublishedInv
  BY CollectInit, Zenon DEF Init, PublishedInv
<1>2. CollectInv /\ PublishedInv /\ [Next]_vars => CollectInv' /\ PublishedInv'
  BY CollectStep, PublishedStep
<1>3. CollectInv /\ PublishedInv => PayloadIsCounted
  BY PublishedIsText
<1> QED  BY <1>1, <1>2, <1>3, PTL DEF Spec

=============================================================================
