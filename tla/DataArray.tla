----------------------------- MODULE DataArray ------------------------------
(***************************************************************************)
(* CayenneUtils/CayenneDataArray.c: unit/value pairs that an application   *)
(* collects for one message.  The strings are copied, one behind the       *)
(* other, into a buffer the application provides, and the pairs point into *)
(* it.                                                                     *)
(***************************************************************************)
EXTENDS Integers, Sequences

CONSTANTS
    Char,        \* the characters of a string
    Nul,         \* the character that ends it
    Null,        \* the null pointer
    bufferSize,  \* the size of the application's buffer
    MaxValues    \* CAYENNE_MAX_MESSAGE_VALUES (4)

ASSUME DataArrayAssumption ==
    /\ Nul \notin Char
    /\ Null \notin Seq(Char) /\ Null \notin Int
    /\ bufferSize \in Nat /\ MaxValues \in Nat

VARIABLES
    bufferIndex,  \* where the next string goes
    buffer,       \* the characters in the buffer
    values,       \* the pairs of pointers, as offsets into the buffer; valueCount is its length
    added         \* the pairs of strings that were added

arrayVars == <<bufferIndex, buffer, values, added>>

Offsets == 0..bufferSize - 1

String == Seq(Char) \cup {Null}

Pair == [unit : String, value : String]

Pointer == Offsets \cup {Null}

(* CayenneDataArrayInit; what is in the buffer is left there *)
ArrayInit ==
    /\ bufferIndex = 0
    /\ \E c \in Char \cup {Nul} : buffer = [k \in Offsets |-> c]
    /\ values = <<>> /\ added = <<>>

-----------------------------------------------------------------------------
(* unitLength and valueLength: what a string needs in the buffer (mutant:  *)
(* nothing for its end)                                                    *)
SizeWithoutEnd(s) == IF s = Null THEN 0 ELSE Len(s)

Size(s) == IF s = Null THEN 0 ELSE Len(s) + 1

(* the first condition of CayenneDataArrayAdd *)
Full == Len(values) >= MaxValues

Fits(p) == bufferIndex + Size(p.unit) + Size(p.value) <= bufferSize

(* memcpy of a string, its end included *)
Copied(b, at, s) ==
    IF s = Null THEN b
    ELSE [k \in Offsets |->
            IF at <= k /\ k < at + Len(s) THEN s[k - at + 1]
            ELSE IF k = at + Len(s) THEN Nul
            ELSE b[k]]

PointerTo(at, s) == IF s = Null THEN Null ELSE at

CayenneDataArrayAdd(p) ==
    /\ ~Full /\ Fits(p)
    /\ LET valueIndex == bufferIndex + Size(p.unit)
       IN  /\ buffer' = Copied(Copied(buffer, bufferIndex, p.unit), valueIndex, p.value)
           /\ values' = Append(values, [unit |-> PointerTo(bufferIndex, p.unit),
                                        value |-> PointerTo(valueIndex, p.value)])
           /\ bufferIndex' = valueIndex + Size(p.value)
    /\ added' = Append(added, p)

(* CAYENNE_FAILURE: the array is as it was *)
AddFails(p) ==
    /\ Full \/ ~Fits(p)
    /\ UNCHANGED arrayVars

CayenneDataArrayClear ==
    /\ bufferIndex' = 0
    /\ buffer' = [k \in Offsets |-> Nul]
    /\ values' = <<>> /\ added' = <<>>

ArrayNext ==
    \/ \E p \in Pair : CayenneDataArrayAdd(p) \/ AddFails(p)
    \/ CayenneDataArrayClear

ArraySpec == ArrayInit /\ [][ArrayNext]_arrayVars

-----------------------------------------------------------------------------
ArrayTypeOK ==
    /\ bufferIndex \in Nat
    /\ buffer \in [Offsets -> Char \cup {Nul}]
    /\ values \in Seq([unit : Pointer, value : Pointer])
    /\ added \in Seq(Pair)

(* the pointer p points at the string s, in the first n bytes of the buffer b *)
PointsAt(p, s, b, n) ==
    \/ p = Null /\ s = Null
    \/ /\ p # Null /\ s # Null
       /\ p + Len(s) < n
       /\ \A i \in 1..Len(s) : b[p + i - 1] = s[i]
       /\ b[p + Len(s)] = Nul

(* Every pair in the array still reads as it was added, however many were  *)
(* added since: no string is cut off, runs into the next or is written     *)
(* over, and all of them lie in the buffer.                                *)
StringsIntact ==
    /\ bufferIndex <= bufferSize
    /\ Len(values) = Len(added) /\ Len(values) <= MaxValues
    /\ \A i \in 1..Len(values) :
         /\ PointsAt(values[i].unit, added[i].unit, buffer, bufferIndex)
         /\ PointsAt(values[i].value, added[i].value, buffer, bufferIndex)

=============================================================================
